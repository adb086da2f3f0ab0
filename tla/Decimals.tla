------------------------------ MODULE Decimals ------------------------------
(***************************************************************************)
(* The fixed-point numbers of src/src/domain/decimal.cpp: an amount or a   *)
(* rate is an integer number of units of 10^-Scale in a machine word.      *)
(* Every operation answers a result: a value, or a failure where the code  *)
(* returns a DomainError.  The word, the scale and the columns are         *)
(* parameters; the code has Word = 2^128, Scale = 10, NUMERIC(20,8) for    *)
(* amounts and NUMERIC(20,10) for rates.                                   *)
(*                                                                         *)
(* A number written in text is its sign and its two runs of digits; blanks *)
(* and malformed characters, which the code strips or rejects before any   *)
(* arithmetic, are left out.                                               *)
(***************************************************************************)
EXTENDS Integers, Sequences

CONSTANTS Word,          \* values of the unsigned word
          Scale,         \* fraction digits a number keeps
          AmountPlaces,  \* fraction digits of an amount column
          AmountDigits,  \* integer digits of an amount column
          RateDigits     \* integer digits of a rate column, which keeps Scale

ASSUME WordAssumption == Word \in Nat /\ Word > 3 /\ Word % 4 = 0
ASSUME ScaleAssumption == Scale \in Nat \ {0} /\ AmountPlaces \in 0..Scale
ASSUME DigitsAssumption == AmountDigits \in Nat /\ RateDigits \in Nat

(* 10^n, multiplied up as the loops of the code do.                        *)
TenTo(n) ==
    LET power[k \in 0..n] == IF k = 0 THEN 1 ELSE 10 * power[k - 1]
    IN  power[n]

One == TenTo(Scale)
SignedMax == Word \div 2 - 1
Ceiling == Word \div 4

(* A number in text.                                                       *)
Numeral == [negative : BOOLEAN, whole : Seq(0..9), fraction : Seq(0..9)]

Some(value) == [ok |-> TRUE, value |-> value]
Fail == [ok |-> FALSE, value |-> 0]

Magnitude(a) == IF a < 0 THEN -a ELSE a
Signed(negative, magnitude) == IF negative THEN -magnitude ELSE magnitude

\* Mutation: halves are rounded away from zero.
NearestAway(n, d) == IF 2 * (n % d) >= d THEN n \div d + 1 ELSE n \div d

(* The quotient n / d rounded half to even, from the truncated quotient    *)
(* and its remainder.                                                      *)
Nearest(n, d) ==
    LET q == n \div d
        r == n % d
    IN  IF 2 * r > d \/ (2 * r = d /\ q % 2 = 1) THEN q + 1 ELSE q

(* The product is formed in the unsigned word, where it may wrap; dividing *)
(* it back shows whether it did.                                           *)
Product(x, y) == (x * y) % Word
Wrapped(x, y) == y # 0 /\ Product(x, y) \div y # x

CheckedMul(a, b) ==
    LET x == Magnitude(a)
        y == Magnitude(b)
        negative == (a < 0) # (b < 0)
    IN  IF Wrapped(x, y) \/ Product(x, y) > SignedMax + (IF negative THEN 1 ELSE 0)
        THEN Fail
        ELSE Some(Signed(negative, Product(x, y)))

(* The sum wraps in two's complement: it is wrong when its sign differs    *)
(* from that of both terms.                                                *)
CheckedAdd(a, b) ==
    LET bits == (a + b) % Word
        sum == IF bits > SignedMax THEN bits - Word ELSE bits
    IN  IF ((a < 0) # (sum < 0)) /\ ((b < 0) # (sum < 0)) THEN Fail ELSE Some(sum)

Add(a, b) == CheckedAdd(a, b)
Subtract(a, b) == CheckedAdd(a, -b)

Capped(negative, magnitude) ==
    IF magnitude > Ceiling THEN Fail ELSE Some(Signed(negative, magnitude))

Multiply(a, b) ==
    LET x == Magnitude(a)
        y == Magnitude(b)
    IN  IF Wrapped(x, y)
        THEN Fail
        ELSE Capped((a < 0) # (b < 0), Nearest(Product(x, y), One))

Divide(a, b) ==
    LET x == Magnitude(a)
    IN  IF b = 0 \/ Wrapped(x, One)
        THEN Fail
        ELSE Capped((a < 0) # (b < 0), Nearest(Product(x, One), Magnitude(b)))

RoundTo(a, places) ==
    LET unit == TenTo(Scale - places)
        rounded == Nearest(Magnitude(a), unit) * unit
    IN  IF rounded > SignedMax THEN Fail ELSE Some(Signed(a < 0, rounded))

(* The value needs no more fraction digits and no more integer digits than *)
(* the column has.                                                         *)
Fits(a, digits, places) ==
    /\ Magnitude(a) % TenTo(Scale - places) = 0
    /\ Magnitude(a) \div One < TenTo(digits)

FitsAmount(a) == Fits(a, AmountDigits, AmountPlaces)
FitsRate(a) == Fits(a, RateDigits, Scale)

-----------------------------------------------------------------------------
(* Reading a number from text: its fraction is padded or rounded half to   *)
(* even by looking at the dropped digits, then the digits are pushed one   *)
(* at a time.                                                              *)

\* Mutation: only the first of the dropped digits is looked at.
RoundsUpByFirst(fraction) ==
    /\ Len(fraction) > Scale
    /\ LET first == fraction[Scale + 1]
       IN  first > 5 \/ (first = 5 /\ fraction[Scale] % 2 = 1)

RoundsUp(fraction) ==
    /\ Len(fraction) > Scale
    /\ LET first == fraction[Scale + 1]
           rest == \E k \in Scale + 2..Len(fraction) : fraction[k] # 0
       IN  \/ first > 5
           \/ first = 5 /\ (rest \/ fraction[Scale] % 2 = 1)

PushDigit(number, digit) ==
    IF ~number.ok THEN Fail
    ELSE LET shifted == CheckedMul(number.value, 10)
         IN  IF shifted.ok THEN CheckedAdd(shifted.value, digit) ELSE Fail

Pushed(digits) ==
    LET pushed[k \in 0..Len(digits)] ==
            IF k = 0 THEN Some(0) ELSE PushDigit(pushed[k - 1], digits[k])
    IN  pushed[Len(digits)]

Parse(text) ==
    LET kept == [k \in 1..Scale |->
                    IF k <= Len(text.fraction) THEN text.fraction[k] ELSE 0]
        pushed == Pushed(text.whole \o kept)
        carried == IF pushed.ok /\ RoundsUp(text.fraction)
                   THEN CheckedAdd(pushed.value, 1) ELSE pushed
    IN  IF (text.whole = <<>> /\ text.fraction = <<>>) \/ ~carried.ok
        THEN Fail
        ELSE Capped(text.negative, carried.value)

SignificantPlaces(fraction) ==
    CHOOSE n \in 0..Len(fraction) :
        /\ n > 0 => fraction[n] # 0
        /\ \A k \in n + 1..Len(fraction) : fraction[k] = 0

(* parse_numeric_20_8 and parse_numeric_20_10: a number that would not be  *)
(* stored as it was typed is refused.                                      *)
ParseColumn(text, digits, places) ==
    LET number == Parse(text)
    IN  IF /\ number.ok
           /\ SignificantPlaces(text.fraction) <= places
           /\ Fits(number.value, digits, places)
        THEN number
        ELSE Fail

DigitsOf(n, width) == [k \in 1..width |-> (n \div TenTo(width - k)) % 10]

WidthOf(n) == CHOOSE w \in 1..n + 1 : n < TenTo(w) /\ (w > 1 => n >= TenTo(w - 1))

(* to_string: the fraction without its trailing zeros.                     *)
ToText(a) ==
    LET whole == Magnitude(a) \div One
        fraction == DigitsOf(Magnitude(a) % One, Scale)
    IN  [negative |-> a < 0, whole |-> DigitsOf(whole, WidthOf(whole)),
         fraction |-> SubSeq(fraction, 1, SignificantPlaces(fraction))]

-----------------------------------------------------------------------------
(* What the operations are meant to compute, in exact arithmetic.          *)

(* q is n / d rounded to the nearest integer, to the even one of two.      *)
IsNearest(q, n, d) ==
    LET twice == 2 * Magnitude(q * d - n)
    IN  twice < Magnitude(d) \/ (twice = Magnitude(d) /\ q % 2 = 0)

(* A result is the correctly rounded n / d, or it failed for a reason.     *)
RightlyRounded(result, n, d, reason) ==
    IF result.ok THEN IsNearest(result.value, n, d) ELSE reason

(* What digits say.                                                        *)
Number(digits) ==
    LET number[k \in 0..Len(digits)] ==
            IF k = 0 THEN 0 ELSE 10 * number[k - 1] + digits[k]
    IN  number[Len(digits)]

NumberOf(text) == Signed(text.negative, Number(text.whole \o text.fraction))

=============================================================================
