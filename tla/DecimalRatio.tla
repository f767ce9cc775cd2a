---------------------------- MODULE DecimalRatio ----------------------------
(***************************************************************************)
(* The collateral-ratio test of LoanService.issueLoan:                     *)
(*                                                                         *)
(*     collateralRatio = collateralAmt.div(amount)                         *)
(*     if (collateralRatio.lt(MIN_COLLATERAL_RATIO)) throw ValidationError *)
(*                                                                         *)
(* decimal.js computes div to Decimal.precision significant digits (20 by  *)
(* default) with the default rounding mode ROUND_HALF_UP; lt is exact.     *)
(* Amounts are positive decimals; a decimal amount is modelled by the      *)
(* positive integer that counts its smallest digit, which leaves the       *)
(* quotient unchanged. MIN_COLLATERAL_RATIO = 1.5 is MinRatioNum /         *)
(* MinRatioDen.                                                            *)
(***************************************************************************)
EXTENDS Integers

CONSTANT Precision   \* Decimal.precision, the significant digits of div

\* Precision is a positive integer.

MinRatioNum == 3
MinRatioDen == 2

\* 10^d <= c / a, for an integer d of either sign.
AtLeastPow10(c, a, d) ==
    IF d >= 0 THEN 10^d * a <= c ELSE a <= c * 10^(-d)

\* The number of decimal digits of the positive integer n.
NumDigits(n) == CHOOSE k \in 1..9 : 10^(k - 1) <= n /\ n < 10^k

\* The decimal exponent of c / a: the d with 10^d <= c/a < 10^(d+1).
Magnitude(c, a) ==
    CHOOSE d \in -NumDigits(a)..NumDigits(c) :
        AtLeastPow10(c, a, d) /\ ~AtLeastPow10(c, a, d + 1)

\* The quotient c / a rounded half-up to Precision significant digits is
\* Mantissa(c, a) * 10^(-Shift(c, a)).
Shift(c, a) == Precision - 1 - Magnitude(c, a)

Mantissa(c, a) ==
    LET s == Shift(c, a) IN
    IF s >= 0 THEN (2 * c * 10^s + a) \div (2 * a)
              ELSE (2 * c + a * 10^(-s)) \div (2 * a * 10^(-s))

\* Mutant: the test written with lte, refusing a ratio of exactly 1.5.
RatioAcceptedStrict(amount, collateralAmt) ==
    LET m == Mantissa(collateralAmt, amount)
        s == Shift(collateralAmt, amount)
    IN  IF s >= 0 THEN MinRatioDen * m > MinRatioNum * 10^s
                  ELSE MinRatioDen * m * 10^(-s) > MinRatioNum

\* collateralAmt.div(amount) >= MIN_COLLATERAL_RATIO, i.e. not lt.
RatioAccepted(amount, collateralAmt) ==
    LET m == Mantissa(collateralAmt, amount)
        s == Shift(collateralAmt, amount)
    IN  IF s >= 0 THEN MinRatioDen * m >= MinRatioNum * 10^s
                  ELSE MinRatioDen * m * 10^(-s) >= MinRatioNum

\* The reference: collateralAmt / amount >= 1.5 in exact arithmetic.
ExactRatioAccepted(amount, collateralAmt) ==
    MinRatioDen * collateralAmt >= MinRatioNum * amount
=============================================================================
