-------------------------- MODULE MCCollateralRatio --------------------------
(***************************************************************************)
(* Model-checking instances of CollateralRatio. decimal.js uses 20         *)
(* significant digits; the runs use 3, so that the inputs where rounding   *)
(* matters (an amount with more digits than Precision - 1) are small.      *)
(***************************************************************************)
EXTENDS CollateralRatio

\* Every amount below 10^(Precision-1), with the spec's own examples
\* (amount 100 with collateral 149 and 150).
MCAmountsSmall == 1..100
MCCollateralsSmall == 1..160

\* Amounts with one digit more than Precision - 1 allows.
MCAmountsWide == 95..110
MCCollateralsWide == 140..170
=============================================================================
