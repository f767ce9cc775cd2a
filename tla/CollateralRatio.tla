--------------------------- MODULE CollateralRatio ---------------------------
(***************************************************************************)
(* A client submits an issueLoan request, and may submit it again; each   *)
(* submission is accepted (the loan is created PENDING) or refused with    *)
(* ValidationError by the collateral-ratio test of LoanService.issueLoan.  *)
(* The request is any pair of the constant sets Amounts and Collaterals.   *)
(***************************************************************************)
EXTENDS DecimalRatio

CONSTANTS Amounts, Collaterals

\* Amounts and Collaterals are sets of positive integers.

VARIABLES request, verdict

vars == <<request, verdict>>

Init ==
    /\ request \in [amount : Amounts, collateralAmt : Collaterals]
    /\ verdict = "none"

\* issueLoan with the request's amount and collateralAmt (the ratio test).
IssueLoan ==
    /\ verdict' = IF RatioAccepted(request.amount, request.collateralAmt)
                  THEN "PENDING" ELSE "ValidationError"
    /\ UNCHANGED request

Next == IssueLoan

Spec == Init /\ [][Next]_vars

(***************************************************************************)
(* issueLoan accepts a loan exactly when collateralAmt / amount >= 1.5 in  *)
(* exact arithmetic, as the spec demands ("exact decimal division"): the   *)
(* rounding of collateralAmt.div(amount) never turns a ratio just below    *)
(* 1.5 into an accepted one.                                               *)
(***************************************************************************)
RatioCheckExact ==
    verdict # "none" =>
        (verdict = "PENDING" <=> ExactRatioAccepted(request.amount, request.collateralAmt))
=============================================================================
