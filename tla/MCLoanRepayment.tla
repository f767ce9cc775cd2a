--------------------------- MODULE MCLoanRepayment ---------------------------
(***************************************************************************)
(* Model-checking instances of LoanRepayment: one loan, two concurrent     *)
(* recordRepayment handlers, principals of 2 and 3 column units.           *)
(***************************************************************************)
EXTENDS LoanRepayment, TLC

CONSTANTS l1, l2, r1, r2

MCLoans == {l1}
MCRequests == {r1, r2}
MCPrincipals == {2, 3}
MCCollaterals == {4, 5}

Symmetry == Permutations(MCRequests)
=============================================================================
