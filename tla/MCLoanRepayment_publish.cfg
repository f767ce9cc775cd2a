CONSTANTS
    l1 = l1
    l2 = l2
    r1 = r1
    r2 = r2
    Loans <- MCLoans
    Requests <- MCRequests
    Principals <- MCPrincipals
    Collaterals <- MCCollaterals
    Precision = 4
    Scale = 1
    MaxRepayments = 3
SYMMETRY Symmetry
SPECIFICATION Spec
INVARIANT PublishedCommitted
