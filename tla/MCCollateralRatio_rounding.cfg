CONSTANTS
    Precision = 3
    Amounts <- MCAmountsWide
    Collaterals <- MCCollateralsWide
SPECIFICATION Spec
INVARIANT RatioCheckExact
