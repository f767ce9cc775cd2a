CONSTANTS
    k1 = k1
    k2 = k2
    l1 = l1
    l2 = l2
    n1 = n1
    n2 = n2
    n3 = n3
    Keys <- MCKeys
    Logins <- MCLogins
    Nonces <- MCNonces
    MaxGrants = 3
    MaxRefresh = 1
SPECIFICATION Spec
INVARIANT NonceSingleUse
CHECK_DEADLOCK FALSE
