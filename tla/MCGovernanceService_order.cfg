CONSTANTS
    p1 = p1
    v1 = v1
    v2 = v2
    r1 = r1
    r2 = r2
    r3 = r3
    Proposals <- MCProposals
    Voters <- MCVoters
    Requests <- MCRequests
    VoteUnique = TRUE
SPECIFICATION Spec
INVARIANT
    BroadcastTallyMonotone
CHECK_DEADLOCK FALSE
