CONSTANTS
    e1 = e1
    e2 = e2
    w1 = w1
    w2 = w2
    s1 = s1
    s2 = s2
    Escrows <- MCOneEscrow
    Webhooks <- MCTwoWebhooks
    Sweepers <- MCTwoSweepers
SPECIFICATION FairSpec

    
PROPERTIES
    ImplementsStatusMachine
    OverdueEventuallyLeavesActive
