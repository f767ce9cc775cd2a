CONSTANTS
    c1 = c1
    c2 = c2
    c3 = c3
    Conns <- MCConns
    Responsive <- MCResponsive
    Dead <- MCDead
SPECIFICATION FairSpec
INVARIANT ResponsiveNeverTerminated
PROPERTY DeadEventuallyRemoved
CHECK_DEADLOCK FALSE
