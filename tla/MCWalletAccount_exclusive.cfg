CONSTANTS
    u1 = u1
    u2 = u2
    a1 = a1
    a2 = a2
    a3 = a3
    c1 = c1
    c2 = c2
    c3 = c3
    lb = lb
    Users <- MCUsers
    Addresses <- MCAddresses
    Challenges <- MCChallenges
    Labels <- MCLabels
    NoChallenge = NoChallenge
SPECIFICATION Spec
SYMMETRY Symmetry
INVARIANT
    AddressExclusive
