SPECIFICATION FairSpec
CONSTANTS
    n1 = n1
    n2 = n2
    n3 = n3
    None = None
    Nodes = {n1, n2, n3}
    Src = n1
    Dst = n3
    Hops <- ForkHops
    Rank <- ForkRank
    Accepts = {n1, n2}
    MaxCrashes = 1
    MaxCopies = 1
CHECK_DEADLOCK FALSE
INVARIANTS
    SomeoneHasCustody
PROPERTIES
    CustodyDelivers
