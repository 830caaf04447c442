SPECIFICATION FairSpec
CONSTANTS
    b1 = b1
    r1 = r1
    r2 = r2
    c1 = c1
    None = None
    Bundles = {b1}
    Regs = {r1, r2}
    Clients = {c1}
    Matches <- MatchesAll
    Custodial = {b1}
    Perishable = {b1}
    Timed = {r2}
    Drops = {r1}
    Binds <- BindsAll
    Registers <- RegistersSecond
    MaxCrashes = 1
    MaxQueue = 2
INVARIANTS
    TypeOK
    NoneMissed
    OwedIsKept
    CustodyUntilTaken
PROPERTIES
    
    CallsReturn
    
CHECK_DEADLOCK FALSE
