SPECIFICATION Spec
CONSTANTS
    b1 = b1
    r1 = r1
    r2 = r2
    c1 = c1
    None = None
    Bundles = {b1}
    Regs = {r1}
    Clients = {c1}
    Matches <- MatchesAll
    Custodial = {b1}
    Perishable = {}
    Timed = {r1}
    Drops = {}
    Binds <- BindsNone
    Registers <- RegistersAll
    MaxCrashes = 0
    MaxQueue = 2
INVARIANTS ExpiredIsListed
CHECK_DEADLOCK FALSE
