SPECIFICATION Spec
CONSTANTS
    b1 = b1
    b2 = b2
    l1 = l1
    l2 = l2
    n1 = n1
    n2 = n2
    NoBundle = NoBundle
    NoLink = NoLink
    Bundles = {b1}
    Links = {l1, l2}
    Nodes = {n1, n2}
    Keys = {b1}
    Key <- MCKey
    Routes <- MCRoutes
    Action <- Forward
    Remote <- MCRemote
    Passive = {}
    QueueHigh = 0
    QueueLow = 1
    MaxContacts = 2
    EarlyDeletion = TRUE
    SuppressDuplicates = TRUE
    AcceptCustody = TRUE
    CustodyRequested = {b1}
    Stimuli = {"app", "break", "signal", "custodytimeout", "expire"}
INVARIANTS
    TypeOK
    CustodyTimersHeld
    CustodyRetried
    SingleCopy
PROPERTIES
    TransmittedSticks
CHECK_DEADLOCK FALSE
