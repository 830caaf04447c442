SPECIFICATION Spec
CONSTANTS
    b1 = b1
    b2 = b2
    l1 = l1
    l2 = l2
    n1 = n1
    n2 = n2
    NoBundle = NoBundle
    NoLink = NoLink
    Bundles = {b1, b2}
    Links = {l1}
    Nodes = {n1}
    Keys = {b1}
    Key <- SameKey
    Routes <- OneRoute
    Action <- Forward
    Remote <- MCRemote
    Passive = {}
    QueueHigh = 0
    QueueLow = 1
    MaxContacts = 3
    EarlyDeletion = TRUE
    SuppressDuplicates = FALSE
    AcceptCustody = TRUE
    CustodyRequested = {b1, b2}
    Stimuli = {"app", "peer", "signal", "crash", "expire", "custodytimeout", "doa", "cancelsend"}
INVARIANTS
    CustodyCoherent
    OneCustodyPerIdentity
    StoreHasObject
PROPERTIES
    CustodyKept
CHECK_DEADLOCK FALSE
