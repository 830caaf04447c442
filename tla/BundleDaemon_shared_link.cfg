SPECIFICATION Spec
CONSTANTS
    b1 = b1
    b2 = b2
    l1 = l1
    l2 = l2
    n1 = n1
    n2 = n2
    NoBundle = NoBundle
    NoLink = NoLink
    Bundles = {b1, b2}
    Links = {l1}
    Nodes = {n1}
    Keys = {b1, b2}
    Key <- MCKey
    Routes <- OneRoute
    Action <- Forward
    Remote <- MCRemote
    Passive = {}
    QueueHigh = 0
    QueueLow = 1
    MaxContacts = 3
    EarlyDeletion = TRUE
    SuppressDuplicates = TRUE
    AcceptCustody = TRUE
    CustodyRequested = {b1}
    Stimuli = {"app", "break", "expire", "custodytimeout", "cancel"}
INVARIANTS
    ExpiryArmed
    DeferredIsPending
    SendListsLogged
CHECK_DEADLOCK FALSE
