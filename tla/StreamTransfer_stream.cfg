SPECIFICATION Spec
CONSTANTS
 s1 = s1
 s2 = s2
 b1 = b1
 b2 = b2
 NoBundle = NoBundle
 Sides = {s1, s2}
 Bundles = {b1, b2}
 Queued <- BothWays
 Length <- Lengths
 HeaderLength = 0
 SegmentLength = 2
 SendBufLen = 2
 WireLen = 3
 Reactive = TRUE
 Keepalives = FALSE
 Breaks = {"user", "broken"}
 Cancels = {b1, b2}
 MaxContacts = 1
CHECK_DEADLOCK FALSE
INVARIANTS
 TypeOK
 NoProtocolError
 ReceivedIntact
 HeldOnce
PROPERTIES
 ImplementsTransfer
