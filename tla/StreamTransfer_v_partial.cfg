SPECIFICATION Spec
CONSTANTS
 s1 = s1
 s2 = s2
 b1 = b1
 b2 = b2
 NoBundle = NoBundle
 Sides = {s1, s2}
 Bundles = {b1}
 Queued <- OnlyB1
 Length <- Lengths
 HeaderLength = 0
 SegmentLength = 2
 SendBufLen = 2
 WireLen = 3
 Reactive = TRUE
 Keepalives = FALSE
 Breaks = {"user", "broken"}
 Cancels = {b1}
 MaxContacts = 1
CHECK_DEADLOCK FALSE
INVARIANT PartialHandedOver
