SPECIFICATION FairSpec
CONSTANTS
 s1 = s1
 s2 = s2
 b1 = b1
 b2 = b2
 NoBundle = NoBundle
 Sides = {s1, s2}
 Bundles = {b1}
 Queued <- OnlyB1
 Length <- Unit1
 HeaderLength = 0
 SegmentLength = 1
 SendBufLen = 2
 WireLen = 3
 Reactive = TRUE
 Keepalives = TRUE
 Breaks = {"broken"}
 Cancels = {}
 MaxContacts = 2
CHECK_DEADLOCK FALSE
INVARIANTS
 OncePerContact
PROPERTIES
 AllTransmitted
