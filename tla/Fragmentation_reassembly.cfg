SPECIFICATION Spec
CONSTANTS
 Total = 3
 HeaderLen = 1
 TrailerLen = 1
 SegmentLen = 2
 MaxAttempts = 3
 MaxFaults = 1
CHECK_DEADLOCK FALSE
INVARIANTS
 ReassemblyExact
 PendingAreListed
 BytesKept
 OncePerLife
