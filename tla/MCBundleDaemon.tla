--------------------------- MODULE MCBundleDaemon ---------------------------
EXTENDS BundleDaemon
CONSTANTS b1, b2, l1, l2, n1, n2
MCRoutes == <<l1, l2>>
OneRoute == <<l1>>
MCKey == [b \in Bundles |-> b]
SameKey == [b \in Bundles |-> b1]
Forward == [l \in Links |-> "forward"]
Copy == [l \in Links |-> "copy"]
SameRemote == [l \in Links |-> n1]
MCRemote == [l \in Links |-> IF l = l1 THEN n1 ELSE n2]
=============================================================================
