-------------------------- MODULE MCStreamTransfer --------------------------
EXTENDS StreamTransfer
CONSTANTS s1, s2, b1, b2
BothWays == [s \in Sides |-> IF s = s1 THEN <<b1>> ELSE <<b2>>]
Lengths == [b \in Bundles |-> IF b = b1 THEN 3 ELSE 2]
Unit1 == [b \in Bundles |-> 1]
OnlyB1 == [s \in Sides |-> IF s = s1 THEN <<b1>> ELSE <<>>]
=============================================================================
