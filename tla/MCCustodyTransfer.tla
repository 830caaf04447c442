------------------------- MODULE MCCustodyTransfer -------------------------
EXTENDS CustodyTransfer
CONSTANTS n1, n2, n3
\* n1 sends to n2 and to the destination n3, n2 sends to n3
ForkHops == [n \in Nodes |-> IF n = n1 THEN {n2, n3} ELSE IF n = n2 THEN {n3} ELSE {}]
ForkRank == [n \in Nodes |-> IF n = n1 THEN 2 ELSE IF n = n2 THEN 1 ELSE 0]
=============================================================================
