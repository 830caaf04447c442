------------------------------ MODULE Transfer ------------------------------
(***************************************************************************)
(* What a convergence layer with acknowledgements promises the two daemons *)
(* it joins, without segments, buffers or connections.  The sender learns  *)
(* how much of a bundle the receiver holds, and never more than that; when *)
(* the contact ends it gets back what nothing is known to have arrived of, *)
(* and a report of the rest; the receiver gets the bundles that arrived    *)
(* whole.                                                                  *)
(***************************************************************************)
EXTENDS Naturals, FiniteSets

CONSTANTS Bundles, Length

VARIABLES
    status,      \* of each bundle, at the sender
    arrived,     \* the longest prefix that reached the receiver
    confirmed,   \* how much of it the sender knows to have arrived
    handed       \* the bundles handed over to the receiving daemon

vars == <<status, arrived, confirmed, handed>>

TypeOK ==
    /\ status \in [Bundles -> {"waiting", "moving", "done", "cancelled"}]
    /\ arrived \in [Bundles -> Nat]
    /\ confirmed \in [Bundles -> Nat]
    /\ handed \subseteq Bundles

Init ==
    /\ status = [b \in Bundles |-> "waiting"]
    /\ arrived = [b \in Bundles |-> 0]
    /\ confirmed = [b \in Bundles |-> 0]
    /\ handed = {}

Take(b) ==
    /\ status[b] = "waiting"
    /\ status' = [status EXCEPT ![b] = "moving"]
    /\ UNCHANGED <<arrived, confirmed, handed>>

\* Data may still arrive when the sender has given the contact up.
Arrive(b, n) ==
    /\ status[b] # "cancelled"
    /\ n > arrived[b] /\ n <= Length[b]
    /\ arrived' = [arrived EXCEPT ![b] = n]
    /\ handed' = IF n = Length[b] THEN handed \cup {b} ELSE handed
    /\ UNCHANGED <<status, confirmed>>

Confirm(b, n) ==
    /\ status[b] = "moving"
    /\ n > confirmed[b] /\ n <= arrived[b]
    /\ confirmed' = [confirmed EXCEPT ![b] = n]
    /\ status' = [status EXCEPT ![b] = IF n = Length[b] THEN "done" ELSE @]
    /\ UNCHANGED <<arrived, handed>>

Cancel(b) ==
    /\ status[b] = "moving" /\ confirmed[b] = 0
    /\ status' = [status EXCEPT ![b] = "cancelled"]
    /\ UNCHANGED <<arrived, confirmed, handed>>

\* The contact ends: what is known to have arrived in part is reported, the
\* rest waits for the next contact.
End(S) ==
    /\ S # {} /\ \A b \in S : status[b] = "moving"
    /\ status' = [b \in Bundles |-> IF b \in S
                                    THEN IF confirmed[b] = 0 THEN "waiting" ELSE "done"
                                    ELSE status[b]]
    /\ UNCHANGED <<arrived, confirmed, handed>>

Next ==
    \/ \E b \in Bundles : Take(b) \/ Cancel(b)
    \/ \E b \in Bundles : \E n \in 1..Length[b] : Arrive(b, n) \/ Confirm(b, n)
    \/ \E S \in SUBSET Bundles : End(S)

Spec == Init /\ [][Next]_vars

\* What the sender believes is true: it never takes for delivered what the
\* receiving daemon does not have, and keeps what nothing arrived of.
Honest ==
    \A b \in Bundles :
        /\ confirmed[b] <= arrived[b] /\ arrived[b] <= Length[b]
        /\ arrived[b] = Length[b] <=> b \in handed
        /\ status[b] = "done" => confirmed[b] > 0
        /\ status[b] = "done" /\ confirmed[b] = Length[b] => b \in handed
=============================================================================
