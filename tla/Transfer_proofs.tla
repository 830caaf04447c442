--------------------------- MODULE Transfer_proofs --------------------------
(***************************************************************************)
(* What every implementation of the abstract transfer inherits.            *)
(***************************************************************************)
EXTENDS Transfer, TLAPS

Inv == TypeOK /\ Honest

\* The promise is inductive: only what arrived is confirmed, only what
\* arrived whole is handed over.
LEMMA HonestStep ==
    ASSUME Length \in [Bundles -> Nat \ {0}], Inv, [Next]_vars
    PROVE  Inv'
<1> USE DEF Inv, TypeOK
<1>1. ASSUME NEW b \in Bundles, Take(b) PROVE Inv'
  BY <1>1 DEF Take, Honest
<1>2. ASSUME NEW b \in Bundles, Cancel(b) PROVE Inv'
  BY <1>2 DEF Cancel, Honest
<1>3. ASSUME NEW b \in Bundles, NEW n \in 1..Length[b], Arrive(b, n) PROVE Inv'
  <2>1. n \in Nat /\ Length[b] \in Nat /\ n <= Length[b] /\ n > arrived[b]
    BY <1>3 DEF Arrive
  <2>2. handed' = IF n = Length[b] THEN handed \cup {b} ELSE handed
    BY <1>3 DEF Arrive
  <2>3. /\ arrived' = [arrived EXCEPT ![b] = n]
        /\ status' = status /\ confirmed' = confirmed
    BY <1>3 DEF Arrive
  <2>4. TypeOK'
    BY <2>1, <2>2, <2>3
  <2>5. b \notin handed
    BY <2>1 DEF Honest
  <2>6. ASSUME NEW c \in Bundles
        PROVE  /\ confirmed'[c] <= arrived'[c] /\ arrived'[c] <= Length[c]
               /\ arrived'[c] = Length[c] <=> c \in handed'
               /\ status'[c] = "done" => confirmed'[c] > 0
               /\ status'[c] = "done" /\ confirmed'[c] = Length[c] => c \in handed'
    <3>1. CASE c = b
      BY <2>1, <2>2, <2>3, <2>5, <3>1 DEF Honest
    <3>2. CASE c # b
      BY <2>2, <2>3, <3>2 DEF Honest
    <3> QED BY <3>1, <3>2
  <2> QED BY <2>4, <2>6 DEF Honest
<1>4. ASSUME NEW b \in Bundles, NEW n \in 1..Length[b], Confirm(b, n) PROVE Inv'
  BY <1>4 DEF Confirm, Honest
<1>5. ASSUME NEW S \in SUBSET Bundles, End(S) PROVE Inv'
  BY <1>5 DEF End, Honest
<1>6. CASE UNCHANGED vars
  BY <1>6 DEF vars, Honest
<1> QED BY <1>1, <1>2, <1>3, <1>4, <1>5, <1>6 DEF Next

\* What an implementation of the transfer reports is true: a convergence
\* layer that refines Transfer never posts a BundleTransmittedEvent for more
\* than the peer holds.
THEOREM TransferIsHonest ==
    ASSUME Length \in [Bundles -> Nat \ {0}]
    PROVE  Spec => []Honest
<1>1. Init => Inv
  BY DEF Init, Inv, TypeOK, Honest
<1>2. Inv /\ [Next]_vars => Inv'
  BY HonestStep
<1>3. Inv => Honest
  BY DEF Inv
<1> QED BY <1>1, <1>2, <1>3, PTL DEF Spec
=============================================================================
