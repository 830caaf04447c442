------------------------------ MODULE Selection ------------------------------
(***************************************************************************)
(* What a loop over a list that skips some of its elements visits.         *)
(***************************************************************************)
EXTENDS Naturals, Sequences

\* The elements of s that are in S, in their order.  (A recursive function: the
\* proofs have nothing to say about SelectSeq.)
SelectIn(s, S) ==
    LET among[i \in 0 .. Len(s)] ==
            IF i = 0 THEN <<>>
            ELSE IF s[i] \in S THEN Append(among[i - 1], s[i])
            ELSE among[i - 1]
    IN  among[Len(s)]
=============================================================================
