------------------------------ MODULE Batches ------------------------------
(***************************************************************************)
(* What is taken out of a batch of messages.                               *)
(***************************************************************************)
EXTENDS Naturals, Sequences

\* The elements of s at the places in I, in their order: SelectSeq, as a
\* function.
Picked(s, I) ==
  LET Upto[i \in 0..Len(s)] ==
        IF i = 0 THEN <<>>
        ELSE IF i \in I THEN Append(Upto[i - 1], s[i]) ELSE Upto[i - 1]
  IN Upto[Len(s)]
=============================================================================
