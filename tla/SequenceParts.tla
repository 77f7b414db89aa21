---------------------------- MODULE SequenceParts ----------------------------
(***************************************************************************)
(* What is taken out of a list by a comprehension with a condition, as a   *)
(* recursive function, of which proofs can speak.                          *)
(***************************************************************************)
EXTENDS Integers, Sequences, SequencesExt, FiniteSets

\* The elements of a sequence at the places that are chosen, in order.
Chosen(seq, places) ==
    LET upto[n \in 0..Len(seq)] ==
            IF n = 0 THEN <<>>
            ELSE IF n \in places THEN Append(upto[n - 1], seq[n]) ELSE upto[n - 1]
    IN  upto[Len(seq)]
=============================================================================
