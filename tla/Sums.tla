-------------------------------- MODULE Sums --------------------------------
(* The sum of a sequence of amounts, as Python's sum() takes it. *)
EXTENDS Integers, Sequences

Added(amounts) ==
    LET terms == amounts \o <<>>  \* the same sequence, which TLC then evaluates once
        upTo[i \in 0 .. Len(terms)] == IF i = 0 THEN 0 ELSE upTo[i - 1] + terms[i]
    IN  upTo[Len(terms)]
=============================================================================
