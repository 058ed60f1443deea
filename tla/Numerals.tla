------------------------------ MODULE Numerals ------------------------------
(***************************************************************************)
(* Numbers and their numerals: the sequences of their digits in a base.    *)
(***************************************************************************)
EXTENDS Integers, Sequences

\* Reading: every digit moves the number before it up by one place.
Number(d, base) ==
    LET result[i \in 0 .. Len(d)] == IF i = 0 THEN 0 ELSE base * result[i - 1] + d[i]
    IN result[Len(d)]

\* Printing: the remainders of dividing until nothing is left, the last one first.
Printed(n, base) ==
    LET rest[i \in 0 .. n + 1] == IF i = 0 THEN n ELSE rest[i - 1] \div base
        width == CHOOSE k \in 1 .. n + 1 : rest[k] = 0 /\ \A j \in 1 .. k - 1 : rest[j] # 0
    IN [i \in 1..width |-> rest[width - i] % base]
=============================================================================
