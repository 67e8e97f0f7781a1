----------------------------- MODULE Selection ------------------------------
(***************************************************************************)
(* Choosing from sequences by position, in the order of the sequence.      *)
(***************************************************************************)
EXTENDS Integers, Sequences, FiniteSets

Lowest(S) == CHOOSE n \in S : \A m \in S : n <= m
Highest(S) == CHOOSE n \in S : \A m \in S : m <= n

\* The members of a finite set of numbers, in ascending order: each stands behind
\* as many as there are below it.
Below(S, n) == {m \in S : m < n}
Ascending(S) ==
    [n \in 1..Cardinality(S) |-> CHOOSE m \in S : Cardinality(Below(S, m)) = n - 1]

\* What a comprehension over s keeps: its members at some of its positions.
Select(s, positions) == [n \in 1..Cardinality(positions) |-> s[Ascending(positions)[n]]]

=============================================================================
