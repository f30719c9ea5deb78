------------------------------- MODULE Orders -------------------------------
(***************************************************************************)
(* Sorting, in a form that can be reasoned about: the order is a set of    *)
(* pairs, and the place of an element is the number of those before it.    *)
(***************************************************************************)
EXTENDS Naturals, FiniteSets

\* <<x, y>> \in before: x comes before y.
StrictlyOrders(before, S) ==
    /\ \A x \in S : <<x, x>> \notin before
    /\ \A x, y, z \in S : <<x, y>> \in before /\ <<y, z>> \in before => <<x, z>> \in before
    /\ \A x, y \in S : x = y \/ <<x, y>> \in before \/ <<y, x>> \in before

Before(x, S, before) == {y \in S : <<y, x>> \in before}

\* The elements of S, each once, in the order.
SortedBy(S, before) ==
    [k \in 1..Cardinality(S) |->
        CHOOSE x \in S : Cardinality(Before(x, S, before)) = k - 1]

\* What stands at the places `at` of a sequence, in its order.
AtPlaces(s, at) ==
    LET places == SortedBy(at, {p \in at \X at : p[1] < p[2]})
    IN  [k \in 1..Cardinality(at) |-> s[places[k]]]
=============================================================================
