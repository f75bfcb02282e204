------------------------------- MODULE IdOrder -------------------------------
(***************************************************************************)
(* The order of the ids of the nodes, which are strings in the code and    *)
(* break its ties, and sorting.                                            *)
(***************************************************************************)
EXTENDS Naturals, FiniteSets

CONSTANT IdBefore(_, _)

\* The ids in S are in a strict total order, as strings are.
Ordered(S) ==
    \A p, q, r \in S :
      /\ ~IdBefore(p, p)
      /\ p = q \/ IdBefore(p, q) \/ IdBefore(q, p)
      /\ IdBefore(p, q) /\ IdBefore(q, r) => IdBefore(p, r)

\* A set in the order of a strict total order.
Sorted(S, Before(_, _)) ==
    LET place == [n \in S |-> Cardinality({o \in S : Before(o, n)}) + 1]
    IN  [i \in 1 .. Cardinality(S) |-> CHOOSE n \in S : place[n] = i]
=============================================================================
