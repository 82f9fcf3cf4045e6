------------------------------ MODULE Selection ------------------------------
(***************************************************************************)
(* Filtering a sequence by position: what the array filters of the code    *)
(* do, as an operator without recursion, which proofs can expand.          *)
(***************************************************************************)
EXTENDS Integers, FiniteSets, Sequences

\* The elements of s at the positions I, in order.
SelectAt(s, I) ==
  LET Nth(k) == CHOOSE i \in I : Cardinality({j \in I : j <= i}) = k
  IN [k \in 1..Cardinality(I) |-> s[Nth(k)]]

=============================================================================
