------------------------------ MODULE Positions ------------------------------
(* The numbers of a finite set in ascending order: what a loop that keeps some
   positions of a list, or an insertion sort, leaves behind. *)
EXTENDS Naturals, Sequences, FiniteSets

(* The j-th smallest number of S. *)
Nth(S, j) == CHOOSE i \in S : Cardinality({k \in S : k <= i}) = j

Ascending(S) == [j \in 1..Cardinality(S) |-> Nth(S, j)]

(* The entries of s that are in K, in the order of s. *)
Among(s, K) ==
  LET upTo[n \in 0..Len(s)] ==
        IF n = 0 THEN <<>>
        ELSE IF s[n] \in K THEN Append(upTo[n - 1], s[n]) ELSE upTo[n - 1]
  IN  upTo[Len(s)]

(* The positions of f that hold a value no earlier one holds. *)
Firsts(f) == {k \in DOMAIN f : \A l \in DOMAIN f : f[l] = f[k] => k <= l}
===============================================================================
