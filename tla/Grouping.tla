------------------------------- MODULE Grouping -------------------------------
(***************************************************************************)
(* What dedup.Group promises, free of how it is computed: the findings of  *)
(* one bucket are split along "should merge", which is symmetric but not   *)
(* transitive, into its connected components. Dedup is checked against it; *)
(* ScannerFanout counts groups with it.                                    *)
(***************************************************************************)
EXTENDS FiniteSets

(* What merges with an element of C joins it; merges is a set of ordered pairs. *)
Grown(C, merges) == C \cup {p[2] : p \in {q \in merges : q[1] \in C}}

(* The connected components of S under merges, a relation on S. *)
Components(S, merges) ==
  LET closure[C \in SUBSET S] ==
        IF Grown(C, merges) = C THEN C ELSE closure[Grown(C, merges)]
  IN  {closure[{x}] : x \in S}
===============================================================================
