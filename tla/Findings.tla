------------------------------- MODULE Findings -------------------------------
(* The slice of grouped findings that Dedup builds and the Arbiter judges: the
   one piece of state the two modules share. *)

VARIABLE groups  \* []dedup.Finding: id, path, range, members, sources
===============================================================================
