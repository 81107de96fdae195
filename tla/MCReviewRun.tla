----------------------------- MODULE MCReviewRun -----------------------------
(* ReviewRun with small bounds; its configurations give the constants. *)
EXTENDS ReviewRun
=============================================================================
