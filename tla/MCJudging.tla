------------------------------ MODULE MCJudging ------------------------------
(* Judging on a pool of findings chosen so that every clause of ShouldMerge
   decides some pair, and merging is not transitive. *)
EXTENDS Judging

Finding(p, s, e, t, c, sc) ==
  [path |-> p, start |-> s, end |-> e, title |-> t, code |-> c, scanner |-> sc]

(* Similar titles: "leak" and "lost". Ranges 1-5 and 2-5 overlap by 4/5, 1-5 and
   1-3 by 3/5, 2-5 and 1-3 by 2/5. *)
MCPool == {
  Finding(1, 1, 5, "leak", NoCode, "s"),
  Finding(1, 2, 5, "race", NoCode, "t"),
  Finding(1, 1, 3, "lost", "x", "t"),
  Finding(1, 0, 0, "race", "x", "s"),
  Finding(2, 1, 3, "race", NoCode, "s") }

MCSimilarTitles == {{"leak", "lost"}}

MCGiven == {"accepted_bug", "rejected_fp", "uncertain"}
MCFilters == {{"accepted_bug"}, {"accepted_bug", "rejected_fp"}, AllVerdicts}
===============================================================================
