------------------------------- MODULE Judging -------------------------------
(***************************************************************************)
(* Dedup and the arbiter composed as runAndorraReview calls them: the raw  *)
(* findings are grouped, the groups judged, the verdicts filtered. The     *)
(* arbiter starts on the finished groups and never changes them.           *)
(***************************************************************************)
EXTENDS Dedup, Arbiter

vars == <<dedupVars, judgeVars, reportVars>>

Init == DedupInit /\ ArbiterInit

GroupStep == DedupNext /\ UNCHANGED <<judgeVars, reportVars>>

JudgeStart == Grouped /\ Start /\ UNCHANGED dedupVars

JudgeStep == ArbiterNext /\ UNCHANGED dedupVars

Next == GroupStep \/ JudgeStart \/ JudgeStep

Spec == Init /\ [][Next]_vars
-------------------------------------------------------------------------------
Verdicts == [id : DOMAIN groups, verdict : AllVerdicts,
             reason : {"given", "arbiter unavailable", "arbiter omitted verdict"}]

TypeOK ==
  /\ raw \in Seq(Pool) /\ Len(raw) <= MaxRaw
  /\ config \in [samePath : BOOLEAN, exactBoost : BOOLEAN]
  /\ keys \subseteq {BucketOf(raw[k]) : k \in DOMAIN raw}
  /\ idxs \in Seq(DOMAIN raw)
  /\ parent \in Seq(DOMAIN parent)
  /\ i \in Nat /\ j \in Nat
  /\ \A g \in DOMAIN groups : groups[g].id = g /\ groups[g].members \in Seq(DOMAIN raw)
  /\ mode \in {"per_file", "per_group"}
  /\ stage \in {"idle", "tool", "json", "judged", "warned", "reported"}
  /\ \A b \in DOMAIN batches : batches[b] \in Seq(ToSet(groups))
  /\ finals \in Seq(Verdicts)
  /\ usage \in BOOLEAN /\ failed \in BOOLEAN
  /\ answered \subseteq (DOMAIN groups) \X AllVerdicts
  /\ warnings \subseteq {"arbiter_failed", "arbiter_partial"}
  /\ arbiterStatus \in {"pending", "ok", "partial", "failed"}
  /\ allowed \subseteq AllVerdicts
  /\ shown \subseteq DOMAIN groups

(* Every raw finding is in exactly one judged group when the report is made, and
   the verdict it got there is the arbiter's on that group, or uncertain:
   neither the grouping nor the batching by path or by group loses or repeats
   one (Group, group.go:61-96; Decide, arbiter.go:69-104). *)
EveryFindingJudgedOnce ==
  /\ VerdictsFromArbiter
  /\ stage = "reported" =>
       \A k \in DOMAIN raw :
         Cardinality({f \in DOMAIN finals : k \in ToSet(groups[finals[f].id].members)}) = 1
===============================================================================
