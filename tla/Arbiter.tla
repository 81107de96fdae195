------------------------------- MODULE Arbiter -------------------------------
(***************************************************************************)
(* internal/arbiter/arbiter.go and what the ensemble command does with its *)
(* answer (cmd/opencodereview/andorra_review.go and _render.go): one LLM   *)
(* batch per file or per group, each tried with tools and then as plain    *)
(* JSON; a verdict for every group; the warnings about missing verdicts;   *)
(* the verdict filter.                                                     *)
(*                                                                         *)
(* An answer is abstracted to the verdicts that parse and to whether it    *)
(* reported token usage. The model names groups by id and may name a group *)
(* of another batch or one that does not exist.                            *)
(***************************************************************************)
EXTENDS Naturals, Sequences, SequencesExt, Positions, Findings

CONSTANTS
  Given,    \* bound: verdicts the arbiter model gives
  Filters   \* bound: verdict filters the user may choose

AllVerdicts == {"accepted_bug", "rejected_fp", "uncertain", "style_only"}

ASSUME ArbiterAssumption ==
  /\ Given \subseteq AllVerdicts
  /\ Filters \subseteq (SUBSET AllVerdicts) \ {{}}

UnknownGroup == 0  \* group ids start at 1 here

VARIABLES
  mode,     \* Config.Mode
  stage,    \* "idle", "tool", "json", "judged", "warned", "reported"
  batches,  \* the calls still to make: sequences of groups
  finals,   \* FinalFindings: id, verdict, reason
  usage,    \* the summed token usage is not zero
  failed,   \* Decide's error is not nil
  warnings, \* types of the warnings injected
  arbiterStatus, \* what the progress file is told
  allowed,  \* the verdict filter
  shown,    \* ids of the groups rendered
  answered  \* history: <<id, verdict>> of the answers that were used

judgeVars   == <<mode, stage, batches, finals, usage, failed, answered>>
reportVars  == <<warnings, arbiterStatus, allowed, shown>>
arbiterVars == <<groups, judgeVars, reportVars>>

ArbiterInit ==
  /\ mode \in {"per_file", "per_group"}
  /\ stage = "idle"
  /\ batches = <<>>
  /\ finals = <<>>
  /\ usage = FALSE
  /\ failed = FALSE
  /\ answered = {}
  /\ warnings = {}
  /\ arbiterStatus = "pending"
  /\ allowed = {}
  /\ shown = {}
-------------------------------------------------------------------------------
(* per_file: one batch per path, by path; per_group: one per group. *)
Paths == Ascending({groups[g].path : g \in DOMAIN groups})

OneGroupPerPath ==  \* mutant: the map keeps the last group of a path
  LET of(b) == Ascending({g \in DOMAIN groups : groups[g].path = Paths[b]})
  IN  [b \in DOMAIN Paths |-> <<groups[of(b)[Len(of(b))]]>>]
Batches ==
  IF mode = "per_group" THEN [g \in DOMAIN groups |-> <<groups[g]>>]
  ELSE LET of(b) == Ascending({g \in DOMAIN groups : groups[g].path = Paths[b]})
       IN  [b \in DOMAIN Paths |-> [k \in DOMAIN of(b) |-> groups[of(b)[k]]]]

Ids(gs) == {gs[g].id : g \in DOMAIN gs}

(* The verdicts of one answer: none when the call failed or nothing in it was
   usable; otherwise some of the batch, and at most one for another id. *)
VerdictMaps ==
  LET batch == Ids(Head(batches))
      named == {ids \in SUBSET (Ids(groups) \cup {UnknownGroup}) :
                 Cardinality(ids \ batch) <= 1}
  IN  UNION {[ids -> Given] : ids \in named}

(* A verdict for a group the map does not name falls back to uncertain. *)
FallbackReason(verdicts) ==
  IF DOMAIN verdicts = {} THEN "arbiter unavailable" ELSE "arbiter omitted verdict"

JudgedByAny(g, verdicts) ==  \* mutant: any verdict of the answer will do
  IF DOMAIN verdicts # {}
  THEN [id |-> g.id, verdict |-> verdicts[CHOOSE id \in DOMAIN verdicts : TRUE],
        reason |-> "given"]
  ELSE [id |-> g.id, verdict |-> "uncertain", reason |-> FallbackReason(verdicts)]
Judged(g, verdicts) ==
  IF g.id \in DOMAIN verdicts
  THEN [id |-> g.id, verdict |-> verdicts[g.id], reason |-> "given"]
  ELSE [id |-> g.id, verdict |-> "uncertain", reason |-> FallbackReason(verdicts)]

ApplyVerdicts(verdicts) ==
  LET batch == Head(batches)
  IN  /\ finals' = finals \o [g \in DOMAIN batch |-> Judged(batch[g], verdicts)]
      /\ answered' = answered \cup {<<id, verdicts[id]>> :
                                     id \in DOMAIN verdicts \cap Ids(batch)}
      /\ batches' = Tail(batches)
      /\ stage' = IF Tail(batches) = <<>> THEN "judged" ELSE "tool"

Start ==
  /\ stage = "idle"
  /\ batches' = Batches
  /\ stage' = IF groups = <<>> THEN "judged" ELSE "tool"
  /\ UNCHANGED <<groups, mode, finals, usage, failed, answered, reportVars>>

(* A failed call, or a response without a usage block, counts no tokens. *)
CountTokens == \E tokens \in BOOLEAN : usage' = (usage \/ tokens)

AskWithTools ==
  /\ stage = "tool"
  /\ CountTokens
  /\ \E verdicts \in VerdictMaps :
       /\ IF DOMAIN verdicts = {}
          THEN stage' = "json" /\ UNCHANGED <<batches, finals, answered>>
          ELSE ApplyVerdicts(verdicts)
  /\ UNCHANGED <<groups, mode, failed, reportVars>>

AskForJson ==
  /\ stage = "json"
  /\ CountTokens
  /\ \E verdicts \in VerdictMaps :
       /\ ApplyVerdicts(verdicts)
       /\ failed' = (failed \/ DOMAIN verdicts = {})
  /\ UNCHANGED <<groups, mode, reportVars>>
-------------------------------------------------------------------------------
IsFallback(f) == f.reason \in {"arbiter unavailable", "arbiter omitted verdict"}

OutageByUsage == finals # <<>> /\ ~usage  \* mutant: no tokens, no answer
ArbiterOutage ==
  /\ finals # <<>>
  /\ \A f \in ToSet(finals) : f.verdict = "uncertain" /\ IsFallback(f)

ArbiterPartialOmission ==
  LET omitted == {f \in DOMAIN finals : IsFallback(finals[f])}
  IN  omitted # {} /\ omitted # DOMAIN finals

(* The command injects at most one warning and tells the progress file. *)
Warn ==
  /\ stage = "judged"
  /\ stage' = "warned"
  /\ \/ /\ ArbiterOutage
        /\ arbiterStatus' = "failed" /\ warnings' = {"arbiter_failed"}
     \/ /\ ~ArbiterOutage /\ ArbiterPartialOmission
        /\ arbiterStatus' = "partial" /\ warnings' = {"arbiter_partial"}
     \/ /\ ~ArbiterOutage /\ ~ArbiterPartialOmission
        /\ arbiterStatus' = "ok" /\ UNCHANGED warnings
  /\ UNCHANGED <<groups, mode, batches, finals, usage, failed, answered,
                 allowed, shown>>

Report ==
  /\ stage = "warned"
  /\ stage' = "reported"
  /\ allowed' \in Filters
  /\ shown' = {f.id : f \in {g \in ToSet(finals) : g.verdict \in allowed'}}
  /\ UNCHANGED <<groups, mode, batches, finals, usage, failed, answered,
                 warnings, arbiterStatus>>

ArbiterNext == AskWithTools \/ AskForJson \/ Warn \/ Report
-------------------------------------------------------------------------------
(* A group carries a verdict of the arbiter exactly when an answer used for its
   own batch gave it that verdict; every other group is uncertain. Verdicts
   never come from a failed attempt or from another batch's answer
   (callArbiter, arbiter.go:143-156; applyVerdicts, arbiter.go:305-333). *)
VerdictsFromArbiter ==
  \A f \in ToSet(finals) :
    IF IsFallback(f) THEN f.verdict = "uncertain" /\ ~\E v \in AllVerdicts : <<f.id, v>> \in answered
    ELSE <<f.id, f.verdict>> \in answered

(* A group that the report leaves out was judged by the arbiter, with a verdict
   the user filtered, or the report carries a warning about missing verdicts
   (arbiterOutage and arbiterPartialOmission, andorra_review_render.go:28-111). *)
NothingHiddenSilently ==
  stage = "reported" =>
    \A g \in DOMAIN groups :
      \/ groups[g].id \in shown
      \/ warnings # {}
      \/ \E v \in AllVerdicts \ allowed : <<groups[g].id, v>> \in answered
===============================================================================
