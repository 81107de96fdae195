------------------------------ MODULE FileRules ------------------------------
(***************************************************************************)
(* Which files are reviewed and by which rule                              *)
(* (internal/config/rules/system_rules.go, internal/agent/preview.go,      *)
(* internal/config/allowlist, the path filters of internal/diff/git.go and *)
(* agent.go).                                                              *)
(*                                                                         *)
(* A glob pattern is the set of paths it matches. A rule layer is a        *)
(* rule.json: ordered entries, include and exclude patterns; a missing     *)
(* file and an empty one are the same. Layers are in priority order:       *)
(* --rule, project, global.                                                *)
(***************************************************************************)
EXTENDS Naturals, Sequences, FiniteSetsExt

CONSTANTS
  Files,           \* paths of the repository
  UnsupportedExt,  \* with an extension supported_file_types.json does not list
  DefaultExcluded, \* matched by default_exclude_patterns.json
  SystemRules,     \* the embedded entries, ending with the default rule for all paths
  MaxDiffLines     \* largest diff that is reviewed: 80% of max_tokens, in lines

ASSUME RulesAssumption ==
  /\ UnsupportedExt \cup DefaultExcluded \subseteq Files
  /\ \A p \in Files : \E i \in DOMAIN SystemRules : p \in SystemRules[i].path
  /\ \A i \in DOMAIN SystemRules : SystemRules[i].rule # ""
  /\ MaxDiffLines \in Nat

Layers == [rules : Seq([path : SUBSET Files, rule : STRING]),
           include : SUBSET SUBSET Files, exclude : SUBSET SUBSET Files]

Sources == <<"custom", "project", "global">>

NoRule == [rule |-> "", source |-> "none", path |-> {}]

------------------------------------------------------------------------------
(* The rule of a path. *)

(* matchProjectRule: the first matching entry of a layer decides, also when
   its text is empty: then the layer has no rule for the path. *)
Matching(rules, path) == {i \in DOMAIN rules : path \in rules[i].path}
MatchRule(rules, path) ==
  IF Matching(rules, path) = {} THEN "" ELSE rules[Min(Matching(rules, path))].rule

Resolve(layers, path) ==
  LET some == {l \in DOMAIN layers : MatchRule(layers[l].rules, path) # ""}
  IN  IF some = {} THEN MatchRule(SystemRules, path)
      ELSE MatchRule(layers[Min(some)].rules, path)

(* matchProjectRuleDetail, of `ocr rules check`, skips entries without a text. *)
MatchRuleDetail(rules, path, source) ==
  LET some == {i \in Matching(rules, path) : rules[i].rule # ""}
  IN  IF some = {} THEN NoRule
      ELSE [rule |-> rules[Min(some)].rule, source |-> source, path |-> rules[Min(some)].path]

GlobalFirst(layers, path) ==  \* mutant: the layers are asked in the wrong order
  LET detail(l) == MatchRuleDetail(layers[l].rules, path, Sources[l])
      some      == {l \in DOMAIN layers : detail(l) # NoRule}
  IN  IF some = {} THEN MatchRuleDetail(SystemRules, path, "system") ELSE detail(Max(some))
ResolveDetail(layers, path) ==
  LET detail(l) == MatchRuleDetail(layers[l].rules, path, Sources[l])
      some      == {l \in DOMAIN layers : detail(l) # NoRule}
  IN  IF some = {} THEN MatchRuleDetail(SystemRules, path, "system") ELSE detail(Min(some))

------------------------------------------------------------------------------
(* The filters, on a diff's effective path. *)

(* buildFileFilter: the first layer with any pattern gives all of them. *)
FileFilter(layers) ==
  LET some == {l \in DOMAIN layers : layers[l].include \cup layers[l].exclude # {}}
  IN  IF some = {} THEN [include |-> {}, exclude |-> {}]
      ELSE [include |-> layers[Min(some)].include, exclude |-> layers[Min(some)].exclude]

IsUserExcluded(filter, path) == path \in UNION filter.exclude
IsUserIncluded(filter, path) == path \in UNION filter.include

(* whyExcluded: an include pattern admits a path whatever its extension and
   the default patterns say, and restricts no other path. *)
WhyExcluded(filter, path, isBinary) ==
  CASE isBinary                       -> "binary"
    [] IsUserExcluded(filter, path)   -> "user_exclude"
    [] IsUserIncluded(filter, path)   -> ""
    [] path \in UnsupportedExt        -> "unsupported_ext"
    [] path \in DefaultExcluded       -> "default_path"
    [] OTHER                          -> ""

(* The built-in ignored directories and the patterns of .gitignore. *)
IsPathExcluded(ignored, path) == path \in ignored
=============================================================================
