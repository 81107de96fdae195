------------------------------- MODULE Endpoint -------------------------------
(***************************************************************************)
(* Which endpoint a review asks: internal/llm/resolver.go and              *)
(* resolver_scanner.go, and the choice between the two kinds of review in  *)
(* cmd/opencodereview/andorra_review.go. Four sources are tried in order;  *)
(* the configuration file is the first. Protocols, headers, timeouts and   *)
(* suffixes of URLs and models are left out.                               *)
(*                                                                         *)
(* The environment: the presets whose key variable is set, and whether     *)
(* OCR_LLM_*, ANTHROPIC_* and a shell file name a complete endpoint.       *)
(***************************************************************************)
EXTENDS ConfigFile

Found(source, key, url, model) ==
  [status |-> "found", source |-> source, key |-> key, url |-> url, model |-> model]
NotConfigured == [status |-> "none", source |-> "", key |-> "", url |-> "", model |-> ""]
Error         == [status |-> "error", source |-> "", key |-> "", url |-> "", model |-> ""]

(* The model of a provider: the override, else the entry's, else the global one. *)
GlobalModelWins(cfg, entry) == IF cfg.model # "" THEN cfg.model ELSE entry.model  \* mutant
ConfiguredModel(cfg, entry) == IF entry.model # "" THEN entry.model ELSE cfg.model

TryProviderConfig(cfg, envKeys, override) ==
  LET name   == cfg.provider
      s      == Section(name)
      entry  == EntryOf(cfg, s, name)
      preset == name \in Presets
      key    == IF entry.key = "" /\ name \in envKeys THEN name ELSE entry.key
      listed == ModelsOf(cfg, s, name)
      model  == IF override # "" THEN override ELSE ConfiguredModel(cfg, entry)
  IN  IF \/ name \notin DOMAIN cfg[s]
         \/ key = ""
         \/ ~preset /\ (entry.url = "" \/ entry.protocol = "")
         \/ override # "" /\ listed # {} /\ override \notin listed
         \/ model = ""
      THEN Error
      ELSE Found(name, key, IF entry.url = "" THEN name ELSE entry.url, model)

TryLegacyLlmConfig(cfg, override) ==
  LET model == IF override # "" THEN override ELSE cfg.llm.model
  IN  IF "" \in {cfg.llm.url, cfg.llm.token, model} THEN NotConfigured
      ELSE Found("llm", cfg.llm.token, cfg.llm.url, model)

(* An empty or cut file is an error, a missing one is no configuration. *)
TryOCRConfig(disk, envKeys, override) ==
  CASE disk.state = "missing"        -> NotConfigured
    [] disk.state \in {"empty", "cut"} -> Error
    [] OTHER -> IF disk.cfg.provider # "" THEN TryProviderConfig(disk.cfg, envKeys, override)
                ELSE TryLegacyLlmConfig(disk.cfg, override)

(* tryOCREnv, tryCCEnv and tryShellRC: complete or not there. *)
TryEnvironment(source, there, override) ==
  IF there THEN Found(source, source, source, IF override # "" THEN override ELSE source)
  ELSE NotConfigured

Strategies(disk, env, override) ==
  <<TryOCRConfig(disk, env.keys, override),
    TryEnvironment("OCR environment", env.ocr, override),
    TryEnvironment("Claude Code environment", env.cc, override),
    TryEnvironment("Shell rc file", env.rc, override)>>

FirstDecided(s) ==
  LET decides == {i \in DOMAIN s : s[i].status # "none"}
  IN  IF decides = {} THEN Error
      ELSE s[CHOOSE i \in decides : \A j \in decides : i <= j]
ResolveEndpoint(disk, env, override) == FirstDecided(Strategies(disk, env, override))

(* One provider for a scanner or the arbiter, whatever the file says is in use. *)
ResolveProvider(disk, envKeys, name, model) ==
  IF disk.state # "whole" THEN Error
  ELSE TryProviderConfig([disk.cfg EXCEPT !.provider = name, !.model = ""], envKeys, model)

(* With enabled scanners the review is an ensemble; a provider and a global
   model make it one of a single scanner; else it is the legacy review. *)
Promoted(disk) ==
  /\ disk.state = "whole"
  /\ EnabledScanners(disk.ensemble) = {}
  /\ disk.cfg.provider # "" /\ disk.cfg.model # ""

ReviewEndpoint(disk, env) ==
  IF Promoted(disk) THEN ResolveProvider(disk, env.keys, disk.cfg.provider, disk.cfg.model)
  ELSE ResolveEndpoint(disk, env, "")
===============================================================================
