------------------------------ MODULE ConfigFile ------------------------------
(***************************************************************************)
(* The contents of ~/.opencodereview/config.json and what the programs     *)
(* that edit it do to them in memory: `ocr config set`                     *)
(* (cmd/opencodereview/config_cmd.go), the results of the two dialogs      *)
(* (provider_cmd.go), `ocr config set ensemble.*` (internal/configstore)   *)
(* and the form of the web page (internal/webui/server.go).                *)
(*                                                                         *)
(* A key, and a URL, is the name of the provider it belongs to; lists of   *)
(* models are sets; "" is unset, as in the code.                           *)
(***************************************************************************)
EXTENDS Naturals, Sequences, FiniteSets, TLC

CONSTANTS
  Presets,       \* built-in providers, each with an environment variable for its key
  CustomNames,   \* names of other providers
  PresetModels,  \* the models each preset lists
  NewModel,      \* a model name that a user types
  ScannerNames   \* names of scanners in the ensemble block

ASSUME PresetsAssumption == Presets # {}

Names == Presets \cup CustomNames
Models == {NewModel} \cup UNION {PresetModels[p] : p \in Presets}

(* The provider half of the file: the struct Config. *)
NoEntry  == [key |-> "", url |-> "", protocol |-> "", model |-> "", models |-> {}]
NoLlm    == [url |-> "", token |-> "", model |-> ""]
NoConfig == [provider |-> "", model |-> "", providers |-> <<>>, custom |-> <<>>, llm |-> NoLlm]

Entries  == [key : {""} \cup Names, url : {""} \cup Names, protocol : {"", "openai"},
             model : {""} \cup Models, models : SUBSET Models]
Llms     == [url : {"", "manual"}, token : {"", "manual"}, model : {""} \cup Models]

SectionOK(section) == DOMAIN section \subseteq Names /\ section \in [DOMAIN section -> Entries]
ConfigOK(cfg) ==
  /\ cfg \in [provider : {""} \cup Names, model : {""} \cup Models,
              providers : {cfg.providers}, custom : {cfg.custom}, llm : Llms]
  /\ SectionOK(cfg.providers) /\ SectionOK(cfg.custom)

Section(name) == IF name \in Presets THEN "providers" ELSE "custom"
EntryOf(cfg, section, name) ==
  IF name \in DOMAIN cfg[section] THEN cfg[section][name] ELSE NoEntry
WithEntry(cfg, section, name, entry) ==
  [cfg EXCEPT ![section] = [n \in DOMAIN cfg[section] \cup {name} |->
                              IF n = name THEN entry ELSE cfg[section][n]]]

(* ocr config set: another provider forgets the global model; a model goes to
   the provider in use, and is global when there is none. *)
SetProvider(cfg, name) ==
  LET named == [cfg EXCEPT !.provider = name,
                           !.model = IF cfg.provider = name THEN @ ELSE ""]
  IN  WithEntry(named, Section(name), name, EntryOf(named, Section(name), name))

SetModel(cfg, model) ==
  IF cfg.provider = "" THEN [cfg EXCEPT !.model = model]
  ELSE LET s == Section(cfg.provider)
       IN  WithEntry(cfg, s, cfg.provider, [EntryOf(cfg, s, cfg.provider) EXCEPT !.model = model])

(* providers.<name>.<field> of a name that is no preset goes to the other
   section; custom_providers.<name>.<field> stays there for every name. *)
SetField(cfg, section, name, field, value) ==
  LET s == IF section = "providers" THEN Section(name) ELSE section
  IN  WithEntry(cfg, s, name, [EntryOf(cfg, s, name) EXCEPT ![field] = value])

SetLlm(cfg, field, value) == [cfg EXCEPT !.llm[field] = value]

SetConfigValues(cfg) ==
       {SetProvider(cfg, n) : n \in Names}
  \cup {SetModel(cfg, m) : m \in {NewModel}}
  \cup {SetField(cfg, s, n, "key", n) : s \in {"providers", "custom"}, n \in Names}
  \cup {SetLlm(cfg, "model", NewModel)}

-------------------------------------------------------------------------------
(* What the dialogs change. A result is a record with the section it is about
   ("manual" for the llm block). Only what the result holds is overwritten. *)
Refused(cfg, r, envKeys) ==
  \/ r.model = ""
  \/ r.section # "manual" /\ r.provider = ""
  \/ r.section = "manual" /\ r.url = ""
  \/ r.section = "providers" /\ r.key = "" /\ r.provider \notin envKeys

ApplyManualKeepsProvider(cfg, r) ==  \* mutant: the provider in use is not reset
  [cfg EXCEPT !.llm = [url |-> r.url, token |-> r.key, model |-> r.model]]
ApplyManual(cfg, r) ==
  [cfg EXCEPT !.provider = "", !.model = "",
              !.llm = [url |-> r.url, token |-> r.key, model |-> r.model]]

Kept(new, old) == IF new = "" THEN old ELSE new

ApplyProvider(cfg, r) ==
  LET old   == EntryOf(cfg, r.section, r.provider)
      entry == [key      |-> Kept(r.key, old.key),
                url      |-> Kept(r.url, old.url),
                protocol |-> Kept(r.protocol, old.protocol),
                model    |-> r.model,
                models   |-> IF r.models = {} THEN old.models
                             ELSE (r.models \cup (IF r.section = "custom" THEN {r.model}
                                                                          ELSE old.models)) \ {""}]
      named == WithEntry(cfg, r.section, r.provider, entry)
  IN  [named EXCEPT !.provider = r.provider,
                    !.model = IF cfg.provider = r.provider THEN @ ELSE ""]

(* ocr config model: only the entry of the provider in use; a model that the
   provider does not list is added to the entry's own list. *)
ModelsOf(cfg, section, name) ==
  EntryOf(cfg, section, name).models
    \cup (IF section = "providers" THEN PresetModels[name] ELSE {})

ApplyModel(cfg, model) ==
  LET s   == Section(cfg.provider)
      old == EntryOf(cfg, s, cfg.provider)
  IN  WithEntry(cfg, s, cfg.provider,
        [old EXCEPT !.model = model,
                    !.models = IF model \in ModelsOf(cfg, s, cfg.provider) THEN @
                               ELSE @ \cup {model}])

-------------------------------------------------------------------------------
(* The ensemble block. Of a scanner: whether it is enabled ("" is yes), the
   settings the form does not show and carries over (hidden: temperature,
   max_tokens, prompt_tag), and those it does not carry over (lost: exhaustive,
   timeout). Of dedup: a threshold, and the two guards that are on by default. *)
NoDedup    == [there |-> FALSE, threshold |-> FALSE, guards |-> FALSE]
NoArbiter  == [there |-> FALSE, hidden |-> FALSE]
NoEnsemble == [there |-> FALSE, scanners |-> <<>>, arbiter |-> NoArbiter, dedup |-> NoDedup]

Scanner(name, enabled, hidden, lost) ==
  [name |-> name, enabled |-> enabled, hidden |-> hidden, lost |-> lost]
Scanners == [name : ScannerNames, enabled : {"", "no"}, hidden : BOOLEAN, lost : BOOLEAN]
Blocks   == [there : BOOLEAN, scanners : Seq(Scanners),
             arbiter : [there : BOOLEAN, hidden : BOOLEAN],
             dedup : [there : BOOLEAN, threshold : BOOLEAN, guards : BOOLEAN]]
EnabledScanners(e) == {i \in DOMAIN e.scanners : e.scanners[i].enabled # "no"}

(* configstore.Set: setting a threshold of a block that is not there switches
   the guards on. *)
Ensured(dedup) == IF dedup.there THEN dedup ELSE [NoDedup EXCEPT !.there = TRUE, !.guards = TRUE]
WithPart(e, part, value) == [e EXCEPT !.there = TRUE, ![part] = value]
SetEnsembleValues(e) ==
       {WithPart(e, "scanners", <<s>>) :
          s \in [name : ScannerNames, enabled : {"", "no"}, hidden : {TRUE}, lost : {TRUE}]}
  \cup {WithPart(e, "arbiter", [there |-> TRUE, hidden |-> TRUE])}
  \cup {WithPart(e, "dedup", [Ensured(e.dedup) EXCEPT !.threshold = TRUE]),
        WithPart(e, "dedup", [Ensured(e.dedup) EXCEPT !.guards = FALSE])}

(* The form: names of scanners in any order, an arbiter or none, a threshold or
   none; everything it does not show is unset. *)
Forms == [names : UNION {[1..n -> ScannerNames] : n \in 0..2},
          arbiter : BOOLEAN, threshold : BOOLEAN]

BuildExtFromForm(form) ==
  [there    |-> TRUE,
   scanners |-> [i \in DOMAIN form.names |-> Scanner(form.names[i], "", FALSE, FALSE)],
   arbiter  |-> [NoArbiter EXCEPT !.there = form.arbiter],
   dedup    |-> [NoDedup EXCEPT !.there = form.threshold, !.threshold = form.threshold]]

(* The last scanner of that name in the file, if there is one. *)
PriorByPosition(prior, i, name) == {j \in DOMAIN prior.scanners : i = j}  \* mutant
PriorByName(prior, i, name) ==
  {j \in DOMAIN prior.scanners :
     /\ prior.scanners[j].name = name
     /\ \A k \in DOMAIN prior.scanners : prior.scanners[k].name = name => k <= j}

MergeHiddenFields(ext, prior) ==
  IF ~prior.there THEN ext
  ELSE [ext EXCEPT
    !.scanners = [i \in DOMAIN ext.scanners |->
      LET old == PriorByName(prior, i, ext.scanners[i].name)
      IN  IF old = {} THEN ext.scanners[i]
          ELSE LET o == prior.scanners[CHOOSE j \in old : TRUE]
               IN  [ext.scanners[i] EXCEPT !.enabled = o.enabled, !.hidden = o.hidden]],
    !.arbiter.hidden = ext.arbiter.there /\ prior.arbiter.there /\ prior.arbiter.hidden,
    !.dedup.guards = ext.dedup.there /\ (prior.dedup.there => prior.dedup.guards)]

(* configstore.Validate, for the parts above. *)
Valid(e) ==
  /\ EnabledScanners(e) # {} => e.arbiter.there
  /\ \A i, j \in EnabledScanners(e) : e.scanners[i].name = e.scanners[j].name => i = j
===============================================================================
