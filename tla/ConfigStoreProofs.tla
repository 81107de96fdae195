-------------------------- MODULE ConfigStoreProofs --------------------------
(***************************************************************************)
(* The configuration file, its writers and the dialogs, for every set of   *)
(* presets, names, models and programs, every order of keys, loads, writes *)
(* and renames, and every number of programs and of kills.                 *)
(*                                                                         *)
(* The argument: at each step of a dialog a key that is typed or masked    *)
(* belongs to the provider the step is about (Where), so an answer's key   *)
(* does (AnswerOK); applying an answer keeps every key at home and leaves  *)
(* an entry that holds it (Settled); and what a program is about to write  *)
(* was made from one read of the file (JobOK).                             *)
(***************************************************************************)
EXTENDS ConfigStore, SequenceTheorems, TLAPS

-------------------------------------------------------------------------------
(* The inductive invariant. *)
AsksModel   == {"model", "modelInput", "key"}
FormAsked   == {"cpName", "cpProtocol", "cpBaseURL", "cpModel", "cpModels", "cpAPIKey", "cpAuthHeader"}
ManualAsked == {"manualURL", "manualModel", "manualAuthToken"}
Picks       == {"pick", "pickInput", "picked"}
OtherSteps  == {"closed", "provider", "confirmed", "cancelled"}
NoProvider  == Picks \cup {"closed", "cancelled"}

(* A dialog, field by field. *)
Steps == AsksModel \cup FormAsked \cup ManualAsked \cup Picks \cup OtherSteps
OptName  == {""} \cup Names
OptModel == {""} \cup Models
Items    == {"", "other"} \cup Models
Inputs   == [name : OptName, url : OptName, model : OptModel]
Typed(u) ==
  /\ u \in [at : Steps, tab : {"official", "custom", "manual"}, official : {""} \cup Presets,
            custom : {"", "add"} \cup Names, cursor : Items, typed : OptModel, key : OptName,
            masked : BOOLEAN, original : OptName, form : Inputs, manual : Llms, cfg : {u.cfg}]
  /\ ConfigOK(u.cfg)

(* Which provider the dialog is about at each of its steps, and that a key that
   is typed or shown is that provider's. *)
Shown(u) == IF u.tab = "custom" THEN u.custom ELSE u.official
Adds(u)  == u.tab = "custom" /\ u.custom = "add"
Where(u) ==
  /\ AtHome(u.cfg)
  /\ u.at \notin NoProvider => u.official \in Presets
  /\ u.at \in AsksModel => u.tab # "manual" /\ ~Adds(u)
  /\ u.at \in FormAsked => Adds(u)
  /\ u.at \in ManualAsked => u.tab = "manual"
  /\ u.at = "key" => {u.key, u.original} \subseteq {"", Shown(u)}
  /\ u.at \in {"cpAPIKey", "cpAuthHeader"} => u.key \in {"", u.form.name}
  /\ u.at = "confirmed" =>
       \/ u.tab = "manual"
       \/ Adds(u) /\ u.key \in {"", u.form.name}
       \/ ~Adds(u) /\ {u.key, u.original} \subseteq {"", Shown(u)}

(* A configuration that holds the answer of a dialog. *)
Settled(cfg, r) ==
  /\ r.model # ""
  /\ r.section \in {"manual", "providers", "custom", "model"}
  /\ r.section = "manual" =>
       /\ cfg.provider = "" /\ r.url # ""
       /\ cfg.llm = [url |-> r.url, token |-> r.key, model |-> r.model]
  /\ r.section # "manual" => r.provider # "" /\ cfg.provider = r.provider
  /\ r.section = "model" =>
       /\ r.provider \in DOMAIN cfg[Section(r.provider)]
       /\ cfg[Section(r.provider)][r.provider].model = r.model
       /\ r.key = ""
  /\ r.section \in {"providers", "custom"} =>
       /\ r.provider \in DOMAIN cfg[r.section]
       /\ cfg[r.section][r.provider].model = r.model
       /\ r.key # "" => cfg[r.section][r.provider].key = r.key
       /\ r.section = "providers" => r.provider \in Presets

JobShape(j) ==
  j \in [kind : {"none", "set", "provider", "model", "ensemble", "form"},
         at : {"idle", "asks", "save", "write", "merge", "rename"}, cfg : {j.cfg},
         ext : Blocks, answer : {j.answer}, mixed : BOOLEAN, lost : BOOLEAN,
         seen : Blocks, read : {j.read}]
JobOK(j) ==
  /\ JobShape(j) /\ ConfigOK(j.cfg) /\ FileOK(j.read)
  /\ AtHome(j.cfg)
  /\ j.kind = "none" => j.at = "idle"
  /\ j.at \in {"merge", "rename"} => j.ext.there
  /\ j.at \in {"merge", "rename"} /\ j.kind = "form" =>
       \E form \in Forms : j.ext = MergeHiddenFields(BuildExtFromForm(form), j.seen)
  /\ j.at = "rename" => j.cfg = j.read.cfg
  /\ j.at = "asks" /\ j.kind = "model" => j.cfg.provider # ""
  /\ j.at \in {"save", "write"} /\ j.answer # NoAnswer => Settled(j.cfg, j.answer)

IInv ==
  /\ FileOK(disk) /\ AtHome(disk.cfg)
  /\ Typed(ui) /\ Where(ui)
  /\ DOMAIN job = Programs
  /\ \A p \in Programs : JobOK(job[p])
  /\ \A p \in Programs : job[p].at = "asks" /\ ui.at \in Picks => job[p].kind = "model"
  /\ starts \in 0..MaxStarts /\ crashes \in 0..MaxCrashes

-------------------------------------------------------------------------------
(* Files and configurations that hold nothing are well formed. *)
LEMMA NothingOK ==
  /\ ConfigOK(NoConfig) /\ AtHome(NoConfig)
  /\ NoEntry \in Entries /\ NoEnsemble \in Blocks
  /\ FileOK(NoFile) /\ FileOK(Emptied) /\ AtHome(NoFile.cfg) /\ AtHome(Emptied.cfg)
<1>1. /\ DOMAIN NoConfig.providers = {} /\ NoConfig.providers \in [{} -> Entries]
      /\ DOMAIN NoConfig.custom = {} /\ NoConfig.custom \in [{} -> Entries]
  BY DEF NoConfig
<1>2. ConfigOK(NoConfig) /\ AtHome(NoConfig)
  BY <1>1 DEF NoConfig, ConfigOK, SectionOK, AtHome, Llms, NoLlm
<1>3. NoEntry \in Entries
  BY DEF NoEntry, Entries
<1>4. NoEnsemble \in Blocks
  BY DEF NoEnsemble, NoArbiter, NoDedup, Blocks
<1>5. FileOK(NoFile) /\ FileOK(Emptied) /\ NoFile.cfg = NoConfig /\ Emptied.cfg = NoConfig
  BY <1>2, <1>4 DEF NoFile, Emptied, FileOK
<1> QED
  BY <1>2, <1>3, <1>4, <1>5

LEMMA WholeOK ==
  ASSUME NEW cfg, ConfigOK(cfg), NEW ensemble \in Blocks
  PROVE  FileOK(Whole(cfg, ensemble))
BY DEF Whole, FileOK

(* What is read of a well-formed configuration. *)
LEMMA EntryOfOK ==
  ASSUME NEW cfg, ConfigOK(cfg), AtHome(cfg), NEW s \in {"providers", "custom"}, NEW n
  PROVE  EntryOf(cfg, s, n) \in Entries /\ EntryOf(cfg, s, n).key \in {"", n}
<1>1. SectionOK(cfg[s])
  <2>1. CASE s = "providers"
    BY <2>1 DEF ConfigOK
  <2>2. CASE s = "custom"
    BY <2>2 DEF ConfigOK
  <2> QED
    BY <2>1, <2>2
<1>2. CASE n \in DOMAIN cfg[s]
  BY <1>1, <1>2 DEF EntryOf, SectionOK, AtHome
<1>3. CASE n \notin DOMAIN cfg[s]
  BY <1>3, NothingOK DEF EntryOf, NoEntry
<1> QED
  BY <1>2, <1>3

(* What is changed by WithEntry, and what is not. *)
LEMMA WithEntryOK ==
  ASSUME NEW cfg, ConfigOK(cfg), AtHome(cfg), NEW s \in {"providers", "custom"},
         NEW n \in Names, NEW entry \in Entries, entry.key \in {"", n}
  PROVE  LET new == WithEntry(cfg, s, n, entry)
         IN  /\ ConfigOK(new) /\ AtHome(new)
             /\ new.provider = cfg.provider /\ new.model = cfg.model /\ new.llm = cfg.llm
             /\ n \in DOMAIN new[s] /\ new[s][n] = entry
<1> DEFINE new == WithEntry(cfg, s, n, entry)
           f   == [m \in DOMAIN cfg[s] \cup {n} |-> IF m = n THEN entry ELSE cfg[s][m]]
<1>1. SectionOK(cfg.providers) /\ SectionOK(cfg.custom) /\ SectionOK(cfg[s])
  BY DEF ConfigOK
<1>2. SectionOK(f)
  BY <1>1 DEF SectionOK
<1>3. \A m \in DOMAIN f : f[m].key \in {"", m}
  BY DEF AtHome
<1>4. n \in DOMAIN f /\ f[n] = entry
  OBVIOUS
<1>5. new = [cfg EXCEPT ![s] = f]
  BY DEF WithEntry
<1> HIDE DEF new, f
<1>6. cfg = [provider |-> cfg.provider, model |-> cfg.model, providers |-> cfg.providers,
             custom |-> cfg.custom, llm |-> cfg.llm]
  BY DEF ConfigOK
<1>7. CASE s = "providers"
  <2>1. new = [provider |-> cfg.provider, model |-> cfg.model, providers |-> f,
               custom |-> cfg.custom, llm |-> cfg.llm]
    BY <1>5, <1>6, <1>7
  <2>2. ConfigOK(new)
    BY <1>1, <1>2, <2>1 DEF ConfigOK
  <2>3. AtHome(new)
    <3>1. new["providers"] = f /\ new["custom"] = cfg["custom"]
      BY <2>1
    <3> QED
      BY <1>3, <3>1 DEF AtHome
  <2>4. new.provider = cfg.provider /\ new.model = cfg.model /\ new.llm = cfg.llm /\ new[s] = f
    BY <1>7, <2>1
  <2> QED
    BY <1>4, <2>2, <2>3, <2>4 DEF new
<1>8. CASE s = "custom"
  <2>1. new = [provider |-> cfg.provider, model |-> cfg.model, providers |-> cfg.providers,
               custom |-> f, llm |-> cfg.llm]
    BY <1>5, <1>6, <1>8
  <2>2. ConfigOK(new)
    BY <1>1, <1>2, <2>1 DEF ConfigOK
  <2>3. AtHome(new)
    <3>1. new["custom"] = f /\ new["providers"] = cfg["providers"]
      BY <2>1
    <3> QED
      BY <1>3, <3>1 DEF AtHome
  <2>4. new.provider = cfg.provider /\ new.model = cfg.model /\ new.llm = cfg.llm /\ new[s] = f
    BY <1>8, <2>1
  <2> QED
    BY <1>4, <2>2, <2>3, <2>4 DEF new
<1> QED
  BY <1>7, <1>8

-------------------------------------------------------------------------------
(* What the programs change in memory stays well formed. *)
LEMMA SetConfigOK ==
  ASSUME NEW cfg, ConfigOK(cfg), AtHome(cfg), NEW new \in SetConfigValues(cfg)
  PROVE  ConfigOK(new) /\ AtHome(new)
<1>1. ASSUME NEW n \in Names, new = SetProvider(cfg, n)
      PROVE  ConfigOK(new) /\ AtHome(new)
  <2> DEFINE named == [cfg EXCEPT !.provider = n,
                                  !.model = IF cfg.provider = n THEN @ ELSE ""]
             old   == EntryOf(named, Section(n), n)
  <2>1. ConfigOK(named) /\ AtHome(named)
    BY DEF ConfigOK, AtHome
  <2> HIDE DEF named
  <2>2. Section(n) \in {"providers", "custom"}
    BY DEF Section
  <2>3. old \in Entries /\ old.key \in {"", n}
    BY <2>1, <2>2, EntryOfOK
  <2>4. new = WithEntry(named, Section(n), n, old)
    BY <1>1 DEF SetProvider, named
  <2> HIDE DEF old
  <2> QED
    BY <2>1, <2>2, <2>3, <2>4, WithEntryOK
<1>2. ASSUME NEW n \in Names, NEW s \in {"providers", "custom"}, new = SetField(cfg, s, n, "key", n)
      PROVE  ConfigOK(new) /\ AtHome(new)
  <2> DEFINE t     == IF s = "providers" THEN Section(n) ELSE s
             entry == [EntryOf(cfg, t, n) EXCEPT !.key = n]
  <2>1. t \in {"providers", "custom"}
    BY DEF Section
  <2>2. EntryOf(cfg, t, n) \in Entries
    BY <2>1, EntryOfOK
  <2>3. entry \in Entries /\ entry.key \in {"", n}
    BY <2>2 DEF Entries
  <2>4. new = WithEntry(cfg, t, n, entry)
    BY <1>2 DEF SetField
  <2> HIDE DEF t, entry
  <2> QED
    BY <2>1, <2>3, <2>4, WithEntryOK
<1>3. ASSUME new = SetModel(cfg, NewModel)
      PROVE  ConfigOK(new) /\ AtHome(new)
  <2>1. CASE cfg.provider = ""
    BY <1>3, <2>1 DEF SetModel, ConfigOK, AtHome, Models
  <2>2. CASE cfg.provider # ""
    <3> DEFINE s     == Section(cfg.provider)
               entry == [EntryOf(cfg, s, cfg.provider) EXCEPT !.model = NewModel]
    <3>1. s \in {"providers", "custom"} /\ cfg.provider \in Names
      BY <2>2 DEF Section, ConfigOK
    <3>2. EntryOf(cfg, s, cfg.provider) \in Entries /\ EntryOf(cfg, s, cfg.provider).key \in {"", cfg.provider}
      BY <3>1, EntryOfOK
    <3>3. entry \in Entries /\ entry.key \in {"", cfg.provider}
      BY <3>2 DEF Entries, Models
    <3>4. new = WithEntry(cfg, s, cfg.provider, entry)
      BY <1>3, <2>2 DEF SetModel
    <3> HIDE DEF s, entry
    <3> QED
      BY <3>1, <3>3, <3>4, WithEntryOK
  <2> QED
    BY <2>1, <2>2
<1>4. ASSUME new = SetLlm(cfg, "model", NewModel)
      PROVE  ConfigOK(new) /\ AtHome(new)
  BY <1>4 DEF SetLlm, ConfigOK, AtHome, Models, Llms
<1> QED
  BY <1>1, <1>2, <1>3, <1>4 DEF SetConfigValues

(* An answer of the provider dialog: the key is that of the provider. *)
AnswerOK(r) ==
  /\ r.section \in {"manual", "providers", "custom"}
  /\ r.model \in {""} \cup Models
  /\ r.section = "manual" => r.url \in {"", "manual"} /\ r.key \in {"", "manual"}
  /\ r.section # "manual" =>
       /\ r.provider \in {""} \cup Names /\ r.key \in {"", r.provider}
       /\ r.url \in {""} \cup Names /\ r.protocol \in {"", "openai"}
       /\ r.models \subseteq {""} \cup Models
  /\ r.section = "providers" => r.provider \in {""} \cup Presets

LEMMA ApplyManualOK ==
  ASSUME NEW cfg, ConfigOK(cfg), AtHome(cfg), NEW r, AnswerOK(r), r.section = "manual",
         ~Refused(cfg, r, EnvKeys)
  PROVE  LET new == ApplyManual(cfg, r)
         IN  ConfigOK(new) /\ AtHome(new) /\ Settled(new, r)
<1> DEFINE new == ApplyManual(cfg, r)
           llm == [url |-> r.url, token |-> r.key, model |-> r.model]
<1>1. new = [provider |-> "", model |-> "", providers |-> cfg.providers, custom |-> cfg.custom,
             llm |-> llm]
  <2>1. cfg = [provider |-> cfg.provider, model |-> cfg.model, providers |-> cfg.providers,
               custom |-> cfg.custom, llm |-> cfg.llm]
    BY DEF ConfigOK
  <2>2. new = [cfg EXCEPT !.provider = "", !.model = "", !.llm = llm]
    BY DEF ApplyManual
  <2> HIDE DEF new, llm
  <2> QED
    BY <2>1, <2>2
<1> HIDE DEF new
<1>2. new.llm \in Llms
  BY <1>1 DEF AnswerOK, Llms
<1>3. ConfigOK(new)
  BY <1>1, <1>2 DEF ConfigOK
<1>4. AtHome(new)
  <2>1. new["providers"] = cfg["providers"] /\ new["custom"] = cfg["custom"]
    BY <1>1
  <2> QED
    BY <2>1 DEF AtHome
<1>5. Settled(new, r)
  BY <1>1 DEF Settled, Refused
<1> QED
  BY <1>3, <1>4, <1>5 DEF new

LEMMA ApplyProviderOK ==
  ASSUME NEW cfg, ConfigOK(cfg), AtHome(cfg), NEW r, AnswerOK(r), r.section # "manual",
         ~Refused(cfg, r, EnvKeys)
  PROVE  LET new == ApplyProvider(cfg, r)
         IN  ConfigOK(new) /\ AtHome(new) /\ Settled(new, r)
<1> DEFINE new    == ApplyProvider(cfg, r)
           old    == EntryOf(cfg, r.section, r.provider)
           models == IF r.models = {} THEN old.models
                     ELSE (r.models \cup (IF r.section = "custom" THEN {r.model}
                                          ELSE old.models)) \ {""}
           entry  == [key |-> Kept(r.key, old.key), url |-> Kept(r.url, old.url),
                      protocol |-> Kept(r.protocol, old.protocol), model |-> r.model,
                      models |-> models]
           named  == WithEntry(cfg, r.section, r.provider, entry)
<1>1. r.section \in {"providers", "custom"} /\ r.provider \in Names /\ r.provider # "" /\ r.model # ""
  BY DEF AnswerOK, Refused
<1>2. old \in Entries /\ old.key \in {"", r.provider}
  BY <1>1, EntryOfOK
<1>3. new = [named EXCEPT !.provider = r.provider,
                          !.model = IF cfg.provider = r.provider THEN @ ELSE ""]
  BY DEF ApplyProvider
<1> HIDE DEF old, new, named
<1>4. models \subseteq Models
  BY <1>2 DEF AnswerOK, Entries
<1> HIDE DEF models
<1>5. entry \in Entries /\ entry.key \in {"", r.provider}
  BY <1>1, <1>2, <1>4 DEF AnswerOK, Entries, Kept
<1>6. entry.model = r.model /\ (r.key # "" => entry.key = r.key)
  BY DEF Kept
<1> HIDE DEF entry
<1>7. /\ ConfigOK(named) /\ AtHome(named) /\ named.provider = cfg.provider
      /\ r.provider \in DOMAIN named[r.section] /\ named[r.section][r.provider] = entry
  <2> DEFINE s == r.section
             n == r.provider
  <2>1. named = WithEntry(cfg, s, n, entry) /\ s \in {"providers", "custom"} /\ n \in Names
    BY <1>1 DEF named
  <2>2. entry \in Entries /\ entry.key \in {"", n}
    BY <1>5
  <2>3. ConfigOK(cfg) /\ AtHome(cfg)
    OBVIOUS
  <2> HIDE DEF s, n
  <2>4. /\ ConfigOK(named) /\ AtHome(named) /\ named.provider = cfg.provider
        /\ n \in DOMAIN named[s] /\ named[s][n] = entry
    BY <2>1, <2>2, <2>3, WithEntryOK, ZenonT(40)
  <2> QED
    BY <2>4 DEF s, n
<1>8. new = [provider |-> r.provider, model |-> IF cfg.provider = r.provider THEN named.model ELSE "",
             providers |-> named.providers, custom |-> named.custom, llm |-> named.llm]
  BY <1>3, <1>7 DEF ConfigOK
<1>9. ConfigOK(new)
  BY <1>1, <1>7, <1>8 DEF ConfigOK
<1>10. new["providers"] = named["providers"] /\ new["custom"] = named["custom"]
  BY <1>8
<1>11. AtHome(new)
  BY <1>7, <1>10 DEF AtHome
<1>12. Settled(new, r)
  <2>1. new[r.section] = named[r.section]
    BY <1>1, <1>10
  <2>2. r.provider \in DOMAIN new[r.section] /\ new[r.section][r.provider] = entry
    BY <1>7, <2>1
  <2>3. r.section = "providers" => r.provider \in Presets
    BY <1>1 DEF AnswerOK
  <2>4. new.provider = r.provider
    BY <1>8
  <2> QED
    BY <1>1, <1>6, <2>2, <2>3, <2>4 DEF Settled
<1> QED
  BY <1>9, <1>11, <1>12 DEF new

LEMMA ApplyModelOK ==
  ASSUME NEW cfg, ConfigOK(cfg), AtHome(cfg), cfg.provider # "", NEW model \in Models, model # ""
  PROVE  LET new == ApplyModel(cfg, model)
         IN  /\ ConfigOK(new) /\ AtHome(new)
             /\ Settled(new, [section |-> "model", provider |-> cfg.provider,
                              model |-> model, key |-> ""])
<1> DEFINE new   == ApplyModel(cfg, model)
           s     == Section(cfg.provider)
           old   == EntryOf(cfg, s, cfg.provider)
           entry == [old EXCEPT !.model = model,
                                !.models = IF model \in ModelsOf(cfg, s, cfg.provider) THEN @
                                           ELSE @ \cup {model}]
<1>1. s \in {"providers", "custom"} /\ cfg.provider \in Names
  BY DEF Section, ConfigOK
<1>2. old \in Entries /\ old.key \in {"", cfg.provider}
  BY <1>1, EntryOfOK
<1>3. entry \in Entries /\ entry.key \in {"", cfg.provider} /\ entry.model = model
  BY <1>2 DEF Entries
<1>4. new = WithEntry(cfg, s, cfg.provider, entry)
  BY DEF ApplyModel
<1> HIDE DEF new, entry, old
<1>5. /\ ConfigOK(new) /\ AtHome(new) /\ new.provider = cfg.provider
      /\ cfg.provider \in DOMAIN new[s] /\ new[s][cfg.provider] = entry
  BY <1>1, <1>3, <1>4, WithEntryOK
<1>6. Settled(new, [section |-> "model", provider |-> cfg.provider, model |-> model, key |-> ""])
  BY <1>3, <1>5 DEF Settled
<1> QED
  BY <1>5, <1>6 DEF new

LEMMA OneScanner ==
  ASSUME NEW x \in Scanners
  PROVE  <<x>> \in Seq(Scanners)
OBVIOUS

LEMMA SetEnsembleOK ==
  ASSUME NEW e \in Blocks, NEW new \in SetEnsembleValues(e)
  PROVE  new \in Blocks /\ new.there
<1>1. ASSUME NEW s \in [name : ScannerNames, enabled : {"", "no"}, hidden : {TRUE}, lost : {TRUE}],
             new = WithPart(e, "scanners", <<s>>)
      PROVE  new \in Blocks /\ new.there
  <2> DEFINE seq == <<s>>
  <2>1. s \in Scanners
    BY DEF Scanners
  <2>2. seq \in Seq(Scanners)
    BY <2>1, OneScanner
  <2> HIDE DEF seq
  <2>3. new = [e EXCEPT !.there = TRUE, !.scanners = seq]
    BY <1>1 DEF WithPart, seq
  <2> QED
    BY <2>2, <2>3 DEF Blocks
<1>2. ASSUME new = WithPart(e, "arbiter", [there |-> TRUE, hidden |-> TRUE])
      PROVE  new \in Blocks /\ new.there
  BY <1>2 DEF WithPart, Blocks
<1>3. ASSUME NEW d \in {[Ensured(e.dedup) EXCEPT !.threshold = TRUE],
                        [Ensured(e.dedup) EXCEPT !.guards = FALSE]},
             new = WithPart(e, "dedup", d)
      PROVE  new \in Blocks /\ new.there
  <2>1. Ensured(e.dedup) \in [there : BOOLEAN, threshold : BOOLEAN, guards : BOOLEAN]
    BY DEF Ensured, NoDedup, Blocks
  <2>2. d \in [there : BOOLEAN, threshold : BOOLEAN, guards : BOOLEAN]
    BY <2>1
  <2> QED
    BY <1>3, <2>2 DEF WithPart, Blocks
<1> QED
  BY <1>1, <1>2, <1>3 DEF SetEnsembleValues

(* What the form writes is a block, and holds what the form hides. *)
LEMMA MergeOK ==
  ASSUME NEW prior \in Blocks, NEW form \in Forms
  PROVE  LET new == MergeHiddenFields(BuildExtFromForm(form), prior)
         IN  new \in Blocks /\ new.there /\ (prior.there => CarriedOver(prior, new))
<1> DEFINE ext == BuildExtFromForm(form)
           new == MergeHiddenFields(ext, prior)
           old(i) == PriorByName(prior, i, ext.scanners[i].name)
           kept(i) == IF old(i) = {} THEN ext.scanners[i]
                      ELSE LET o == prior.scanners[CHOOSE j \in old(i) : TRUE]
                           IN  [ext.scanners[i] EXCEPT !.enabled = o.enabled, !.hidden = o.hidden]
           scanners == [i \in DOMAIN ext.scanners |-> kept(i)]
<1>1. PICK n \in Nat : form.names \in [1..n -> ScannerNames]
  <2>1. form.names \in UNION {[1..n -> ScannerNames] : n \in 0..2}
    BY DEF Forms
  <2>2. \A n \in 0..2 : n \in Nat
    OBVIOUS
  <2> QED
    BY <2>1, <2>2
<1>2. ext \in Blocks /\ ext.there
  <2>1. \A i \in 1..n : Scanner(form.names[i], "", FALSE, FALSE) \in Scanners
    BY <1>1 DEF Scanner, Scanners
  <2> DEFINE named == [i \in DOMAIN form.names |-> Scanner(form.names[i], "", FALSE, FALSE)]
  <2>2. named \in [1..n -> Scanners]
    BY <1>1, <2>1
  <2>3. named \in Seq(Scanners)
    <3> HIDE DEF named
    <3> QED
      BY <2>2, SeqDef
  <2> QED
    BY <2>3 DEF BuildExtFromForm, Blocks, NoArbiter, NoDedup, Forms
<1>3. CASE ~prior.there
  BY <1>2, <1>3 DEF MergeHiddenFields
<1>4. CASE prior.there
  <2>1. \A i \in DOMAIN ext.scanners : kept(i) \in Scanners /\ kept(i).name = ext.scanners[i].name
    <3> SUFFICES ASSUME NEW i \in DOMAIN ext.scanners
                 PROVE  kept(i) \in Scanners /\ kept(i).name = ext.scanners[i].name
      OBVIOUS
    <3>1. ext.scanners[i] \in Scanners
      BY <1>2 DEF Blocks
    <3>2. CASE old(i) = {}
      BY <3>1, <3>2
    <3>3. CASE old(i) # {}
      <4>1. (CHOOSE j \in old(i) : TRUE) \in DOMAIN prior.scanners
        BY <3>3 DEF PriorByName
      <4>2. prior.scanners[CHOOSE j \in old(i) : TRUE] \in Scanners
        BY <4>1 DEF Blocks
      <4> QED
        BY <3>1, <3>3, <4>2 DEF Scanners
    <3> QED
      BY <3>2, <3>3
  <2>2. scanners \in Seq(Scanners)
    <3>1. ext.scanners \in Seq(Scanners)
      BY <1>2 DEF Blocks
    <3>2. PICK k \in Nat : DOMAIN ext.scanners = 1..k
      BY <3>1
    <3>3. scanners \in [1..k -> Scanners]
      BY <2>1, <3>2
    <3> QED
      BY <3>3, SeqDef
  <2>3. /\ new.scanners = scanners /\ new.there
        /\ new.arbiter.there = ext.arbiter.there
        /\ new.arbiter.hidden = (ext.arbiter.there /\ prior.arbiter.there /\ prior.arbiter.hidden)
        /\ new.dedup.there = ext.dedup.there
        /\ new.dedup.guards = (ext.dedup.there /\ (prior.dedup.there => prior.dedup.guards))
        /\ new \in Blocks
    <3> HIDE DEF ext
    <3>1. new = [ext EXCEPT !.scanners = scanners,
                            !.arbiter.hidden = ext.arbiter.there /\ prior.arbiter.there /\ prior.arbiter.hidden,
                            !.dedup.guards = ext.dedup.there /\ (prior.dedup.there => prior.dedup.guards)]
      BY <1>4 DEF MergeHiddenFields
    <3> HIDE DEF new, scanners
    <3> QED
      BY <1>2, <2>2, <3>1 DEF Blocks
  <2>4. ASSUME NEW i \in DOMAIN prior.scanners, NEW j \in DOMAIN scanners,
               prior.scanners[i].name = scanners[j].name,
               \A k \in DOMAIN prior.scanners \ {i} : prior.scanners[k].name # prior.scanners[i].name
        PROVE  prior.scanners[i].enabled = scanners[j].enabled /\ prior.scanners[i].hidden = scanners[j].hidden
    <3>1. old(j) = {i}
      <4>1. ext.scanners[j].name = prior.scanners[i].name
        BY <2>1, <2>4
      <4>2. i \in Nat
        BY DEF Blocks
      <4> HIDE DEF ext, scanners
      <4> QED
        BY <2>4, <4>1, <4>2 DEF PriorByName
    <3>2. ext.scanners[j] \in Scanners
      BY <1>2 DEF Blocks
    <3> HIDE DEF old, ext
    <3> QED
      BY <3>1, <3>2 DEF Scanners
  <2> HIDE DEF scanners, new
  <2>5. CarriedOver(prior, new)
    BY <2>3, <2>4 DEF CarriedOver, Blocks
  <2> QED
    BY <2>3, <2>5 DEF new, ext
<1> QED
  BY <1>3, <1>4

-------------------------------------------------------------------------------
(* The dialogs. *)
LEMMA FirstOK ==
  ASSUME NEW S, NEW last
  PROVE  First(S, last) \in S \cup {last}
BY DEF First

LEMMA SelEntryOK ==
  ASSUME Typed(ui), Where(ui)
  PROVE  /\ SelEntry \in Entries /\ SelEntry.key \in {"", Shown(ui)}
         /\ SelSection \in {"providers", "custom"} /\ Selected = Shown(ui)
<1>1. SelSection \in {"providers", "custom"} /\ Selected = Shown(ui)
  BY DEF SelSection, Selected, OnCustom, Shown
<1>2. ConfigOK(ui.cfg) /\ AtHome(ui.cfg)
  BY DEF Typed, Where
<1> QED
  BY <1>1, <1>2, EntryOfOK DEF SelEntry

(* The models a dialog lists. *)
LEMMA ModelsOfOK ==
  ASSUME NEW cfg, ConfigOK(cfg), AtHome(cfg), NEW s \in {"providers", "custom"}, NEW n,
         s = "providers" => n \in Presets
  PROVE  ModelsOf(cfg, s, n) \subseteq Models
<1>1. EntryOf(cfg, s, n).models \subseteq Models
  BY EntryOfOK DEF Entries
<1>2. s = "providers" => PresetModels[n] \subseteq Models
  BY DEF Models
<1> QED
  BY <1>1, <1>2 DEF ModelsOf

LEMMA StepsAre ==
  /\ DOMAIN FormEnter = FormAsked /\ DOMAIN FormEsc = FormAsked
  /\ DOMAIN ManualEnter = ManualAsked /\ DOMAIN ManualEsc = ManualAsked
BY DEF FormEnter, FormEsc, ManualEnter, ManualEsc, FormAsked, ManualAsked

LEMMA DialogShape == DialogOK <=> Typed(ui)
BY StepsAre DEF DialogOK, Typed, OptName, OptModel, Items, Inputs, Steps, AsksModel, FormAsked, ManualAsked, Picks, OtherSteps

(* The steps of the dialog by the fields they change. *)
Goto(u, a) == [u EXCEPT !.at = a]
ListStep(u, a, cursor, typed) == [u EXCEPT !.at = a, !.cursor = cursor, !.typed = typed]

LEMMA GotoOK ==
  ASSUME NEW u, Typed(u), NEW a \in Steps
  PROVE  LET v == Goto(u, a)
         IN  /\ Typed(v) /\ v.at = a
             /\ v.tab = u.tab /\ v.official = u.official /\ v.custom = u.custom
             /\ v.key = u.key /\ v.original = u.original /\ v.form = u.form
             /\ v.cfg = u.cfg
<1> DEFINE v == Goto(u, a)
<1>1. v = [u EXCEPT !.at = a]
  BY DEF Goto
<1> HIDE DEF v
<1>2. v = [at |-> a, tab |-> u.tab, official |-> u.official, custom |-> u.custom,
           cursor |-> u.cursor, typed |-> u.typed, key |-> u.key, masked |-> u.masked,
           original |-> u.original, form |-> u.form, manual |-> u.manual,
           cfg |-> u.cfg]
  BY <1>1 DEF Typed
<1>3. /\ v.at = a /\ v.tab = u.tab /\ v.official = u.official /\ v.custom = u.custom
      /\ v.cursor = u.cursor /\ v.typed = u.typed /\ v.key = u.key /\ v.masked = u.masked
      /\ v.original = u.original /\ v.form = u.form /\ v.manual = u.manual
      /\ v.cfg = u.cfg
  BY <1>2
<1>4. Typed(v)
  BY <1>2, <1>3 DEF Typed
<1> QED
  BY <1>3, <1>4 DEF v

LEMMA ListStepOK ==
  ASSUME NEW u, Typed(u), NEW a \in Steps,
         NEW cursor \in Items,
         NEW typed \in OptModel
  PROVE  LET v == ListStep(u, a, cursor, typed)
         IN  /\ Typed(v) /\ v.at = a /\ v.cursor = cursor /\ v.typed = typed
             /\ v.tab = u.tab /\ v.official = u.official /\ v.custom = u.custom
             /\ v.key = u.key /\ v.original = u.original /\ v.form = u.form
             /\ v.cfg = u.cfg
<1> DEFINE v == ListStep(u, a, cursor, typed)
<1>1. v = [u EXCEPT !.at = a, !.cursor = cursor, !.typed = typed]
  BY DEF ListStep
<1> HIDE DEF v
<1>2. v = [at |-> a, tab |-> u.tab, official |-> u.official, custom |-> u.custom,
           cursor |-> cursor, typed |-> typed, key |-> u.key, masked |-> u.masked,
           original |-> u.original, form |-> u.form, manual |-> u.manual,
           cfg |-> u.cfg]
  BY <1>1 DEF Typed
<1>3. /\ v.at = a /\ v.tab = u.tab /\ v.official = u.official /\ v.custom = u.custom
      /\ v.cursor = cursor /\ v.typed = typed /\ v.key = u.key /\ v.masked = u.masked
      /\ v.original = u.original /\ v.form = u.form /\ v.manual = u.manual
      /\ v.cfg = u.cfg
  BY <1>2
<1>4. Typed(v)
  BY <1>2, <1>3 DEF Typed
<1> QED
  BY <1>3, <1>4 DEF v

LEMMA AskForKeyOK ==
  ASSUME Typed(ui), Where(ui), ui.at \in AsksModel, AskForKey
  PROVE  Typed(ui') /\ Where(ui')
<1> DEFINE k == LoadExistingAPIKey
<1>1. k.key = "" /\ k.masked \in BOOLEAN /\ k.original = SelEntry.key
  BY DEF LoadExistingAPIKey
<1>2. k.original \in OptName /\ k.original \in {"", Shown(ui)}
  BY <1>1, SelEntryOK DEF Entries, OptName
<1>3. ui' = [ui EXCEPT !.at = "key", !.key = k.key, !.masked = k.masked, !.original = k.original]
  BY DEF AskForKey
<1> HIDE DEF k
<1>4. "key" \in Steps /\ k.key \in OptName
  BY <1>1 DEF Steps, AsksModel, OptName
<1>5. /\ Typed(ui') /\ ui'.at = "key" /\ ui'.key = "" /\ ui'.original = k.original
      /\ ui'.tab = ui.tab /\ ui'.official = ui.official /\ ui'.custom = ui.custom
      /\ ui'.cfg = ui.cfg
  BY <1>1, <1>2, <1>3, <1>4 DEF Typed
<1> QED
  BY <1>2, <1>5 DEF Where, Shown, Adds, AsksModel, FormAsked, ManualAsked, NoProvider, Picks


(* A step to where nothing is asked about a provider. *)
LEMMA GotoWhere ==
  ASSUME Typed(ui), Where(ui), NEW a \in Steps, ui' = Goto(ui, a),
         a \notin NoProvider => ui.official \in Presets,
         \/ a \in NoProvider \cup {"provider"}
         \/ a \in {"model", "modelInput"} /\ ui.tab # "manual" /\ ~Adds(ui)
         \/ a \in {"cpName", "cpProtocol", "cpBaseURL", "cpModel", "cpModels"} /\ Adds(ui)
         \/ a \in ManualAsked /\ ui.tab = "manual"
         \/ a = "confirmed" /\ ui.tab = "manual"
         \/ a \in {"cpAPIKey", "cpAuthHeader", "confirmed"} /\ Adds(ui) /\ ui.key \in {"", ui.form.name}
         \/ a = "confirmed" /\ ui.at = "key"
  PROVE  Typed(ui') /\ Where(ui')
<1>1. /\ Typed(ui') /\ ui'.at = a
      /\ ui'.tab = ui.tab /\ ui'.official = ui.official /\ ui'.custom = ui.custom
      /\ ui'.key = ui.key /\ ui'.original = ui.original /\ ui'.form = ui.form
      /\ ui'.cfg = ui.cfg
  BY GotoOK
<1>2. Where(ui')
  BY <1>1, ZenonT(40) DEF Where, Shown, Adds, AsksModel, FormAsked, ManualAsked, NoProvider, Picks
<1> QED
  BY <1>1, <1>2

LEMMA ListStepWhere ==
  ASSUME Typed(ui), Where(ui), NEW a \in {"model", "pick"}, NEW cursor \in Items, NEW typed \in OptModel,
         ui' = ListStep(ui, a, cursor, typed),
         a = "model" => ui.official \in Presets /\ ui.tab # "manual" /\ ~Adds(ui)
  PROVE  Typed(ui') /\ Where(ui')
<1>1. a \in Steps
  BY DEF Steps, AsksModel, Picks
<1>2. /\ Typed(ui') /\ ui'.at = a
      /\ ui'.tab = ui.tab /\ ui'.official = ui.official /\ ui'.custom = ui.custom /\ ui'.cfg = ui.cfg
  BY <1>1, ListStepOK
<1> QED
  BY <1>2 DEF Where, Shown, Adds, AsksModel, FormAsked, ManualAsked, NoProvider, Picks

LEMMA SwitchTabOK ==
  ASSUME Typed(ui), Where(ui), SwitchTab
  PROVE  Typed(ui') /\ Where(ui')
<1>1. PICK tab \in {"official", "custom", "manual"} : ui' = [ui EXCEPT !.tab = tab]
  BY DEF SwitchTab
<1>2. Typed(ui') /\ ui'.at = "provider" /\ ui'.official = ui.official /\ ui'.cfg = ui.cfg
  BY <1>1 DEF Typed, SwitchTab
<1> QED
  BY <1>2 DEF SwitchTab, Where, AsksModel, FormAsked, ManualAsked, NoProvider, Picks

LEMMA UiModelsOK ==
  ASSUME Typed(ui), Where(ui), ui.at \in AsksModel \cup {"provider", "confirmed"}
  PROVE  UiModels \subseteq Models
<1>1. SelSection = "providers" => Selected \in Presets
  BY DEF SelSection, Selected, OnCustom, Where, NoProvider, AsksModel, Picks
<1>2. ConfigOK(ui.cfg) /\ AtHome(ui.cfg)
  BY DEF Typed, Where
<1> QED
  BY <1>1, <1>2, SelEntryOK, ModelsOfOK DEF UiModels

LEMMA MoveCursorOK ==
  ASSUME Typed(ui), Where(ui), MoveCursor
  PROVE  Typed(ui') /\ Where(ui')
<1>1. ASSUME ui.at = "provider", NEW p \in Presets, ui' = [ui EXCEPT !.official = p]
      PROVE  Typed(ui') /\ Where(ui')
  <2>1. Typed(ui') /\ ui'.at = "provider" /\ ui'.official = p /\ ui'.cfg = ui.cfg
    BY <1>1 DEF Typed
  <2> QED
    BY <2>1 DEF Where, AsksModel, FormAsked, ManualAsked, NoProvider, Picks
<1>2. ASSUME ui.at = "provider", NEW c \in DOMAIN ui.cfg.custom \cup {"add"},
             ui' = [ui EXCEPT !.custom = c]
      PROVE  Typed(ui') /\ Where(ui')
  <2>1. c \in {"", "add"} \cup Names
    BY DEF Typed, ConfigOK, SectionOK
  <2>2. Typed(ui') /\ ui'.at = "provider" /\ ui'.official = ui.official /\ ui'.cfg = ui.cfg
    BY <1>2, <2>1 DEF Typed
  <2> QED
    BY <1>2, <2>2 DEF Where, AsksModel, FormAsked, ManualAsked, NoProvider, Picks
<1>3. ASSUME ui.at = "model", NEW m \in UiModels \cup {"other"}, ui' = [ui EXCEPT !.cursor = m]
      PROVE  Typed(ui') /\ Where(ui')
  <2>1. m \in Items
    BY <1>3, UiModelsOK DEF AsksModel, Items
  <2>2. /\ Typed(ui') /\ ui'.at = "model" /\ ui'.official = ui.official /\ ui'.tab = ui.tab
        /\ ui'.custom = ui.custom /\ ui'.cfg = ui.cfg
    BY <1>3, <2>1 DEF Typed
  <2> QED
    BY <1>3, <2>2 DEF Where, Adds, AsksModel, FormAsked, ManualAsked, NoProvider, Picks
<1> QED
  BY <1>1, <1>2, <1>3 DEF MoveCursor

LEMMA EnterProviderOK ==
  ASSUME Typed(ui), Where(ui), EnterProvider
  PROVE  Typed(ui') /\ Where(ui')
<1>1. ui.at = "provider" /\ ui.official \in Presets
  BY DEF EnterProvider, Where, NoProvider, Picks
<1>2. CASE ui.tab = "official" \/ (OnCustom /\ ui.custom # "add")
  <2> DEFINE sel == PrepareModelSelection(SelEntry.model)
  <2>1. sel.cursor \in Items /\ sel.typed \in OptModel
    <3>1. First(UiModels, "other") \in Models \cup {"other"}
      BY <1>1, FirstOK, UiModelsOK
    <3>2. SelEntry.model \in OptModel
      BY SelEntryOK DEF Entries, OptModel
    <3> QED
      BY <1>1, <3>1, <3>2, UiModelsOK DEF PrepareModelSelection, Items, OptModel
  <2>2. ui' = ListStep(ui, "model", sel.cursor, sel.typed)
    BY <1>1, <1>2 DEF EnterProvider, ListStep, OnCustom
  <2>3. ui.tab # "manual" /\ ~Adds(ui)
    BY <1>2 DEF OnCustom, Adds
  <2> HIDE DEF sel
  <2> QED
    BY <1>1, <2>1, <2>2, <2>3, ListStepWhere
<1>3. CASE OnCustom /\ ui.custom = "add"
  <2> DEFINE form == Closed.form
  <2>1. ui' = [ui EXCEPT !.at = "cpName", !.form = form, !.key = "", !.masked = FALSE]
    BY <1>3 DEF EnterProvider, OnCustom
  <2>2. form \in Inputs /\ "" \in OptName /\ "cpName" \in Steps
    BY DEF Closed, Inputs, OptName, OptModel, Steps, FormAsked
  <2> HIDE DEF form
  <2>3. /\ Typed(ui') /\ ui'.at = "cpName" /\ ui'.tab = ui.tab /\ ui'.official = ui.official
        /\ ui'.custom = ui.custom /\ ui'.cfg = ui.cfg
    BY <2>1, <2>2 DEF Typed
  <2> QED
    BY <1>1, <1>3, <2>3 DEF OnCustom, Where, Adds, AsksModel, FormAsked, ManualAsked, NoProvider, Picks
<1>4. CASE ui.tab = "manual"
  <2>1. ui' = Goto(ui, "manualURL")
    BY <1>4 DEF EnterProvider, Goto, OnCustom
  <2>2. "manualURL" \in Steps /\ "manualURL" \in ManualAsked
    BY DEF Steps, ManualAsked
  <2> QED
    BY <1>1, <1>4, <2>1, <2>2, GotoWhere
<1> QED
  BY <1>2, <1>3, <1>4 DEF EnterProvider


LEMMA EnterModelOK ==
  ASSUME Typed(ui), Where(ui), EnterModel
  PROVE  Typed(ui') /\ Where(ui')
<1>1. /\ ui.at \in AsksModel /\ ui.official \in Presets /\ ui.tab # "manual" /\ ~Adds(ui)
      /\ "modelInput" \in Steps
  BY DEF EnterModel, Where, AsksModel, NoProvider, Picks, Steps
<1>2. CASE ui.cursor = "other"
  <2>1. ui' = Goto(ui, "modelInput")
    BY <1>2 DEF EnterModel, Goto
  <2> QED
    BY <1>1, <2>1, GotoWhere
<1>3. CASE ui.cursor # "other"
  BY <1>1, <1>3, AskForKeyOK DEF EnterModel
<1> QED
  BY <1>2, <1>3

LEMMA UpdateCustomModelInputOK ==
  ASSUME Typed(ui), Where(ui), UpdateCustomModelInput
  PROVE  Typed(ui') /\ Where(ui')
<1>1. /\ ui.at \in AsksModel /\ ui.official \in Presets /\ ui.tab # "manual" /\ ~Adds(ui)
  BY DEF UpdateCustomModelInput, Where, AsksModel, NoProvider, Picks
<1>2. ASSUME NEW a \in {"model", "modelInput"}, NEW t \in OptModel, ui' = [ui EXCEPT !.at = a, !.typed = t]
      PROVE  Typed(ui') /\ Where(ui')
  <2>1. a \in Steps
    BY DEF Steps, AsksModel
  <2>2. /\ Typed(ui') /\ ui'.at = a /\ ui'.official = ui.official /\ ui'.tab = ui.tab
        /\ ui'.custom = ui.custom /\ ui'.cfg = ui.cfg
    BY <1>2, <2>1 DEF Typed
  <2> QED
    BY <1>1, <2>2 DEF Where, Adds, AsksModel, FormAsked, ManualAsked, NoProvider, Picks
<1>3. CASE ui' = [ui EXCEPT !.at = "model", !.typed = ""]
  BY <1>2, <1>3 DEF OptModel
<1>4. CASE AskForKey
  BY <1>1, <1>4, AskForKeyOK
<1>5. ASSUME NEW t \in {"", NewModel}, ui' = [ui EXCEPT !.typed = t]
      PROVE  Typed(ui') /\ Where(ui')
  <2>1. t \in OptModel
    BY DEF OptModel, Models
  <2>2. /\ Typed(ui') /\ ui'.at = ui.at /\ ui'.official = ui.official /\ ui'.tab = ui.tab
        /\ ui'.custom = ui.custom /\ ui'.cfg = ui.cfg
    BY <1>5, <2>1 DEF Typed
  <2> QED
    BY <1>1, <2>2 DEF UpdateCustomModelInput, Where, Adds, AsksModel, FormAsked, ManualAsked, NoProvider, Picks
<1> QED
  BY <1>3, <1>4, <1>5 DEF UpdateCustomModelInput

LEMMA UpdateAPIKeyInputOK ==
  ASSUME Typed(ui), Where(ui), UpdateAPIKeyInput
  PROVE  Typed(ui') /\ Where(ui')
<1>1. /\ ui.at = "key" /\ ui.official \in Presets /\ ui.tab # "manual" /\ ~Adds(ui)
      /\ "model" \in Steps /\ "confirmed" \in Steps
  BY DEF UpdateAPIKeyInput, Where, AsksModel, NoProvider, Picks, Steps, OtherSteps
<1>2. CASE ui' = [ui EXCEPT !.at = "model"]
  <2>1. ui' = Goto(ui, "model")
    BY <1>2 DEF Goto
  <2> QED
    BY <1>1, <2>1, GotoWhere
<1>3. CASE ui' = [ui EXCEPT !.at = "confirmed"]
  <2>1. ui' = Goto(ui, "confirmed")
    BY <1>3 DEF Goto
  <2> QED
    BY <1>1, <2>1, GotoWhere
<1>4. ASSUME NEW m \in BOOLEAN, NEW k \in {"", Selected}, ui' = [ui EXCEPT !.masked = m, !.key = k]
      PROVE  Typed(ui') /\ Where(ui')
  <2>1. k \in OptName /\ k \in {"", Shown(ui)}
    BY <1>1 DEF OptName, Typed, Selected, OnCustom, Shown, Adds, Names
  <2>2. /\ Typed(ui') /\ ui'.at = "key" /\ ui'.official = ui.official /\ ui'.tab = ui.tab
        /\ ui'.custom = ui.custom /\ ui'.cfg = ui.cfg /\ ui'.key = k /\ ui'.original = ui.original
    BY <1>1, <1>4, <2>1 DEF Typed
  <2> QED
    BY <1>1, <2>1, <2>2 DEF Where, Shown, Adds, AsksModel, FormAsked, ManualAsked, NoProvider, Picks
<1>5. CASE ui' = [ui EXCEPT !.masked = FALSE, !.key = Selected]
  BY <1>4, <1>5
<1>6. CASE ui' = [ui EXCEPT !.key = ""]
  <2>1. ui' = [ui EXCEPT !.masked = ui.masked, !.key = ""] /\ ui.masked \in BOOLEAN
    BY <1>6 DEF Typed
  <2> QED
    BY <1>4, <2>1
<1> QED
  BY <1>2, <1>3, <1>5, <1>6 DEF UpdateAPIKeyInput

LEMMA EscListOK ==
  ASSUME Typed(ui), Where(ui), EscList
  PROVE  Typed(ui') /\ Where(ui')
<1>1. "provider" \in Steps /\ "cancelled" \in Steps
  BY DEF Steps, OtherSteps
<1>2. CASE ui.at = "model"
  <2>1. ui' = Goto(ui, "provider") /\ ui.official \in Presets
    BY <1>2 DEF EscList, Goto, Where, NoProvider, Picks
  <2> QED
    BY <1>1, <2>1, GotoWhere
<1>3. CASE ui.at = "provider"
  <2>1. ui' = Goto(ui, "cancelled") /\ "cancelled" \in NoProvider
    BY <1>3 DEF EscList, Goto, NoProvider
  <2> QED
    BY <1>1, <2>1, GotoWhere
<1> QED
  BY <1>2, <1>3 DEF EscList

LEMMA CancelOK ==
  ASSUME Typed(ui), Where(ui), Cancel
  PROVE  Typed(ui') /\ Where(ui')
<1>1. ui' = Goto(ui, "cancelled") /\ "cancelled" \in NoProvider /\ "cancelled" \in Steps
  BY DEF Cancel, Goto, NoProvider, Steps, OtherSteps
<1> QED
  BY <1>1, GotoWhere

LEMMA EnterFormOK ==
  ASSUME Typed(ui), Where(ui), EnterForm
  PROVE  Typed(ui') /\ Where(ui')
<1>1. ui.at \in FormAsked /\ Adds(ui) /\ ui.official \in Presets
  BY StepsAre DEF EnterForm, Where, FormAsked, NoProvider, Picks
<1>2. CASE ui.at = "cpModels"
  <2>1. FormEnter[ui.at] = "cpAPIKey" /\ "cpAPIKey" \in Steps
    BY <1>2 DEF FormEnter, Steps, FormAsked
  <2>2. ui' = [ui EXCEPT !.at = "cpAPIKey", !.key = "", !.masked = FALSE]
    BY <1>2, <2>1 DEF EnterForm
  <2>3. /\ Typed(ui') /\ ui'.at = "cpAPIKey" /\ ui'.tab = ui.tab /\ ui'.official = ui.official
        /\ ui'.custom = ui.custom /\ ui'.cfg = ui.cfg /\ ui'.key = ""
    BY <2>1, <2>2 DEF Typed, OptName
  <2> QED
    BY <1>1, <2>3 DEF Where, Adds, AsksModel, FormAsked, ManualAsked, NoProvider, Picks
<1>3. CASE ui.at # "cpModels"
  <2> DEFINE a == FormEnter[ui.at]
  <2>1. ui' = Goto(ui, a)
    BY <1>3 DEF EnterForm, Goto, Typed
  <2>2. /\ a \in {"cpProtocol", "cpBaseURL", "cpModel", "cpModels", "cpAuthHeader", "confirmed"}
        /\ a \in {"cpAuthHeader", "confirmed"} => ui.at \in {"cpAPIKey", "cpAuthHeader"}
    BY <1>1, <1>3 DEF FormEnter, FormAsked
  <2>3. a \in Steps
    BY <2>2 DEF Steps, FormAsked, OtherSteps
  <2>4. a \in {"cpAuthHeader", "confirmed"} => ui.key \in {"", ui.form.name}
    BY <2>2 DEF Where
  <2> HIDE DEF a
  <2> QED
    BY <1>1, <2>1, <2>2, <2>3, <2>4, GotoWhere
<1> QED
  BY <1>2, <1>3

LEMMA EscFormOK ==
  ASSUME Typed(ui), Where(ui), EscForm
  PROVE  Typed(ui') /\ Where(ui')
<1> DEFINE a == FormEsc[ui.at]
<1>1. ui.at \in FormAsked /\ Adds(ui) /\ ui.official \in Presets
  BY StepsAre DEF EscForm, Where, FormAsked, NoProvider, Picks
<1>2. ui' = Goto(ui, a)
  BY DEF EscForm, Goto
<1>3. /\ a \in {"provider", "cpName", "cpProtocol", "cpBaseURL", "cpModel", "cpModels", "cpAPIKey"}
      /\ a = "cpAPIKey" => ui.at = "cpAuthHeader"
  BY <1>1 DEF FormEsc, FormAsked
<1>4. a \in Steps
  BY <1>3 DEF Steps, FormAsked, OtherSteps
<1>5. a = "cpAPIKey" => ui.key \in {"", ui.form.name}
  BY <1>3 DEF Where
<1> HIDE DEF a
<1> QED
  BY <1>1, <1>2, <1>3, <1>4, <1>5, GotoWhere

LEMMA TypeInFormOK ==
  ASSUME Typed(ui), Where(ui), TypeInForm
  PROVE  Typed(ui') /\ Where(ui')
<1>1. /\ ui.at \in {"cpName", "cpBaseURL", "cpModel", "cpAPIKey"} /\ Adds(ui)
      /\ ui.official \in Presets /\ ui.form \in Inputs
  BY DEF TypeInForm, Where, FormAsked, NoProvider, Picks, Typed
<1>2. ASSUME NEW form \in Inputs, ui.at # "cpAPIKey", ui' = [ui EXCEPT !.form = form]
      PROVE  Typed(ui') /\ Where(ui')
  <2>1. /\ Typed(ui') /\ ui'.at = ui.at /\ ui'.official = ui.official /\ ui'.tab = ui.tab
        /\ ui'.custom = ui.custom /\ ui'.cfg = ui.cfg
    BY <1>2 DEF Typed
  <2> QED
    BY <1>1, <1>2, <2>1 DEF Where, Adds, AsksModel, FormAsked, ManualAsked, NoProvider, Picks
<1>3. ASSUME NEW n \in TypedNames \cup {""}, ui.at = "cpName", ui' = [ui EXCEPT !.form.name = n]
      PROVE  Typed(ui') /\ Where(ui')
  <2> DEFINE form == [ui.form EXCEPT !.name = n]
  <2>1. form \in Inputs
    BY <1>1, TypedAssumption DEF Inputs, OptName
  <2>2. ui' = [ui EXCEPT !.form = form]
    BY <1>3
  <2> HIDE DEF form
  <2> QED
    BY <1>2, <1>3, <2>1, <2>2
<1>4. ASSUME ui.at = "cpBaseURL", ui' = [ui EXCEPT !.form.url = ui.form.name]
      PROVE  Typed(ui') /\ Where(ui')
  <2> DEFINE form == [ui.form EXCEPT !.url = ui.form.name]
  <2>1. form \in Inputs
    BY <1>1 DEF Inputs
  <2>2. ui' = [ui EXCEPT !.form = form]
    BY <1>4
  <2> HIDE DEF form
  <2> QED
    BY <1>2, <1>4, <2>1, <2>2
<1>5. ASSUME ui.at = "cpModel", ui' = [ui EXCEPT !.form.model = NewModel]
      PROVE  Typed(ui') /\ Where(ui')
  <2> DEFINE form == [ui.form EXCEPT !.model = NewModel]
  <2>1. form \in Inputs
    BY <1>1 DEF Inputs, OptModel, Models
  <2>2. ui' = [ui EXCEPT !.form = form]
    BY <1>5
  <2> HIDE DEF form
  <2> QED
    BY <1>2, <1>5, <2>1, <2>2
<1>6. ASSUME ui.at = "cpAPIKey", ui' = [ui EXCEPT !.key = ui.form.name]
      PROVE  Typed(ui') /\ Where(ui')
  <2>1. ui.form.name \in OptName
    BY <1>1 DEF Inputs
  <2>2. /\ Typed(ui') /\ ui'.at = ui.at /\ ui'.official = ui.official /\ ui'.tab = ui.tab
        /\ ui'.custom = ui.custom /\ ui'.cfg = ui.cfg /\ ui'.form = ui.form /\ ui'.key = ui.form.name
    BY <1>6, <2>1 DEF Typed
  <2> QED
    BY <1>1, <1>6, <2>2 DEF Where, Adds, AsksModel, FormAsked, ManualAsked, NoProvider, Picks
<1> QED
  BY <1>3, <1>4, <1>5, <1>6 DEF TypeInForm

LEMMA ManualOK ==
  ASSUME Typed(ui), Where(ui), EnterManual \/ EscManual \/ TypeInManual
  PROVE  Typed(ui') /\ Where(ui')
<1>1. /\ ui.at \in ManualAsked /\ ui.tab = "manual" /\ ui.official \in Presets
      /\ ui.manual \in Llms /\ ui.cfg.llm \in Llms
  BY StepsAre DEF EnterManual, EscManual, TypeInManual, Where, ManualAsked, NoProvider, Picks, Typed, ConfigOK
<1>2. ASSUME NEW a \in ManualAsked \cup {"provider", "confirmed"}, NEW manual \in Llms,
             ui' = [ui EXCEPT !.at = a, !.manual = manual]
      PROVE  Typed(ui') /\ Where(ui')
  <2>1. a \in Steps
    BY DEF Steps, OtherSteps
  <2>2. /\ Typed(ui') /\ ui'.at = a /\ ui'.official = ui.official /\ ui'.tab = ui.tab
        /\ ui'.custom = ui.custom /\ ui'.cfg = ui.cfg
    BY <1>2, <2>1 DEF Typed
  <2> QED
    BY <1>1, <2>2 DEF Where, Adds, AsksModel, FormAsked, ManualAsked, NoProvider, Picks
<1>3. CASE EnterManual
  <2>1. ManualEnter[ui.at] \in ManualAsked \cup {"provider", "confirmed"}
    BY <1>1 DEF ManualEnter, ManualAsked
  <2>2. ui' = [ui EXCEPT !.at = ManualEnter[ui.at], !.manual = ui.manual]
    BY <1>3 DEF EnterManual, Typed
  <2> QED
    BY <1>1, <1>2, <2>1, <2>2
<1>4. CASE EscManual
  <2> DEFINE manual == IF ui.at = "manualURL" THEN ui.cfg.llm ELSE ui.manual
  <2>1. ManualEsc[ui.at] \in ManualAsked \cup {"provider", "confirmed"} /\ manual \in Llms
    BY <1>1 DEF ManualEsc, ManualAsked
  <2>2. ui' = [ui EXCEPT !.at = ManualEsc[ui.at], !.manual = manual]
    BY <1>4 DEF EscManual, Typed
  <2> HIDE DEF manual
  <2> QED
    BY <1>2, <2>1, <2>2
<1>5. CASE TypeInManual
  <2>1. PICK manual \in Llms : ui' = [ui EXCEPT !.manual = manual]
    <3>1. CASE ui' = [ui EXCEPT !.manual.url = "manual"]
      <4>1. [ui.manual EXCEPT !.url = "manual"] \in Llms
        BY <1>1 DEF Llms
      <4> QED
        BY <3>1, <4>1
    <3>2. CASE ui' = [ui EXCEPT !.manual.model = NewModel]
      <4>1. [ui.manual EXCEPT !.model = NewModel] \in Llms
        BY <1>1 DEF Llms, Models
      <4> QED
        BY <3>2, <4>1
    <3>3. ASSUME NEW t \in {"", "manual"}, ui' = [ui EXCEPT !.manual.token = t]
          PROVE  \E manual \in Llms : ui' = [ui EXCEPT !.manual = manual]
      <4>1. [ui.manual EXCEPT !.token = t] \in Llms
        BY <1>1 DEF Llms
      <4> QED
        BY <3>3, <4>1
    <3> QED
      BY <1>5, <3>1, <3>2, <3>3 DEF TypeInManual
  <2>2. ui' = [ui EXCEPT !.at = ui.at, !.manual = manual]
    BY <2>1 DEF Typed
  <2> QED
    BY <1>1, <1>2, <2>2
<1> QED
  BY <1>3, <1>4, <1>5
LEMMA ListedOK ==
  ASSUME NEW cfg, ConfigOK(cfg), AtHome(cfg)
  PROVE  ModelsOf(cfg, Section(cfg.provider), cfg.provider) \subseteq Models
<1>1. /\ Section(cfg.provider) \in {"providers", "custom"}
      /\ Section(cfg.provider) = "providers" => cfg.provider \in Presets
  BY DEF Section
<1> QED
  BY <1>1, ModelsOfOK

LEMMA UpdateModelTUIOK ==
  ASSUME Typed(ui), Where(ui), UpdateModelTUI
  PROVE  Typed(ui') /\ Where(ui')
<1>1. /\ "pick" \in NoProvider /\ "pickInput" \in NoProvider /\ "picked" \in NoProvider
      /\ NoProvider \subseteq Steps
  BY DEF NoProvider, Picks, Steps, OtherSteps
<1>2. ASSUME NEW a \in {"pick", "pickInput", "picked"}, ui' = [ui EXCEPT !.at = a]
      PROVE  Typed(ui') /\ Where(ui')
  <2>1. ui' = Goto(ui, a) /\ a \in NoProvider /\ a \in Steps
    BY <1>1, <1>2 DEF Goto
  <2> QED
    BY <2>1, GotoWhere
<1>3. ASSUME NEW a \in {"pick", "pickInput"}, NEW cursor \in Items, NEW typed \in OptModel,
             ui' = [ui EXCEPT !.at = a, !.cursor = cursor, !.typed = typed]
      PROVE  Typed(ui') /\ Where(ui')
  <2>1. ui' = ListStep(ui, a, cursor, typed) /\ a \in Steps
    BY <1>1, <1>3 DEF ListStep
  <2>2. Typed(ui') /\ ui'.at = a /\ ui'.cfg = ui.cfg
    BY <2>1, ListStepOK
  <2> QED
    BY <2>2 DEF Where, AsksModel, FormAsked, ManualAsked, NoProvider, Picks
<1>4. ASSUME NEW m \in Listed \cup {"other"}, ui.at = "pick", ui' = [ui EXCEPT !.cursor = m]
      PROVE  Typed(ui') /\ Where(ui')
  <2>1. m \in Items /\ ui.typed \in OptModel
    BY ListedOK DEF Typed, Where, Listed, Items
  <2>2. ui' = [ui EXCEPT !.at = "pick", !.cursor = m, !.typed = ui.typed]
    BY <1>4 DEF Typed
  <2> QED
    BY <1>3, <2>1, <2>2
<1>5. ASSUME NEW a \in {"pick", "pickInput"}, NEW t \in {"", NewModel}, ui' = [ui EXCEPT !.at = a, !.typed = t]
      PROVE  Typed(ui') /\ Where(ui')
  <2>1. t \in OptModel /\ ui.cursor \in Items
    BY DEF OptModel, Models, Typed
  <2>2. ui' = [ui EXCEPT !.at = a, !.cursor = ui.cursor, !.typed = t]
    BY <1>5 DEF Typed
  <2> QED
    BY <1>3, <2>1, <2>2
<1>6. CASE ui.at = "pick"
  BY <1>2, <1>4, <1>6, CancelOK DEF UpdateModelTUI
<1>7. CASE ui.at = "pickInput"
  <2>1. CASE ui' = [ui EXCEPT !.at = "pick", !.typed = ""]
    BY <1>5, <2>1
  <2>2. CASE ui' = [ui EXCEPT !.at = "picked"]
    BY <1>2, <2>2
  <2>3. ASSUME NEW t \in {"", NewModel}, ui' = [ui EXCEPT !.typed = t]
        PROVE  Typed(ui') /\ Where(ui')
    <3>1. ui' = [ui EXCEPT !.at = "pickInput", !.typed = t]
      BY <1>7, <2>3 DEF Typed
    <3> QED
      BY <1>5, <3>1
  <2> QED
    BY <1>7, <2>1, <2>2, <2>3 DEF UpdateModelTUI
<1> QED
  BY <1>6, <1>7 DEF UpdateModelTUI

LEMMA DialogStepOK ==
  ASSUME Typed(ui), Where(ui), DialogStep
  PROVE  Typed(ui') /\ Where(ui')
BY SwitchTabOK, MoveCursorOK, EnterProviderOK, EnterModelOK, UpdateCustomModelInputOK,
   UpdateAPIKeyInputOK, EscListOK, EnterFormOK, EscFormOK, TypeInFormOK, ManualOK, UpdateModelTUIOK,
   CancelOK DEF DialogStep, Interrupt

(* The dialog of providers does not turn into the list of models. *)
LEMMA StaysApart ==
  ASSUME Typed(ui), DialogStep, ui'.at \in Picks
  PROVE  ui.at \in Picks
<1>1. CASE SwitchTab
  BY <1>1 DEF SwitchTab, Typed, Picks
<1>2. CASE MoveCursor
  BY <1>2 DEF MoveCursor, Typed, Picks
<1>3. CASE EnterProvider
  BY <1>3 DEF EnterProvider, Typed, Picks
<1>4. CASE EnterModel
  BY <1>4 DEF EnterModel, AskForKey, Typed, Picks
<1>5. CASE UpdateCustomModelInput
  BY <1>5 DEF UpdateCustomModelInput, AskForKey, Typed, Picks
<1>6. CASE UpdateAPIKeyInput
  BY <1>6 DEF UpdateAPIKeyInput, Typed, Picks
<1>7. CASE EscList
  BY <1>7 DEF EscList, Typed, Picks
<1>8. CASE EnterForm
  <2>1. FormEnter[ui.at] \notin Picks
    BY <1>8, StepsAre DEF EnterForm, FormEnter, FormAsked, Picks
  <2> QED
    BY <1>8, <2>1 DEF EnterForm, Typed
<1>9. CASE EscForm
  <2>1. FormEsc[ui.at] \notin Picks
    BY <1>9, StepsAre DEF EscForm, FormEsc, FormAsked, Picks
  <2> QED
    BY <1>9, <2>1 DEF EscForm, Typed
<1>10. CASE TypeInForm
  BY <1>10 DEF TypeInForm, Typed, Picks
<1>11. CASE EnterManual
  <2>1. ui.at \in ManualAsked
    BY <1>11, StepsAre DEF EnterManual
  <2>2. ManualEnter[ui.at] \notin Picks
    BY <2>1 DEF ManualEnter, ManualAsked, Picks
  <2> QED
    BY <1>11, <2>2 DEF EnterManual, Typed
<1>12. CASE EscManual
  <2>1. ui.at \in ManualAsked
    BY <1>12, StepsAre DEF EscManual
  <2>2. ManualEsc[ui.at] \notin Picks
    BY <2>1 DEF ManualEsc, ManualAsked, Picks
  <2> QED
    BY <1>12, <2>2 DEF EscManual, Typed
<1>13. CASE TypeInManual
  BY <1>13 DEF TypeInManual, Typed, Picks
<1>14. CASE UpdateModelTUI
  BY <1>14 DEF UpdateModelTUI, Picks
<1>15. CASE Interrupt
  BY <1>15 DEF Interrupt, Cancel, Typed, Picks
<1> QED
  BY <1>1, <1>2, <1>3, <1>4, <1>5, <1>6, <1>7, <1>8, <1>9, <1>10, <1>11, <1>12, <1>13, <1>14, <1>15
     DEF DialogStep

(* A dialog as it opens, and when it is not there. *)
LEMMA ClosedOK ==
  Typed(Closed) /\ Where(Closed) /\ Closed.at = "closed" /\ "closed" \notin Picks
<1>1. Closed.form \in Inputs /\ Closed.manual \in Llms /\ ConfigOK(Closed.cfg) /\ AtHome(Closed.cfg)
  BY NothingOK DEF Closed, Inputs, OptName, OptModel, NoLlm, Llms
<1>2. Typed(Closed)
  BY <1>1 DEF Closed, Typed, OptName, OptModel, Items, Steps, OtherSteps
<1>3. Closed.at = "closed"
  BY DEF Closed
<1> QED
  BY <1>1, <1>2, <1>3 DEF Where, AsksModel, FormAsked, ManualAsked, NoProvider, Picks

LEMMA NewProviderTUIOK ==
  ASSUME NEW cfg, ConfigOK(cfg), AtHome(cfg)
  PROVE  LET u == NewProviderTUI(cfg)
         IN  Typed(u) /\ Where(u) /\ u.at = "provider"
<1> DEFINE u == NewProviderTUI(cfg)
           manual == IF cfg.llm.url # "" THEN cfg.llm ELSE NoLlm
           tab == CASE cfg.provider \in Presets -> "official"
                    [] cfg.provider # ""        -> "custom"
                    [] OTHER -> IF cfg.llm.url # "" THEN "manual" ELSE "official"
           official == IF cfg.provider \in Presets THEN cfg.provider ELSE First(Presets, "")
           custom == IF cfg.provider \in DOMAIN cfg.custom THEN cfg.provider
                     ELSE IF cfg.provider \notin Presets \cup {""} THEN "add"
                     ELSE First(DOMAIN cfg.custom, "add")
<1>1. manual \in Llms
  BY DEF ConfigOK, Llms, NoLlm
<1>2. tab \in {"official", "custom", "manual"}
  OBVIOUS
<1>3. official \in Presets
  BY PresetsAssumption DEF First
<1>4. custom \in {"", "add"} \cup Names
  <2>1. DOMAIN cfg.custom \subseteq Names
    BY DEF ConfigOK, SectionOK
  <2>2. First(DOMAIN cfg.custom, "add") \in DOMAIN cfg.custom \cup {"add"}
    BY FirstOK
  <2> QED
    BY <2>1, <2>2
<1>5. u = [Closed EXCEPT !.at = "provider", !.cfg = cfg, !.manual = manual, !.tab = tab,
                         !.official = official, !.custom = custom]
  BY DEF NewProviderTUI
<1> HIDE DEF u, manual, tab, official, custom
<1>6. "provider" \in Steps
  BY DEF Steps, OtherSteps
<1>7. /\ Typed(u) /\ u.at = "provider" /\ u.official = official /\ u.cfg = cfg
  BY <1>1, <1>2, <1>3, <1>4, <1>5, <1>6, ClosedOK DEF Typed
<1> QED
  BY <1>3, <1>7 DEF u, Where, AsksModel, FormAsked, ManualAsked, NoProvider, Picks

LEMMA NewModelTUIOK ==
  ASSUME NEW cfg, ConfigOK(cfg), AtHome(cfg)
  PROVE  LET u == NewModelTUI(cfg)
         IN  Typed(u) /\ Where(u) /\ u.at = "pick"
<1> DEFINE u       == NewModelTUI(cfg)
           s       == Section(cfg.provider)
           listed  == ModelsOf(cfg, s, cfg.provider)
           entry   == EntryOf(cfg, s, cfg.provider)
           current == IF entry.model # "" THEN entry.model ELSE cfg.model
           cursor  == IF current = "" THEN First(listed, "other")
                      ELSE IF current \in listed THEN current ELSE "other"
           typed   == IF current \in listed THEN "" ELSE current
<1>1. listed \subseteq Models
  BY ListedOK
<1>2. s \in {"providers", "custom"}
  BY DEF Section
<1>3. current \in OptModel
  BY <1>2, EntryOfOK DEF Entries, ConfigOK, OptModel
<1>4. First(listed, "other") \in listed \cup {"other"}
  BY FirstOK
<1>5. u = [Closed EXCEPT !.at = "pick", !.cfg = cfg, !.cursor = cursor, !.typed = typed]
  BY DEF NewModelTUI
<1> HIDE DEF u, s, listed, entry, current
<1>6. cursor \in Items /\ typed \in OptModel
  BY <1>1, <1>3, <1>4 DEF Items, OptModel
<1> HIDE DEF cursor, typed
<1>7. "pick" \in Steps
  BY DEF Steps, Picks
<1>8. /\ Typed(u) /\ u.at = "pick" /\ u.cfg = cfg
  BY <1>5, <1>6, <1>7, ClosedOK DEF Typed
<1> QED
  BY <1>8 DEF u, Where, AsksModel, FormAsked, ManualAsked, NoProvider, Picks

LEMMA PickedModelOK ==
  ASSUME Typed(ui), PickedModel # ""
  PROVE  PickedModel \in Models
BY DEF PickedModel, Typed, Items, OptModel

(* What a dialog that was confirmed answers: the key is that of the provider. *)
LEMMA ConfirmedAnswerOK ==
  ASSUME Typed(ui), Where(ui), ui.at = "confirmed"
  PROVE  AnswerOK(Answer)
<1>0. ui.official \in Presets /\ ui.form \in Inputs /\ ui.manual \in Llms
  BY DEF Where, NoProvider, Picks, Typed
<1>1. CASE ui.tab = "manual"
  BY <1>0, <1>1 DEF Answer, AnswerOK, Llms
<1>2. CASE Adds(ui)
  <2>1. ui.key \in {"", ui.form.name}
    BY <1>2 DEF Where, Adds
  <2>2. Answer = [section |-> "custom", provider |-> ui.form.name, model |-> ui.form.model,
                  models |-> {ui.form.model}, key |-> ui.key, url |-> ui.form.url, protocol |-> "openai"]
    BY <1>2 DEF Adds, Answer
  <2> QED
    BY <1>0, <2>1, <2>2 DEF AnswerOK, Inputs, OptName, OptModel
<1>3. CASE ui.tab # "manual" /\ ~Adds(ui)
  <2> DEFINE chosen == SelectedModelFromState
             model  == IF OnCustom /\ chosen = "" THEN SelEntry.model ELSE chosen
             key    == IF ui.masked THEN ui.original ELSE ui.key
             models == IF OnCustom THEN ({model} \cup SelEntry.models) \ {""} ELSE {}
  <2>1. key \in {"", Selected}
    BY <1>3, SelEntryOK DEF Where
  <2>2. SelEntry \in Entries
    BY SelEntryOK
  <2>3. chosen \in OptModel
    <3>1. UiModels \subseteq Models
      BY UiModelsOK
    <3> QED
      BY <3>1 DEF SelectedModelFromState, OptModel, Typed
  <2>4. model \in OptModel /\ models \subseteq Models
    BY <2>2, <2>3 DEF Entries, OptModel
  <2>5. Answer = [section |-> SelSection, provider |-> Selected, model |-> model, key |-> key,
                  models |-> models, url |-> IF OnCustom THEN SelEntry.url ELSE "",
                  protocol |-> IF OnCustom THEN SelEntry.protocol ELSE ""]
    BY <1>3 DEF Adds, Answer
  <2>6. SelSection \in {"providers", "custom"} /\ (SelSection = "providers" => Selected \in Presets)
    BY <1>0 DEF SelSection, Selected
  <2>7. Selected \in OptName
    BY <1>0, <1>3, SelEntryOK DEF Shown, Adds, Typed, OptName, Names
  <2> HIDE DEF model, models, key, chosen
  <2> QED
    BY <2>1, <2>2, <2>4, <2>5, <2>6, <2>7 DEF AnswerOK, Entries, OptName, OptModel
<1> QED
  BY <1>1, <1>2, <1>3

-------------------------------------------------------------------------------
(* The jobs. *)
LEMMA IdleIs ==
  Idle = [kind |-> "none", at |-> "idle", cfg |-> NoConfig, ext |-> NoEnsemble,
          answer |-> NoAnswer, mixed |-> FALSE, lost |-> FALSE, seen |-> NoEnsemble, read |-> NoFile]
BY DEF Idle

LEMMA IdleOK == JobOK(Idle)
<1>1. /\ ConfigOK(NoConfig) /\ AtHome(NoConfig) /\ FileOK(NoFile) /\ NoEnsemble \in Blocks
  BY NothingOK
<1> QED
  BY <1>1, IdleIs DEF JobOK, JobShape

LEMMA StepOK ==
  ASSUME IInv, NEW p \in Programs, NEW j, JobOK(j), Step(p, j)
  PROVE  /\ DOMAIN job' = Programs /\ job'[p] = j
         /\ \A q \in Programs : JobOK(job'[q])
         /\ \A q \in Programs \ {p} : job'[q] = job[q]
BY DEF IInv, Step

(* What changes in a job, field by field. *)
Fields(kind, at, cfg, ext, answer, mixed, lost, seen, read) ==
  [kind |-> kind, at |-> at, cfg |-> cfg, ext |-> ext, answer |-> answer,
   mixed |-> mixed, lost |-> lost, seen |-> seen, read |-> read]

LEMMA MixedOK ==
  ASSUME NEW j, JobOK(j), NEW m \in BOOLEAN
  PROVE  JobOK([j EXCEPT !.mixed = m]) /\ [j EXCEPT !.mixed = m].at = j.at
<1> DEFINE k == [j EXCEPT !.mixed = m]
<1>1. JobShape(j) /\ k = [j EXCEPT !.mixed = m]
  BY DEF JobOK
<1> HIDE DEF k
<1>2. k = Fields(j.kind, j.at, j.cfg, j.ext, j.answer, m, j.lost, j.seen, j.read)
  BY <1>1 DEF JobShape, Fields
<1>3. /\ k.kind = j.kind /\ k.at = j.at /\ k.cfg = j.cfg /\ k.ext = j.ext /\ k.answer = j.answer
      /\ k.mixed = m /\ k.lost = j.lost /\ k.seen = j.seen /\ k.read = j.read
  BY <1>2 DEF Fields
<1>4. JobShape(k)
  BY <1>1, <1>2, <1>3 DEF JobShape, Fields
<1>5. JobOK(k)
  BY <1>3, <1>4 DEF JobOK
<1> QED
  BY <1>3, <1>5 DEF k

LEMMA LostOK ==
  ASSUME NEW j, JobOK(j), NEW l \in BOOLEAN
  PROVE  JobOK([j EXCEPT !.lost = l]) /\ [j EXCEPT !.lost = l].at = j.at
<1> DEFINE k == [j EXCEPT !.lost = l]
<1>1. JobShape(j) /\ k = [j EXCEPT !.lost = l]
  BY DEF JobOK
<1> HIDE DEF k
<1>2. k = Fields(j.kind, j.at, j.cfg, j.ext, j.answer, j.mixed, l, j.seen, j.read)
  BY <1>1 DEF JobShape, Fields
<1>3. /\ k.kind = j.kind /\ k.at = j.at /\ k.cfg = j.cfg /\ k.ext = j.ext /\ k.answer = j.answer
      /\ k.mixed = j.mixed /\ k.lost = l /\ k.seen = j.seen /\ k.read = j.read
  BY <1>2 DEF Fields
<1>4. JobShape(k)
  BY <1>1, <1>2, <1>3 DEF JobShape, Fields
<1>5. JobOK(k)
  BY <1>3, <1>4 DEF JobOK
<1> QED
  BY <1>3, <1>5 DEF k

LEMMA WritesOK ==
  ASSUME NEW j, JobOK(j), j.at = "save"
  PROVE  JobOK([j EXCEPT !.at = "write"]) /\ [j EXCEPT !.at = "write"].at = "write"
<1> DEFINE k == [j EXCEPT !.at = "write"]
<1>1. JobShape(j) /\ k = [j EXCEPT !.at = "write"]
  BY DEF JobOK
<1> HIDE DEF k
<1>2. k = Fields(j.kind, "write", j.cfg, j.ext, j.answer, j.mixed, j.lost, j.seen, j.read)
  BY <1>1 DEF JobShape, Fields
<1>3. /\ k.kind = j.kind /\ k.at = "write" /\ k.cfg = j.cfg /\ k.ext = j.ext /\ k.answer = j.answer
      /\ k.mixed = j.mixed /\ k.lost = j.lost /\ k.seen = j.seen /\ k.read = j.read
  BY <1>2 DEF Fields
<1>4. JobShape(k)
  BY <1>1, <1>2, <1>3 DEF JobShape, Fields
<1>5. JobOK(k)
  BY <1>3, <1>4 DEF JobOK
<1> QED
  BY <1>3, <1>5 DEF k

LEMMA SavesOK ==
  ASSUME NEW j, JobOK(j), j.at = "asks", NEW cfg, ConfigOK(cfg), AtHome(cfg),
         NEW answer, Settled(cfg, answer)
  PROVE  LET k == [j EXCEPT !.at = "save", !.answer = answer, !.cfg = cfg]
         IN  JobOK(k) /\ k.at = "save"
<1> DEFINE k == [j EXCEPT !.at = "save", !.answer = answer, !.cfg = cfg]
<1>1. JobShape(j) /\ k = [j EXCEPT !.at = "save", !.answer = answer, !.cfg = cfg]
  BY DEF JobOK
<1> HIDE DEF k
<1>2. k = Fields(j.kind, "save", cfg, j.ext, answer, j.mixed, j.lost, j.seen, j.read)
  BY <1>1 DEF JobShape, Fields
<1>3. /\ k.kind = j.kind /\ k.at = "save" /\ k.cfg = cfg /\ k.ext = j.ext /\ k.answer = answer
      /\ k.mixed = j.mixed /\ k.lost = j.lost /\ k.seen = j.seen /\ k.read = j.read
  BY <1>2 DEF Fields
<1>4. JobShape(k)
  BY <1>1, <1>2, <1>3 DEF JobShape, Fields
<1>5. JobOK(k)
  BY <1>3, <1>4 DEF JobOK
<1> QED
  BY <1>3, <1>5 DEF k

LEMMA ReloadedOK ==
  ASSUME NEW j, JobOK(j), j.at = "merge", NEW file, FileOK(file), AtHome(file.cfg)
  PROVE  LET k == [j EXCEPT !.at = "rename", !.cfg = file.cfg, !.read = file]
         IN  JobOK(k) /\ k.at = "rename"
<1> DEFINE k == [j EXCEPT !.at = "rename", !.cfg = file.cfg, !.read = file]
<1>1. JobShape(j) /\ k = [j EXCEPT !.at = "rename", !.cfg = file.cfg, !.read = file]
  BY DEF JobOK
<1> HIDE DEF k
<1>2. k = Fields(j.kind, "rename", file.cfg, j.ext, j.answer, j.mixed, j.lost, j.seen, file)
  BY <1>1 DEF JobShape, Fields
<1>3. /\ k.kind = j.kind /\ k.at = "rename" /\ k.cfg = file.cfg /\ k.ext = j.ext /\ k.answer = j.answer
      /\ k.mixed = j.mixed /\ k.lost = j.lost /\ k.seen = j.seen /\ k.read = file
  BY <1>2 DEF Fields
<1>4. JobShape(k)
  BY <1>1, <1>2, <1>3 DEF JobShape, Fields
<1>5. ConfigOK(file.cfg)
  BY DEF FileOK
<1>6. JobOK(k)
  BY <1>3, <1>4, <1>5 DEF JobOK
<1> QED
  BY <1>3, <1>6 DEF k

(* The invariant after a step of one program. *)
LEMMA OneStep ==
  ASSUME IInv, NEW p \in Programs, NEW j, JobOK(j), Step(p, j),
         FileOK(disk'), AtHome(disk'.cfg), Typed(ui'), Where(ui'),
         ui'.at \in Picks /\ j.at = "asks" => j.kind = "model",
         ui'.at \in Picks => \A q \in Programs \ {p} : job[q].at # "asks",
         starts' \in 0..MaxStarts, crashes' \in 0..MaxCrashes
  PROVE  IInv'
<1>1. /\ DOMAIN job' = Programs /\ job'[p] = j
      /\ \A q \in Programs : JobOK(job'[q])
      /\ \A q \in Programs \ {p} : job'[q] = job[q]
  BY StepOK
<1>2. ASSUME NEW q \in Programs, job'[q].at = "asks", ui'.at \in Picks
      PROVE  job'[q].kind = "model"
  <2>1. CASE q = p
    BY <1>1, <1>2, <2>1
  <2>2. CASE q # p
    <3>1. job'[q] = job[q] /\ job[q].at # "asks"
      BY <1>1, <1>2, <2>2
    <3> QED
      BY <1>2, <3>1
  <2> QED
    BY <2>1, <2>2
<1> QED
  BY <1>1, <1>2 DEF IInv

LEMMA InitOK == Init => IInv
<1> SUFFICES ASSUME Init PROVE IInv
  OBVIOUS
<1>1. FileOK(disk) /\ AtHome(disk.cfg)
  BY DisksAssumption DEF Init
<1>2. DOMAIN job = Programs /\ \A p \in Programs : job[p] = Idle
  BY DEF Init
<1>3. starts \in 0..MaxStarts /\ crashes \in 0..MaxCrashes
  BY BoundsAssumption DEF Init
<1>4. Typed(ui) /\ Where(ui) /\ ui.at \notin Picks
  BY ClosedOK DEF Init
<1> QED
  BY <1>1, <1>2, <1>3, <1>4, IdleOK DEF IInv

LEMMA StartSetOK ==
  ASSUME IInv, NEW p \in Programs, StartSet(p)
  PROVE  IInv'
<1>1. PICK cfg \in SetConfigValues(disk.cfg) : Step(p, [Idle EXCEPT !.kind = "set", !.at = "save", !.cfg = cfg])
  BY DEF StartSet
<1> DEFINE j == [Idle EXCEPT !.kind = "set", !.at = "save", !.cfg = cfg]
<1>2. ConfigOK(cfg) /\ AtHome(cfg)
  BY SetConfigOK DEF IInv, FileOK
<1>3. Step(p, j) /\ j = [Idle EXCEPT !.kind = "set", !.at = "save", !.cfg = cfg]
  BY <1>1
<1> HIDE DEF j
<1>4. j = Fields("set", "save", cfg, NoEnsemble, NoAnswer, FALSE, FALSE, NoEnsemble, NoFile)
  BY <1>3, IdleIs DEF Fields
<1>5. JobOK(j)
  BY <1>2, <1>4, NothingOK DEF JobOK, JobShape, Fields
<1>6. /\ FileOK(disk') /\ AtHome(disk'.cfg) /\ Typed(ui') /\ Where(ui') /\ ui'.at \notin Picks
      /\ starts' \in 0..MaxStarts /\ crashes' \in 0..MaxCrashes
  BY BoundsAssumption DEF StartSet, Starting, IInv, Picks
<1> QED
  BY <1>3, <1>5, <1>6, OneStep

LEMMA RunConfigProviderOK ==
  ASSUME IInv, NEW p \in Programs, RunConfigProvider(p)
  PROVE  IInv'
<1> DEFINE j == [Idle EXCEPT !.kind = "provider", !.at = "asks", !.cfg = disk.cfg]
<1>1. Step(p, j) /\ j = [Idle EXCEPT !.kind = "provider", !.at = "asks", !.cfg = disk.cfg]
  BY DEF RunConfigProvider
<1>2. ConfigOK(disk.cfg) /\ AtHome(disk.cfg)
  BY DEF IInv, FileOK
<1> HIDE DEF j
<1>3. j = Fields("provider", "asks", disk.cfg, NoEnsemble, NoAnswer, FALSE, FALSE, NoEnsemble, NoFile)
  BY <1>1, IdleIs DEF Fields
<1>4. JobOK(j)
  BY <1>2, <1>3, NothingOK DEF JobOK, JobShape, Fields
<1>5. Typed(ui') /\ Where(ui') /\ ui'.at \notin Picks
  BY <1>2, NewProviderTUIOK DEF RunConfigProvider, Picks
<1>6. /\ FileOK(disk') /\ AtHome(disk'.cfg)
      /\ starts' \in 0..MaxStarts /\ crashes' \in 0..MaxCrashes
  BY BoundsAssumption DEF RunConfigProvider, Starting, IInv
<1> QED
  BY <1>1, <1>4, <1>5, <1>6, OneStep

LEMMA RunConfigModelOK ==
  ASSUME IInv, NEW p \in Programs, RunConfigModel(p)
  PROVE  IInv'
<1> DEFINE j == [Idle EXCEPT !.kind = "model", !.at = "asks", !.cfg = disk.cfg]
<1>1. Step(p, j) /\ j = [Idle EXCEPT !.kind = "model", !.at = "asks", !.cfg = disk.cfg]
  BY DEF RunConfigModel
<1>2. ConfigOK(disk.cfg) /\ AtHome(disk.cfg) /\ disk.cfg.provider # ""
  BY DEF RunConfigModel, IInv, FileOK
<1> HIDE DEF j
<1>3. j = Fields("model", "asks", disk.cfg, NoEnsemble, NoAnswer, FALSE, FALSE, NoEnsemble, NoFile)
  BY <1>1, IdleIs DEF Fields
<1>4. JobOK(j) /\ j.kind = "model"
  BY <1>2, <1>3, NothingOK DEF JobOK, JobShape, Fields
<1>5. Typed(ui') /\ Where(ui')
  BY <1>2, NewModelTUIOK DEF RunConfigModel
<1>6. /\ FileOK(disk') /\ AtHome(disk'.cfg)
      /\ starts' \in 0..MaxStarts /\ crashes' \in 0..MaxCrashes
  <2>1. disk' = disk /\ starts < MaxStarts /\ starts' = starts + 1 /\ crashes' = crashes
    BY DEF RunConfigModel, Starting
  <2> QED
    BY <2>1, BoundsAssumption DEF IInv
<1>7. \A q \in Programs : job[q].at = "idle"
  BY DEF RunConfigModel, AloneAtWork, IInv, JobOK
<1> QED
  BY <1>1, <1>4, <1>5, <1>6, <1>7, OneStep

(* Every action keeps the invariant. *)
LEMMA KeysOK ==
  ASSUME IInv, Keys
  PROVE  IInv'
<1>1. Typed(ui) /\ Where(ui) /\ DialogStep
  BY DEF IInv, Keys
<1>2. Typed(ui') /\ Where(ui') /\ (ui'.at \in Picks => ui.at \in Picks)
  BY <1>1, DialogStepOK, StaysApart
<1>3. disk' = disk /\ job' = job /\ starts' = starts /\ crashes' = crashes
  BY DEF Keys
<1> QED
  BY <1>2, <1>3 DEF IInv

LEMMA DialogEndsOK ==
  ASSUME IInv, NEW p \in Programs, DialogEnds(p)
  PROVE  IInv'
<1> DEFINE j == job[p]
<1>1. JobOK(j) /\ j.at = "asks" /\ ConfigOK(j.cfg) /\ AtHome(j.cfg)
  BY DEF DialogEnds, IInv, JobOK
<1>2. ui' = Closed /\ disk' = disk /\ starts' = starts /\ crashes' = crashes
  BY DEF DialogEnds
<1>3. /\ FileOK(disk') /\ AtHome(disk'.cfg) /\ Typed(ui') /\ Where(ui') /\ ui'.at \notin Picks
      /\ starts' \in 0..MaxStarts /\ crashes' \in 0..MaxCrashes
  <2>1. Typed(ui') /\ Where(ui') /\ ui'.at \notin Picks
    BY <1>2, ClosedOK
  <2> QED
    BY <1>2, <2>1 DEF IInv
<1>4. ASSUME NEW k, JobOK(k), Step(p, k)
      PROVE  IInv'
  BY <1>3, <1>4, OneStep
<1>5. CASE Step(p, Idle)
  BY <1>4, <1>5, IdleOK
<1>6. ASSUME NEW cfg, ConfigOK(cfg), AtHome(cfg), NEW answer, Settled(cfg, answer),
             Step(p, [j EXCEPT !.at = "save", !.answer = answer, !.cfg = cfg])
      PROVE  IInv'
  BY <1>1, <1>4, <1>6, SavesOK
<1>7. ASSUME ui.at = "confirmed", ~Refused(j.cfg, Answer, EnvKeys), 
             Step(p, [j EXCEPT !.at = "save", !.answer = Answer,
                               !.cfg = IF Answer.section = "manual" THEN ApplyManual(j.cfg, Answer)
                                       ELSE ApplyProvider(j.cfg, Answer)])
      PROVE  IInv'
  <2> DEFINE r == Answer
             cfg == IF r.section = "manual" THEN ApplyManual(j.cfg, r) ELSE ApplyProvider(j.cfg, r)
  <2>1. AnswerOK(r)
    BY <1>7, ConfirmedAnswerOK DEF IInv
  <2>2. ConfigOK(cfg) /\ AtHome(cfg) /\ Settled(cfg, r)
    <3>1. CASE r.section = "manual"
      BY <1>1, <1>7, <2>1, <3>1, ApplyManualOK
    <3>2. CASE r.section # "manual"
      BY <1>1, <1>7, <2>1, <3>2, ApplyProviderOK
    <3> QED
      BY <3>1, <3>2
  <2>3. Step(p, [j EXCEPT !.at = "save", !.answer = r, !.cfg = cfg])
    BY <1>7
  <2> HIDE DEF cfg, r
  <2> QED
    BY <1>6, <2>2, <2>3
<1>8. ASSUME ui.at = "picked", PickedModel # "", 
             Step(p, [j EXCEPT !.at = "save", !.cfg = ApplyModel(j.cfg, PickedModel),
                               !.answer = [section |-> "model", provider |-> j.cfg.provider,
                                           model |-> PickedModel, key |-> ""]])
      PROVE  IInv'
  <2> DEFINE r   == [section |-> "model", provider |-> j.cfg.provider, model |-> PickedModel, key |-> ""]
             cfg == ApplyModel(j.cfg, PickedModel)
  <2>1. PickedModel \in Models
    BY <1>8, PickedModelOK DEF IInv
  <2>2. j.cfg.provider # ""
    <3>1. j.kind = "model"
      BY <1>1, <1>8 DEF IInv, Picks
    <3> QED
      BY <1>1, <3>1 DEF JobOK
  <2>3. ConfigOK(cfg) /\ AtHome(cfg) /\ Settled(cfg, r)
    BY <1>1, <1>8, <2>1, <2>2, ApplyModelOK
  <2>4. [j EXCEPT !.at = "save", !.cfg = cfg, !.answer = r]
          = [j EXCEPT !.at = "save", !.answer = r, !.cfg = cfg]
    OBVIOUS
  <2>5. Step(p, [j EXCEPT !.at = "save", !.answer = r, !.cfg = cfg])
    BY <1>8, <2>4
  <2> HIDE DEF cfg, r
  <2> QED
    BY <1>6, <2>3, <2>5
<1> QED
  BY <1>5, <1>7, <1>8 DEF DialogEnds

(* The invariant after a step of the jobs and the file. *)
LEMMA EveryStep ==
  ASSUME IInv, ui' = ui, ui.at = "closed", starts' = starts, crashes' \in 0..MaxCrashes,
         FileOK(disk'), AtHome(disk'.cfg), DOMAIN job' = Programs, \A q \in Programs : JobOK(job'[q])
  PROVE  IInv'
<1>1. ui'.at \notin Picks
  BY DEF Picks
<1> QED
  BY <1>1 DEF IInv

LEMMA CutOK ==
  LET file == [Emptied EXCEPT !.state = "cut"] IN FileOK(file) /\ AtHome(file.cfg)
<1> DEFINE file == [Emptied EXCEPT !.state = "cut"]
<1>0. Emptied \in [state : {"empty"}, cfg : {NoConfig}, ensemble : {NoEnsemble}]
      /\ file = [Emptied EXCEPT !.state = "cut"]
  BY DEF Emptied, NoFile
<1> HIDE DEF file
<1>1. file = [state |-> "cut", cfg |-> NoConfig, ensemble |-> NoEnsemble]
  BY <1>0
<1>2. FileOK(file) /\ AtHome(file.cfg)
  BY <1>1, NothingOK DEF FileOK
<1> QED
  BY <1>2 DEF file

LEMMA TruncateOK ==
  ASSUME IInv, NEW p \in Programs, Truncate(p)
  PROVE  IInv'
<1>1. ASSUME NEW q \in Programs
      PROVE  JobOK(job'[q])
  <2>1. JobOK(job[q]) /\ job[q].mixed \in BOOLEAN /\ job[q].lost \in BOOLEAN
    BY DEF IInv, JobOK, JobShape
  <2>2. CASE q = p
    <3>1. job'[q] = [job[q] EXCEPT !.at = "write"] /\ job[q].at = "save"
      BY <2>2 DEF Truncate
    <3> QED
      BY <2>1, <3>1, WritesOK
  <2>3. CASE q # p
    <3> DEFINE m == job[q].mixed /\ job[q].lost
    <3>1. job'[q] = [job[q] EXCEPT !.mixed = m]
      BY <2>3 DEF Truncate
    <3>2. m \in BOOLEAN
      BY <2>1
    <3> HIDE DEF m
    <3> QED
      BY <2>1, <3>1, <3>2, MixedOK
  <2> QED
    BY <2>2, <2>3
<1>2. disk' = Emptied /\ ui' = ui /\ ui.at = "closed" /\ starts' = starts /\ crashes' = crashes
      /\ DOMAIN job' = Programs
  BY DEF Truncate
<1>3. FileOK(disk') /\ AtHome(disk'.cfg) /\ crashes' \in 0..MaxCrashes
  BY <1>2, NothingOK DEF IInv
<1> QED
  BY <1>1, <1>2, <1>3, EveryStep

LEMMA WriteRestOK ==
  ASSUME IInv, NEW p \in Programs, WriteRest(p)
  PROVE  IInv'
<1>1. ASSUME NEW q \in Programs
      PROVE  JobOK(job'[q])
  <2>1. JobOK(job[q]) /\ job[q].mixed \in BOOLEAN
    BY DEF IInv, JobOK, JobShape
  <2>2. CASE q = p
    BY <2>2, IdleOK DEF WriteRest
  <2>3. CASE q # p
    <3> DEFINE m == job[q].mixed \/ (job[q].at = "write" /\ ~job[q].lost /\ ~job[p].lost)
    <3>1. job'[q] = [job[q] EXCEPT !.mixed = m]
      BY <2>3 DEF WriteRest
    <3>2. m \in BOOLEAN
      BY <2>1
    <3> HIDE DEF m
    <3> QED
      BY <2>1, <3>1, <3>2, MixedOK
  <2> QED
    BY <2>2, <2>3
<1>2. ui' = ui /\ ui.at = "closed" /\ starts' = starts /\ crashes' = crashes
      /\ DOMAIN job' = Programs
  BY DEF WriteRest
<1>3. FileOK(disk') /\ AtHome(disk'.cfg)
  <2>1. CASE disk' = disk
    BY <2>1 DEF IInv
  <2>2. CASE disk' = Whole(job[p].cfg, NoEnsemble)
    <3>1. ConfigOK(job[p].cfg) /\ AtHome(job[p].cfg)
      BY DEF IInv, JobOK
    <3> QED
      BY <2>2, <3>1, WholeOK, NothingOK DEF Whole
  <2>3. CASE disk' = [Emptied EXCEPT !.state = "cut"]
    BY <2>3, CutOK
  <2> QED
    BY <2>1, <2>2, <2>3 DEF WriteRest
<1> QED
  BY <1>1, <1>2, <1>3, EveryStep DEF IInv

LEMMA CrashOK ==
  ASSUME IInv, NEW p \in Programs, Crash(p)
  PROVE  IInv'
<1>1. ASSUME NEW q \in Programs
      PROVE  JobOK(job'[q])
  <2>1. job'[q] = Idle \/ job'[q] = job[q]
    BY DEF Crash, IInv
  <2> QED
    BY <2>1, IdleOK DEF IInv
<1>2. ui' = ui /\ ui.at = "closed" /\ starts' = starts /\ crashes' = crashes + 1 /\ crashes < MaxCrashes
      /\ DOMAIN job' = Programs
  BY DEF Crash, IInv
<1>3. FileOK(disk') /\ AtHome(disk'.cfg)
  BY CutOK DEF Crash, IInv
<1>4. crashes' \in 0..MaxCrashes
  BY <1>2, BoundsAssumption DEF IInv
<1> QED
  BY <1>1, <1>2, <1>3, <1>4, EveryStep

LEMMA StartSetEnsembleOK ==
  ASSUME IInv, NEW p \in Programs, StartSetEnsemble(p)
  PROVE  IInv'
<1>1. PICK ext \in SetEnsembleValues(disk.ensemble) :
        Step(p, [Idle EXCEPT !.kind = "ensemble", !.at = "merge", !.ext = ext])
  BY DEF StartSetEnsemble
<1> DEFINE j == [Idle EXCEPT !.kind = "ensemble", !.at = "merge", !.ext = ext]
<1>2. ext \in Blocks /\ ext.there
  BY SetEnsembleOK DEF IInv, FileOK
<1>3. Step(p, j) /\ j = [Idle EXCEPT !.kind = "ensemble", !.at = "merge", !.ext = ext]
  BY <1>1
<1> HIDE DEF j
<1>4. j = Fields("ensemble", "merge", NoConfig, ext, NoAnswer, FALSE, FALSE, NoEnsemble, NoFile)
  BY <1>3, IdleIs DEF Fields
<1>5. JobOK(j)
  BY <1>2, <1>4, NothingOK DEF JobOK, JobShape, Fields
<1>6. /\ FileOK(disk') /\ AtHome(disk'.cfg) /\ Typed(ui') /\ Where(ui') /\ ui'.at \notin Picks
      /\ starts' \in 0..MaxStarts /\ crashes' \in 0..MaxCrashes
  BY BoundsAssumption DEF StartSetEnsemble, Starting, IInv, Picks
<1> QED
  BY <1>3, <1>5, <1>6, OneStep

LEMMA HandleEnsembleSubmitOK ==
  ASSUME IInv, NEW p \in Programs, HandleEnsembleSubmit(p)
  PROVE  IInv'
<1> DEFINE merged(form) == MergeHiddenFields(BuildExtFromForm(form), disk.ensemble)
<1>1. PICK form \in Forms :
        Step(p, [Idle EXCEPT !.kind = "form", !.at = "merge", !.ext = merged(form), !.seen = disk.ensemble])
  BY DEF HandleEnsembleSubmit
<1> DEFINE seen == disk.ensemble
           ext  == MergeHiddenFields(BuildExtFromForm(form), seen)
           j    == [Idle EXCEPT !.kind = "form", !.at = "merge", !.ext = ext, !.seen = seen]
<1>2. seen \in Blocks /\ ext \in Blocks /\ ext.there
  <2>1. seen \in Blocks
    BY DEF IInv, FileOK
  <2> HIDE DEF seen
  <2> QED
    BY <2>1, MergeOK
<1>3. Step(p, j) /\ j = [Idle EXCEPT !.kind = "form", !.at = "merge", !.ext = ext, !.seen = seen]
  BY <1>1
<1>4. \E f \in Forms : ext = MergeHiddenFields(BuildExtFromForm(f), seen)
  OBVIOUS
<1> HIDE DEF j, ext, seen
<1>5. j = Fields("form", "merge", NoConfig, ext, NoAnswer, FALSE, FALSE, seen, NoFile)
  BY <1>3, IdleIs DEF Fields
<1>6. JobOK(j)
  BY <1>2, <1>4, <1>5, NothingOK DEF JobOK, JobShape, Fields
<1>7. /\ FileOK(disk') /\ AtHome(disk'.cfg) /\ Typed(ui') /\ Where(ui') /\ ui'.at \notin Picks
      /\ starts' \in 0..MaxStarts /\ crashes' \in 0..MaxCrashes
  BY BoundsAssumption DEF HandleEnsembleSubmit, Starting, IInv, Picks
<1> QED
  BY <1>3, <1>6, <1>7, OneStep

LEMMA ReloadOK ==
  ASSUME IInv, NEW p \in Programs, Reload(p)
  PROVE  IInv'
<1>1. JobOK(job[p]) /\ job[p].at = "merge" /\ FileOK(disk) /\ AtHome(disk.cfg)
  BY DEF Reload, IInv
<1> DEFINE k == [job[p] EXCEPT !.at = "rename", !.cfg = disk.cfg, !.read = disk]
<1>2. JobOK(k)
  BY <1>1, ReloadedOK
<1>3. ASSUME NEW q \in Programs
      PROVE  JobOK(job'[q])
  <2>1. job'[q] = Idle \/ job'[q] = k \/ job'[q] = job[q]
    BY DEF Reload, IInv
  <2> QED
    BY <1>2, <2>1, IdleOK DEF IInv
<1>4. ui' = ui /\ ui.at = "closed" /\ starts' = starts /\ crashes' = crashes /\ disk' = disk
      /\ DOMAIN job' = Programs
  BY DEF Reload, IInv
<1> QED
  BY <1>1, <1>3, <1>4, EveryStep DEF IInv

LEMMA RenameOK ==
  ASSUME IInv, NEW p \in Programs, Rename(p)
  PROVE  IInv'
<1>1. ASSUME NEW q \in Programs
      PROVE  JobOK(job'[q])
  <2>1. JobOK(job[q]) /\ job[q].lost \in BOOLEAN
    BY DEF IInv, JobOK, JobShape
  <2>2. CASE q = p
    BY <2>2, IdleOK DEF Rename
  <2>3. CASE q # p
    <3> DEFINE l == job[q].lost \/ job[q].at = "write"
    <3>1. job'[q] = [job[q] EXCEPT !.lost = l]
      BY <2>3 DEF Rename
    <3>2. l \in BOOLEAN
      BY <2>1
    <3> HIDE DEF l
    <3> QED
      BY <2>1, <3>1, <3>2, LostOK
  <2> QED
    BY <2>2, <2>3
<1>2. ui' = ui /\ ui.at = "closed" /\ starts' = starts /\ crashes' = crashes
      /\ DOMAIN job' = Programs /\ disk' = Whole(job[p].cfg, job[p].ext)
  BY DEF Rename
<1>3. FileOK(disk') /\ AtHome(disk'.cfg)
  <2>1. ConfigOK(job[p].cfg) /\ AtHome(job[p].cfg) /\ job[p].ext \in Blocks
    BY DEF IInv, JobOK, JobShape
  <2> QED
    BY <1>2, <2>1, WholeOK DEF Whole
<1> QED
  BY <1>1, <1>2, <1>3, EveryStep DEF IInv

-------------------------------------------------------------------------------
LEMMA NextOK ==
  ASSUME IInv, [Next]_vars
  PROVE  IInv'
<1>1. CASE UNCHANGED vars
  BY <1>1 DEF vars, IInv
<1>2. CASE Keys
  BY <1>2, KeysOK
<1>3. ASSUME NEW p \in Programs,
             \/ StartSet(p) \/ RunConfigProvider(p) \/ RunConfigModel(p) \/ DialogEnds(p)
             \/ Truncate(p) \/ WriteRest(p) \/ Crash(p)
             \/ StartSetEnsemble(p) \/ HandleEnsembleSubmit(p) \/ Reload(p) \/ Rename(p)
      PROVE  IInv'
  BY <1>3, StartSetOK, RunConfigProviderOK, RunConfigModelOK, DialogEndsOK, TruncateOK, WriteRestOK,
     CrashOK, StartSetEnsembleOK, HandleEnsembleSubmitOK, ReloadOK, RenameOK
<1> QED
  BY <1>1, <1>2, <1>3 DEF Next

(* The inductive invariant holds in every state. *)
THEOREM Invariant == Spec => []IInv
<1>1. IInv /\ [Next]_vars => IInv'
  BY NextOK
<1> QED
  BY <1>1, InitOK, PTL DEF Spec

(* The file, the dialog and what each program is about to write stay well formed
   under every order of starts, keys, loads, writes, renames and kills. *)
THEOREM Typing == Spec => []TypeOK
<1>1. IInv => TypeOK
  <2> SUFFICES ASSUME IInv PROVE TypeOK
    OBVIOUS
  <2>1. FileOK(disk) /\ starts \in 0..MaxStarts /\ crashes \in 0..MaxCrashes
    BY DEF IInv
  <2>2. DialogOK
    BY DialogShape DEF IInv
  <2>3. ASSUME NEW p \in Programs
        PROVE  /\ job[p].at \in {"idle", "asks", "save", "write", "merge", "rename"}
               /\ ConfigOK(job[p].cfg) /\ job[p].ext \in Blocks
    BY DEF IInv, JobOK, JobShape
  <2> QED
    BY <2>1, <2>2, <2>3 DEF TypeOK
<1> QED
  BY <1>1, Invariant, PTL

(* The key of a provider is never stored with another: the dialog never leaves a
   key typed or masked for one provider when the cursor is on another. *)
THEOREM KeysAtHome == Spec => []KeysStayHome
<1>1. IInv => KeysStayHome
  BY DEF IInv, JobOK, KeysStayHome
<1> QED
  BY <1>1, Invariant, PTL

(* Endpoints: the first source that decides is the configuration file. *)
LEMMA FirstOfFour ==
  ASSUME NEW f, NEW a, NEW b, NEW c, f.status # "none"
  PROVE  FirstDecided(<<f, a, b, c>>) = f
<1> DEFINE s       == <<f, a, b, c>>
           decides == {i \in DOMAIN s : s[i].status # "none"}
           first   == CHOOSE i \in decides : \A j \in decides : i <= j
<1>1. DOMAIN s = 1..4 /\ s[1] = f
  OBVIOUS
<1>2. FirstDecided(s) = IF decides = {} THEN Error ELSE s[first]
  BY DEF FirstDecided
<1> HIDE DEF s
<1>3. decides \subseteq 1..4 /\ 1 \in decides
  BY <1>1
<1> HIDE DEF decides
<1>4. \E i \in decides : \A j \in decides : i <= j
  <2>1. \A j \in decides : 1 <= j
    BY <1>3
  <2> QED
    BY <1>3, <2>1
<1>5. first \in decides /\ \A j \in decides : first <= j
  BY <1>4
<1>6. first \in 1..4 /\ first <= 1
  BY <1>3, <1>5
<1> HIDE DEF first
<1>7. first = 1
  BY <1>6
<1> QED
  BY <1>1, <1>2, <1>3, <1>7 DEF s

LEMMA FoundFirst ==
  ASSUME NEW file, NEW env, TryOCRConfig(file, env.keys, "").status # "none"
  PROVE  ResolveEndpoint(file, env, "") = TryOCRConfig(file, env.keys, "")
<1> DEFINE f == TryOCRConfig(file, env.keys, "")
           a == TryEnvironment("OCR environment", env.ocr, "")
           b == TryEnvironment("Claude Code environment", env.cc, "")
           c == TryEnvironment("Shell rc file", env.rc, "")
<1>1. ResolveEndpoint(file, env, "") = FirstDecided(<<f, a, b, c>>)
  BY DEF Strategies, ResolveEndpoint
<1> HIDE DEF f, a, b, c
<1>2. FirstDecided(<<f, a, b, c>>) = f
  BY FirstOfFour DEF f
<1> QED
  BY <1>1, <1>2 DEF f

(* A configuration that holds a complete answer is resolved to that answer. *)
LEMMA AnswerIsResolved ==
  ASSUME NEW cfg, NEW r, Settled(cfg, r), Complete(cfg, r)
  PROVE  Resolved(ResolveEndpoint(Whole(cfg, NoEnsemble), Shell(r), ""), r)
<1> DEFINE file == Whole(cfg, NoEnsemble)
           env  == Shell(r)
           asked == TryOCRConfig(file, env.keys, "")
<1>0. env.keys = {name \in Env.keys : r.key = ""}
  BY DEF Shell
<1> HIDE DEF env
<1>1. CASE r.section = "manual"
  <2>1. /\ cfg.provider = "" /\ cfg.llm.url # "" /\ cfg.llm.token = r.key /\ cfg.llm.model = r.model
        /\ r.key # "" /\ r.model # ""
    <3>1. /\ cfg.provider = "" /\ r.url # "" /\ r.model # "" /\ r.key # ""
          /\ cfg.llm = [url |-> r.url, token |-> r.key, model |-> r.model]
      BY <1>1 DEF Settled, Complete
    <3> DEFINE llm == cfg.llm
    <3>2. llm = [url |-> r.url, token |-> r.key, model |-> r.model]
      BY <3>1
    <3> HIDE DEF llm
    <3>3. llm.url = r.url /\ llm.token = r.key /\ llm.model = r.model
      BY <3>2
    <3> QED
      BY <3>1, <3>3 DEF llm
  <2>2. asked = Found("llm", cfg.llm.token, cfg.llm.url, cfg.llm.model)
    BY <2>1 DEF TryOCRConfig, TryLegacyLlmConfig, Whole
  <2>3. /\ asked.status = "found" /\ asked.source = "llm"
        /\ asked.model = cfg.llm.model /\ asked.key = cfg.llm.token
    <3> HIDE DEF asked
    <3> QED
      BY <2>2 DEF Found
  <2>4. ResolveEndpoint(file, env, "") = asked
    <3> HIDE DEF file
    <3> QED
      BY <2>3, FoundFirst, Zenon
  <2> QED
    <3> HIDE DEF asked
    <3> QED
      BY <1>1, <2>1, <2>3, <2>4 DEF Resolved, env
<1>2. CASE r.section # "manual"
  <2> DEFINE name  == r.provider
             s     == Section(name)
             entry == EntryOf(cfg, s, name)
             key   == IF entry.key = "" /\ name \in env.keys THEN name ELSE entry.key
             url   == IF entry.url = "" THEN name ELSE entry.url
  <2>1. /\ name # "" /\ cfg.provider = name /\ r.model # ""
    BY <1>2 DEF Settled
  <2>2. /\ name \in DOMAIN cfg[s] /\ entry = cfg[s][name] /\ entry.model = r.model
        /\ r.key # "" => entry.key = r.key
    <3>1. CASE r.section = "model"
      BY <3>1 DEF Settled, EntryOf
    <3>2. CASE r.section = "providers"
      <4>1. s = "providers"
        BY <3>2 DEF Settled, Section
      <4> QED
        BY <3>2, <4>1 DEF Settled, EntryOf
    <3>3. CASE r.section = "custom"
      <4>1. s = "custom"
        BY <1>2, <3>3 DEF Complete, Section
      <4> QED
        BY <3>3, <4>1 DEF Settled, EntryOf
    <3> QED
      BY <1>2, <3>1, <3>2, <3>3 DEF Settled
  <2>3. /\ entry.key # "" \/ name \in Env.keys
        /\ name \in Presets \/ (entry.url # "" /\ entry.protocol # "")
    BY <1>2 DEF Complete
  <2>4. key # "" /\ (r.key # "" => key = r.key)
    BY <1>0, <2>1, <2>2, <2>3
  <2>5. asked = Found(name, key, url, r.model)
    <3>1. asked = TryProviderConfig(cfg, env.keys, "")
      BY <2>1 DEF TryOCRConfig, Whole
    <3>2. ConfiguredModel(cfg, entry) = r.model
      BY <2>1, <2>2 DEF ConfiguredModel
    <3> QED
      BY <2>1, <2>2, <2>3, <2>4, <3>1, <3>2 DEF TryProviderConfig
  <2>6. /\ asked.status = "found" /\ asked.source = name
        /\ asked.model = r.model /\ asked.key = key
    <3> HIDE DEF asked, name, key, url
    <3> QED
      BY <2>5 DEF Found
  <2>7. ResolveEndpoint(file, env, "") = asked
    <3> HIDE DEF file
    <3> QED
      BY <2>6, FoundFirst, Zenon
  <2> QED
    <3> HIDE DEF asked
    <3> QED
      BY <1>2, <2>4, <2>6, <2>7 DEF Resolved, env
<1> QED
  BY <1>1, <1>2

(* In a shell that sets no endpoint, the file a dialog saved resolves to the
   provider, model and key that the user confirmed, whatever the file held before
   and whoever wrote it in between; the review asks the same endpoint unless the
   file has a global model. *)
THEOREM Confirmed == Spec => ConfirmedIsResolved
<1> DEFINE Saves(p, r) == /\ job[p].at = "write" /\ r # NoAnswer
                          /\ disk' = Whole(job[p].cfg, NoEnsemble)
                          /\ Complete(job[p].cfg, r)
           Asked(r) == /\ Resolved(ResolveEndpoint(disk', Shell(r), ""), r)
                       /\ disk'.cfg.model = "" => Resolved(ReviewEndpoint(disk', Shell(r)), r)
<1>1. ASSUME IInv, NEW p \in Programs, Saves(p, job[p].answer)
      PROVE  Asked(job[p].answer)
  <2>1. Settled(job[p].cfg, job[p].answer)
    BY <1>1 DEF IInv, JobOK
  <2>2. Resolved(ResolveEndpoint(disk', Shell(job[p].answer), ""), job[p].answer)
    BY <1>1, <2>1, AnswerIsResolved
  <2>3. ASSUME disk'.cfg.model = ""
        PROVE  ReviewEndpoint(disk', Shell(job[p].answer))
                 = ResolveEndpoint(disk', Shell(job[p].answer), "")
    <3>1. ~Promoted(disk')
      BY <2>3, Zenon DEF Promoted
    <3> QED
      BY <3>1, Zenon DEF ReviewEndpoint
  <2> QED
    BY <2>2, <2>3, Zenon
<1>2. IInv /\ [Next]_vars => [\A p \in Programs : Saves(p, job[p].answer) => Asked(job[p].answer)]_vars
  BY <1>1
<1> QED
  BY <1>2, Invariant, PTL DEF Spec, ConfirmedIsResolved

(* Only a save of the provider half makes a whole file unreadable or loses its
   ensemble block. *)
THEOREM NeverTorn == Spec => SaveNeverTears
<1> DEFINE Tears == /\ disk.state = "whole"
                    /\ disk'.state # "whole" \/ (disk.ensemble.there /\ ~disk'.ensemble.there)
           Saved == \E p \in Programs : job[p].at \in {"save", "write"} /\ job'[p].at # job[p].at
<1>1. ASSUME IInv, [Next]_vars, Tears
      PROVE  Saved
  <2>1. disk' # disk
    BY <1>1
  <2>2. PICK p \in Programs : Truncate(p) \/ WriteRest(p) \/ Crash(p) \/ Rename(p)
    BY <1>1, <2>1 DEF Next, vars, Keys, StartSet, RunConfigProvider, RunConfigModel, DialogEnds,
       StartSetEnsemble, HandleEnsembleSubmit, Reload, Starting
  <2>3. Idle.at = "idle" /\ JobOK(job[p]) /\ DOMAIN job = Programs
    BY <1>1 DEF Idle, IInv
  <2>4. CASE Truncate(p)
    <3>1. job[p].at = "save" /\ job'[p] = [job[p] EXCEPT !.at = "write"]
      BY <2>4 DEF Truncate
    <3>2. job'[p].at = "write"
      BY <2>3, <3>1, WritesOK
    <3> QED
      BY <3>1, <3>2
  <2>5. CASE WriteRest(p)
    <3>1. job[p].at = "write" /\ job'[p] = Idle
      BY <2>5 DEF WriteRest
    <3> QED
      BY <2>3, <3>1
  <2>6. CASE Crash(p)
    <3>1. job[p].at = "write" /\ job'[p] = Idle
      BY <2>1, <2>3, <2>6 DEF Crash
    <3> QED
      BY <2>3, <3>1
  <2>7. CASE Rename(p)
    <3>1. job[p].ext.there /\ disk' = Whole(job[p].cfg, job[p].ext)
      BY <2>3, <2>7 DEF Rename, JobOK
    <3> QED
      BY <1>1, <3>1 DEF Whole
  <2> QED
    BY <2>2, <2>4, <2>5, <2>6, <2>7
<1>2. IInv /\ [Next]_vars => [Tears => Saved]_vars
  BY <1>1
<1> QED
  BY <1>2, Invariant, PTL DEF Spec, SaveNeverTears

(* A writer that has merged leaves its step by its rename, or is killed. *)
LEMMA WhoRenames ==
  ASSUME IInv, [Next]_vars, NEW p \in Programs, job[p].at = "rename", job'[p].at # "rename"
  PROVE  Rename(p) \/ Crash(p)
<1>1. JobOK(job[p]) /\ DOMAIN job = Programs /\ job' # job /\ job[p].kind # "none"
  BY DEF IInv, JobOK
<1>2. PICK q \in Programs :
        \/ StartSet(q) \/ RunConfigProvider(q) \/ RunConfigModel(q) \/ DialogEnds(q)
        \/ Truncate(q) \/ WriteRest(q) \/ Crash(q)
        \/ StartSetEnsemble(q) \/ HandleEnsembleSubmit(q) \/ Reload(q) \/ Rename(q)
  BY <1>1 DEF Next, vars, Keys
<1>3. ASSUME NEW j, Step(q, j), q # p
      PROVE  FALSE
  BY <1>1, <1>3 DEF Step
<1>4. ASSUME Starting(q) PROVE q # p
  BY <1>1, <1>4 DEF Starting
<1>5. CASE StartSet(q) \/ RunConfigProvider(q) \/ RunConfigModel(q) \/ StartSetEnsemble(q) \/ HandleEnsembleSubmit(q)
  BY <1>3, <1>4, <1>5, Zenon DEF StartSet, RunConfigProvider, RunConfigModel, StartSetEnsemble, HandleEnsembleSubmit
<1>6. CASE DialogEnds(q)
  <2>1. q # p
    BY <1>6 DEF DialogEnds
  <2> QED
    BY <1>3, <1>6, <2>1, Zenon DEF DialogEnds
<1>7. CASE Truncate(q)
  <2>1. q # p /\ job'[p] = [job[p] EXCEPT !.mixed = @ /\ job[p].lost]
    BY <1>7 DEF Truncate
  <2> QED
    BY <1>1, <2>1 DEF JobOK, JobShape
<1>8. CASE WriteRest(q)
  <2> DEFINE m == job[p].mixed \/ (job[p].at = "write" /\ ~job[p].lost /\ ~job[q].lost)
  <2>1. q # p /\ job'[p] = [job[p] EXCEPT !.mixed = m]
    BY <1>8 DEF WriteRest
  <2> HIDE DEF m
  <2> QED
    BY <1>1, <2>1 DEF JobOK, JobShape
<1>9. CASE Crash(q)
  BY <1>1, <1>9 DEF Crash
<1>10. CASE Reload(q)
  <2>1. q # p
    BY <1>10 DEF Reload
  <2> QED
    BY <1>1, <1>10, <2>1 DEF Reload
<1>11. CASE Rename(q)
  <2>1. CASE q # p
    <3> DEFINE l == job[p].lost \/ job[p].at = "write"
    <3>1. job'[p] = [job[p] EXCEPT !.lost = l]
      BY <1>11, <2>1 DEF Rename
    <3> HIDE DEF l
    <3> QED
      BY <1>1, <3>1 DEF JobOK, JobShape
  <2> QED
    BY <1>11, <2>1
<1> QED
  BY <1>2, <1>5, <1>6, <1>7, <1>8, <1>9, <1>10, <1>11

(* A save of the form that nobody overtook keeps the provider half of the file and
   gives each scanner, the arbiter and dedup the fields that mergeHiddenFields
   carries over. Of exhaustive, timeout and serial, and of a file without a block,
   it says nothing (ConfigStore, FormSaveCarriesOver). *)
THEOREM FormCarriesOver == Spec => FormSaveCarriesOver
<1> DEFINE Keeps(p) == /\ disk'.cfg = disk.cfg
                       /\ disk.ensemble = job[p].seen /\ disk.ensemble.there
                          => CarriedOver(disk.ensemble, disk'.ensemble)
           Saves(p) == /\ job[p].kind = "form" /\ job[p].at = "rename" /\ job'[p].at = "idle"
                       /\ disk.state = "whole" /\ disk = job[p].read
<1>1. ASSUME IInv, [Next]_vars, NEW p \in Programs, Saves(p)
      PROVE  Keeps(p)
  <2>1. JobOK(job[p]) /\ disk.ensemble \in Blocks
    BY <1>1 DEF IInv, FileOK
  <2>2. CASE Rename(p)
    <3>1. disk' = Whole(job[p].cfg, job[p].ext)
      BY <2>2 DEF Rename
    <3>2. PICK form \in Forms : job[p].ext = MergeHiddenFields(BuildExtFromForm(form), job[p].seen)
      BY <1>1, <2>1 DEF JobOK
    <3>3. disk'.cfg = disk.cfg
      BY <1>1, <2>1, <3>1 DEF JobOK, Whole
    <3>4. ASSUME disk.ensemble = job[p].seen, disk.ensemble.there
          PROVE  CarriedOver(disk.ensemble, disk'.ensemble)
      BY <2>1, <3>1, <3>2, <3>4, MergeOK DEF Whole
    <3> QED
      BY <3>3, <3>4
  <2>3. CASE Crash(p)
    <3>1. disk' = disk
      BY <1>1, <2>3 DEF Crash
    <3>2. CarriedOver(disk.ensemble, disk.ensemble)
      BY <2>1 DEF CarriedOver, Blocks
    <3> QED
      BY <3>1, <3>2
  <2> QED
    BY <1>1, <2>2, <2>3, WhoRenames
<1>2. IInv /\ [Next]_vars => [\A p \in Programs : Saves(p) => Keeps(p)]_vars
  BY <1>1
<1> QED
  BY <1>2, Invariant, PTL DEF Spec, FormSaveCarriesOver
===============================================================================
