----------------------------- MODULE ConfigStore -----------------------------
(***************************************************************************)
(* The programs that read, change and write the one configuration file,    *)
(* without a lock: `ocr config set`, the two dialogs, `ocr config set      *)
(* ensemble.*` and the form of the web page. The first two truncate the    *)
(* file and write it (saveConfig); the others write a new file and rename  *)
(* it over the old one (configstore.writeRaw).                             *)
(*                                                                         *)
(* A dialog does not look at the file between its start and its save, so   *)
(* the others are not interleaved with its keys, only with its save; and   *)
(* it is opened while no other is at work: with two programs, one that had *)
(* read the file before may as well read it when the dialog is closed.     *)
(***************************************************************************)
EXTENDS ProviderDialog

CONSTANTS
  Programs,      \* the programs that run at the same time
  InitialDisks,  \* files to start with
  Env,           \* the environment that reviews run in
  MaxStarts,     \* bound: programs started
  MaxCrashes     \* bound: programs killed

(* In a file of a provider configured before, every key is the provider's own. *)
AtHome(cfg) ==
  \A s \in {"providers", "custom"} : \A n \in DOMAIN cfg[s] : cfg[s][n].key \in {"", n}

FileOK(file) ==
  /\ file \in [state : {"missing", "empty", "cut", "whole"}, cfg : {file.cfg}, ensemble : Blocks]
  /\ ConfigOK(file.cfg)

ASSUME DisksAssumption ==
  \A d \in InitialDisks : FileOK(d) /\ AtHome(d.cfg)
ASSUME BoundsAssumption == MaxStarts \in Nat /\ MaxCrashes \in Nat

VARIABLES disk, job, starts, crashes
vars == <<ui, disk, job, starts, crashes>>

NoAnswer == [section |-> "none"]
NoFile   == [state |-> "missing", cfg |-> NoConfig, ensemble |-> NoEnsemble]
Emptied  == [NoFile EXCEPT !.state = "empty"]
Whole(cfg, ensemble) == [state |-> "whole", cfg |-> cfg, ensemble |-> ensemble]

(* Of a program: what it will write; mixed: the file it emptied holds what
   another wrote since; lost: the file it emptied was renamed away. seen and
   read are what the file held at its two loads, kept for the properties. *)
Idle == [kind |-> "none", at |-> "idle", cfg |-> NoConfig, ext |-> NoEnsemble,
         answer |-> NoAnswer, mixed |-> FALSE, lost |-> FALSE,
         seen |-> NoEnsemble, read |-> NoFile]

Init ==
  /\ disk \in InitialDisks
  /\ ui = Closed
  /\ job = [p \in Programs |-> Idle]
  /\ starts = 0 /\ crashes = 0

Starting(p) ==
  /\ ui.at = "closed" /\ job[p].kind = "none" /\ starts < MaxStarts
  /\ starts' = starts + 1
  /\ UNCHANGED <<disk, crashes>>

Step(p, j) == job' = [job EXCEPT ![p] = j]

AloneAtWork == \A p \in Programs : job[p].kind = "none"

(* loadOrCreateConfig: a missing file is an empty configuration, an empty or
   cut one an error. *)
Readable == disk.state \in {"missing", "whole"}

StartSet(p) ==
  /\ Starting(p)
  /\ Readable
  /\ \E cfg \in SetConfigValues(disk.cfg) : Step(p, [Idle EXCEPT !.kind = "set", !.at = "save", !.cfg = cfg])
  /\ UNCHANGED ui

RunConfigProvider(p) ==
  /\ Starting(p) /\ AloneAtWork
  /\ Readable
  /\ ui' = NewProviderTUI(disk.cfg)
  /\ Step(p, [Idle EXCEPT !.kind = "provider", !.at = "asks", !.cfg = disk.cfg])

RunConfigModel(p) ==
  /\ Starting(p) /\ AloneAtWork
  /\ Readable
  /\ disk.cfg.provider # ""
  /\ disk.cfg.provider \in Presets \cup DOMAIN disk.cfg.custom
  /\ ui' = NewModelTUI(disk.cfg)
  /\ Step(p, [Idle EXCEPT !.kind = "model", !.at = "asks", !.cfg = disk.cfg])

Keys == DialogStep /\ UNCHANGED <<disk, job, starts, crashes>>

(* The dialog is over: nothing to save, or the configuration it was opened
   with, changed by the answer. *)
DialogEnds(p) ==
  /\ job[p].at = "asks" /\ ui.at \in {"cancelled", "confirmed", "picked"}
  /\ LET old == job[p].cfg IN
     \/ /\ \/ ui.at = "cancelled"
           \/ ui.at = "confirmed" /\ Refused(old, Answer, EnvKeys)
           \/ ui.at = "picked" /\ PickedModel = ""
        /\ Step(p, Idle)
     \/ /\ ui.at = "confirmed" /\ ~Refused(old, Answer, EnvKeys)
        /\ Step(p, [job[p] EXCEPT
                     !.at = "save", !.answer = Answer,
                     !.cfg = IF Answer.section = "manual" THEN ApplyManual(old, Answer)
                             ELSE ApplyProvider(old, Answer)])
     \/ /\ ui.at = "picked" /\ PickedModel # ""
        /\ Step(p, [job[p] EXCEPT
                     !.at = "save", !.cfg = ApplyModel(old, PickedModel),
                     !.answer = [section |-> "model", provider |-> old.provider,
                                 model |-> PickedModel, key |-> ""]])
  /\ ui' = Closed
  /\ UNCHANGED <<disk, starts, crashes>>

-------------------------------------------------------------------------------
(* saveConfig: os.WriteFile empties the file, then writes it. The struct has
   no ensemble block. Two writers of one file may leave a mixture, and a writer
   whose file was renamed away writes to no file at all. *)
Truncate(p) ==
  /\ ui.at = "closed" /\ job[p].at = "save"
  /\ disk' = Emptied
  /\ job' = [q \in Programs |-> IF q = p THEN [job[q] EXCEPT !.at = "write"]
                                ELSE [job[q] EXCEPT !.mixed = @ /\ job[q].lost]]
  /\ UNCHANGED <<ui, starts, crashes>>

WriteRest(p) ==
  /\ ui.at = "closed" /\ job[p].at = "write"
  /\ IF job[p].lost THEN UNCHANGED disk
     ELSE \/ disk' = Whole(job[p].cfg, NoEnsemble)
          \/ job[p].mixed /\ disk' = [Emptied EXCEPT !.state = "cut"]
  /\ job' = [q \in Programs |->
               IF q = p THEN Idle
               ELSE [job[q] EXCEPT !.mixed = @ \/ (job[q].at = "write" /\ ~job[q].lost /\ ~job[p].lost)]]
  /\ UNCHANGED <<ui, starts, crashes>>

(* A program is killed; a write that is under way may have got half way. *)
Crash(p) ==
  /\ ui.at = "closed" /\ job[p].kind # "none" /\ crashes < MaxCrashes
  /\ crashes' = crashes + 1
  /\ \/ UNCHANGED disk
     \/ /\ job[p].at = "write" /\ ~job[p].lost
        /\ disk' = [Emptied EXCEPT !.state = "cut"]
  /\ job' = [job EXCEPT ![p] = Idle]
  /\ UNCHANGED <<ui, starts>>

-------------------------------------------------------------------------------
(* LoadAndorra: a missing and an empty file have no block, a cut one is an
   error. SaveAndorra reads the file again for all it does not own. *)
StartSetEnsemble(p) ==
  /\ Starting(p)
  /\ disk.state # "cut"
  /\ \E ext \in SetEnsembleValues(disk.ensemble) : Step(p, [Idle EXCEPT !.kind = "ensemble", !.at = "merge", !.ext = ext])
  /\ UNCHANGED ui

HandleEnsembleSubmit(p) ==
  /\ Starting(p)
  /\ disk.state # "cut"
  /\ \E form \in Forms :
       LET ext == MergeHiddenFields(BuildExtFromForm(form), disk.ensemble)
       IN  Valid(ext) /\ Step(p, [Idle EXCEPT !.kind = "form", !.at = "merge", !.ext = ext,
                                                !.seen = disk.ensemble])
  /\ UNCHANGED ui

ReloadDropsTheRest(p) ==  \* mutant: only the ensemble block is written
  /\ ui.at = "closed" /\ job[p].at = "merge"
  /\ job' = [job EXCEPT ![p] = IF disk.state = "cut" THEN Idle
                               ELSE [@ EXCEPT !.at = "rename", !.read = disk]]
  /\ UNCHANGED <<ui, disk, starts, crashes>>
Reload(p) ==
  /\ ui.at = "closed" /\ job[p].at = "merge"
  /\ job' = [job EXCEPT ![p] = IF disk.state = "cut" THEN Idle
                               ELSE [@ EXCEPT !.at = "rename", !.cfg = disk.cfg, !.read = disk]]
  /\ UNCHANGED <<ui, disk, starts, crashes>>

RenameInPlace(p) ==  \* mutant: the file itself is written, and may be cut short
  /\ ui.at = "closed" /\ job[p].at = "rename"
  /\ \/ disk' = Whole(job[p].cfg, job[p].ext)
     \/ crashes < MaxCrashes /\ disk' = [Emptied EXCEPT !.state = "cut"]
  /\ job' = [job EXCEPT ![p] = Idle]
  /\ UNCHANGED <<ui, starts, crashes>>
Rename(p) ==
  /\ ui.at = "closed" /\ job[p].at = "rename"
  /\ disk' = Whole(job[p].cfg, job[p].ext)
  /\ job' = [q \in Programs |-> IF q = p THEN Idle
                                ELSE [job[q] EXCEPT !.lost = @ \/ job[q].at = "write"]]
  /\ UNCHANGED <<ui, starts, crashes>>

Next ==
  \/ Keys
  \/ \E p \in Programs :
       \/ StartSet(p) \/ RunConfigProvider(p) \/ RunConfigModel(p) \/ DialogEnds(p)
       \/ Truncate(p) \/ WriteRest(p) \/ Crash(p)
       \/ StartSetEnsemble(p) \/ HandleEnsembleSubmit(p) \/ Reload(p) \/ Rename(p)

Spec == Init /\ [][Next]_vars

-------------------------------------------------------------------------------
(* The file, the dialog and what each program is about to write are well formed. *)
TypeOK ==
  /\ FileOK(disk)
  /\ DialogOK
  /\ \A p \in Programs :
       /\ job[p].at \in {"idle", "asks", "save", "write", "merge", "rename"}
       /\ ConfigOK(job[p].cfg) /\ job[p].ext \in Blocks
  /\ starts \in 0..MaxStarts /\ crashes \in 0..MaxCrashes

(* The key of one provider is never stored with another, whatever providers a
   user looked at, typed into and left again before confirming
   (provider_tui.go loadExistingAPIKey, result). *)
KeysStayHome == AtHome(disk.cfg) /\ \A p \in Programs : AtHome(job[p].cfg)

(* What the user confirmed is what the next command asks: when a dialog has
   saved its answer and the entry has all an endpoint needs, the file resolves to
   the confirmed provider with the confirmed model and key (provider_cmd.go
   apply*Config against llm/resolver.go). A custom provider that has the name of
   a preset is left out: it is stored in one section and looked up in the other.
   The shell of that command sets no endpoint, and a key only if the user left
   the key to it: README.md:193 and :523 let the environment go before the file,
   resolver.go:80-85 asks the file first, and the property takes no side. The
   review asks the same endpoint unless the file still has a global model, which
   it would ask instead of the entry's (EntryModelTakesPrecedence). *)
Complete(cfg, r) ==
  IF r.section = "manual" THEN r.key # ""
  ELSE LET entry == EntryOf(cfg, Section(r.provider), r.provider)
       IN  /\ r.section = "custom" => r.provider \notin Presets
           /\ entry.key # "" \/ r.provider \in Env.keys
           /\ r.provider \in Presets \/ (entry.url # "" /\ entry.protocol # "")
Shell(r) == [keys |-> {name \in Env.keys : r.key = ""}, ocr |-> FALSE, cc |-> FALSE, rc |-> FALSE]
Resolved(endpoint, r) ==
  /\ endpoint.status = "found"
  /\ endpoint.source = IF r.section = "manual" THEN "llm" ELSE r.provider
  /\ endpoint.model = r.model
  /\ r.key # "" => endpoint.key = r.key
ConfirmedIsResolved ==
  [][\A p \in Programs : LET r == job[p].answer IN
       /\ job[p].at = "write" /\ r # NoAnswer
       /\ disk' = Whole(job[p].cfg, NoEnsemble)
       /\ Complete(job[p].cfg, r)
       => /\ Resolved(ResolveEndpoint(disk', Shell(r), ""), r)
          /\ disk'.cfg.model = "" => Resolved(ReviewEndpoint(disk', Shell(r)), r)]_vars

(* A save of the form that nobody overtook keeps the provider half of the file
   as its second read found it, and gives the block the fields that
   mergeHiddenFields carries over, each to its own scanner, whatever was renamed,
   moved, added or removed: enabled, temperature, max_tokens and prompt_tag of a
   scanner whose name the block had once, temperature and max_tokens of the
   arbiter, and the two guards of dedup (server.go:159-224, configstore
   SaveAndorra). It is not all that the form does not show: every save resets
   exhaustive and timeout of the scanners and the panel's serial, against
   server.go:148-150, and in a file that had no block the first threshold
   switches the guards off, against server.go:210-214, because the merge returns
   at server.go:175. *)
CarriedOver(old, new) ==
  /\ \A i \in DOMAIN old.scanners, j \in DOMAIN new.scanners :
       (/\ old.scanners[i].name = new.scanners[j].name
        /\ \A k \in DOMAIN old.scanners \ {i} : old.scanners[k].name # old.scanners[i].name)
       => /\ old.scanners[i].enabled = new.scanners[j].enabled
          /\ old.scanners[i].hidden = new.scanners[j].hidden
  /\ old.arbiter.there /\ new.arbiter.there => old.arbiter.hidden = new.arbiter.hidden
  /\ new.dedup.there => new.dedup.guards = (old.dedup.there => old.dedup.guards)
FormSaveCarriesOver ==
  [][\A p \in Programs :
       /\ job[p].kind = "form" /\ job[p].at = "rename" /\ job'[p].at = "idle"
       /\ disk.state = "whole" /\ disk = job[p].read
       => /\ disk'.cfg = disk.cfg
          /\ disk.ensemble = job[p].seen /\ disk.ensemble.there
             => CarriedOver(disk.ensemble, disk'.ensemble)]_vars

(* A whole file becomes an unreadable one, or loses its ensemble block, only in
   a save of the provider half: the other writers are all or nothing, even when
   they are killed (configstore.go writeRaw). *)
SaveNeverTears ==
  [][disk.state = "whole" /\ (disk'.state # "whole" \/ (disk.ensemble.there /\ ~disk'.ensemble.there))
     => \E p \in Programs : job[p].at \in {"save", "write"} /\ job'[p].at # job[p].at]_vars

(* README.md, about the global model: "Provider-specific
   `providers.<name>.model` takes precedence." The review of a provider in use
   whose entry has a model asks that model (andorra_review.go, the promotion
   of a provider and a global model to an ensemble of one scanner). *)
EntryModelTakesPrecedence ==
  LET name  == disk.cfg.provider
      entry == EntryOf(disk.cfg, Section(name), name)
  IN  (/\ disk.state = "whole" /\ name # "" /\ EnabledScanners(disk.ensemble) = {}
       /\ entry.model # "" /\ ReviewEndpoint(disk, Env).status = "found")
      => ReviewEndpoint(disk, Env).model = entry.model
===============================================================================
