--------------------------- MODULE ProviderDialog ---------------------------
(***************************************************************************)
(* The dialogs of `ocr config provider` and `ocr config model`             *)
(* (cmd/opencodereview/provider_tui.go), key by key. The dialog works on   *)
(* the configuration it was opened with. "at" is the step together with    *)
(* the flags customModel, creatingCustom and inManualForm; cursors are the *)
(* item they are on, and one move stands for several of the arrow keys.    *)
(* Text inputs hold nothing or one of a few values; the optional list of   *)
(* models and the header of the form are left out, their steps are not.    *)
(***************************************************************************)
EXTENDS Endpoint

CONSTANTS
  TypedNames,  \* bound: names that a user types into the form
  EnvKeys      \* presets whose key is in the environment

ASSUME TypedAssumption == TypedNames \subseteq Names

VARIABLE ui

(* The steps of the two forms: where enter and esc lead. *)
FormEnter == [cpName |-> "cpProtocol", cpProtocol |-> "cpBaseURL", cpBaseURL |-> "cpModel",
              cpModel |-> "cpModels", cpModels |-> "cpAPIKey", cpAPIKey |-> "cpAuthHeader",
              cpAuthHeader |-> "confirmed"]
FormEsc   == [cpName |-> "provider", cpProtocol |-> "cpName", cpBaseURL |-> "cpProtocol",
              cpModel |-> "cpBaseURL", cpModels |-> "cpModel", cpAPIKey |-> "cpModels",
              cpAuthHeader |-> "cpAPIKey"]
ManualEnter == [manualURL |-> "manualModel", manualModel |-> "manualAuthToken",
                manualAuthToken |-> "confirmed"]
ManualEsc   == [manualURL |-> "provider", manualModel |-> "manualURL",
                manualAuthToken |-> "manualModel"]

Closed == [at |-> "closed", tab |-> "official", official |-> "", custom |-> "", cursor |-> "",
           typed |-> "", key |-> "", masked |-> FALSE, original |-> "",
           form |-> [name |-> "", url |-> "", model |-> ""], manual |-> NoLlm, cfg |-> NoConfig]

DialogOK ==
  /\ ui \in
       [at : {"closed", "provider", "model", "modelInput", "key", "pick", "pickInput", "picked",
              "confirmed", "cancelled"}
             \cup DOMAIN FormEnter \cup DOMAIN ManualEnter,
        tab : {"official", "custom", "manual"}, official : {""} \cup Presets,
        custom : {"", "add"} \cup Names, cursor : {"", "other"} \cup Models,
        typed : {""} \cup Models, key : {""} \cup Names, masked : BOOLEAN,
        original : {""} \cup Names,
        form : [name : {""} \cup Names, url : {""} \cup Names, model : {""} \cup Models],
        manual : Llms, cfg : {ui.cfg}]
  /\ ConfigOK(ui.cfg)

(* The provider whose model and key are asked for, and its entry. *)
OnCustom  == ui.tab = "custom"
Selected  == IF OnCustom THEN ui.custom ELSE ui.official
SelSection == IF OnCustom THEN "custom" ELSE "providers"
SelEntry  == EntryOf(ui.cfg, SelSection, Selected)
UiModels  == ModelsOf(ui.cfg, SelSection, Selected)
First(set, last) == IF set = {} THEN last ELSE CHOOSE x \in set : TRUE

(* The tab and the cursors follow the provider in use; the manual form starts
   with the llm block. *)
NewProviderTUI(cfg) ==
  [Closed EXCEPT
    !.at = "provider", !.cfg = cfg, !.manual = IF cfg.llm.url # "" THEN cfg.llm ELSE NoLlm,
    !.tab = CASE cfg.provider \in Presets -> "official"
              [] cfg.provider # ""        -> "custom"
              [] OTHER -> IF cfg.llm.url # "" THEN "manual" ELSE "official",
    !.official = IF cfg.provider \in Presets THEN cfg.provider ELSE First(Presets, ""),
    !.custom = IF cfg.provider \in DOMAIN cfg.custom THEN cfg.provider
               ELSE IF cfg.provider \notin Presets \cup {""} THEN "add"
               ELSE First(DOMAIN cfg.custom, "add")]

Cancel == ui' = [ui EXCEPT !.at = "cancelled"]

(* left, right and tab; up and down *)
SwitchTab ==
  /\ ui.at = "provider"
  /\ \E tab \in {"official", "custom", "manual"} \ {ui.tab} : ui' = [ui EXCEPT !.tab = tab]

MoveCursor ==
  \/ /\ ui.at = "provider" /\ ui.tab = "official"
     /\ \E p \in Presets \ {ui.official} : ui' = [ui EXCEPT !.official = p]
  \/ /\ ui.at = "provider" /\ ui.tab = "custom"
     /\ \E c \in (DOMAIN ui.cfg.custom \cup {"add"}) \ {ui.custom} : ui' = [ui EXCEPT !.custom = c]
  \/ /\ ui.at = "model"
     /\ \E m \in (UiModels \cup {"other"}) \ {ui.cursor} : ui' = [ui EXCEPT !.cursor = m]

(* The cursor on the model of the entry; one that is not listed is the text of
   the item for other models. *)
PrepareModelSelection(current) ==
  IF current = "" THEN [cursor |-> First(UiModels, "other"), typed |-> ""]
  ELSE IF current \in UiModels THEN [cursor |-> current, typed |-> ""]
  ELSE [cursor |-> "other", typed |-> current]

EnterProvider ==
  /\ ui.at = "provider"
  /\ \/ /\ ui.tab = "official" \/ (OnCustom /\ ui.custom # "add")
        /\ LET sel == PrepareModelSelection(SelEntry.model)
           IN  ui' = [ui EXCEPT !.at = "model", !.cursor = sel.cursor, !.typed = sel.typed]
     \/ /\ OnCustom /\ ui.custom = "add"
        /\ ui' = [ui EXCEPT !.at = "cpName", !.form = Closed.form, !.key = "", !.masked = FALSE]
     \/ /\ ui.tab = "manual"
        /\ ui' = [ui EXCEPT !.at = "manualURL"]

(* Opening the key step forgets the key of any provider shown before. *)
KeepsKeyOfBefore ==  \* mutant: the reset at the top of the function is missing
  IF SelEntry.key = "" THEN [key |-> ui.key, masked |-> ui.masked, original |-> ui.original]
  ELSE [key |-> "", masked |-> TRUE, original |-> SelEntry.key]
MaskIsTheKey ==  \* mutant: the asterisks shown for a key count as typed
  [key |-> IF SelEntry.key = "" THEN "" ELSE "****", masked |-> FALSE, original |-> SelEntry.key]
LoadExistingAPIKey ==
  [key |-> "", masked |-> SelEntry.key # "", original |-> SelEntry.key]

AskForKey ==
  LET k == LoadExistingAPIKey
  IN  ui' = [ui EXCEPT !.at = "key", !.key = k.key, !.masked = k.masked, !.original = k.original]

EnterModel ==
  /\ ui.at = "model"
  /\ IF ui.cursor = "other" THEN ui' = [ui EXCEPT !.at = "modelInput"] ELSE AskForKey

UpdateCustomModelInput ==
  /\ ui.at = "modelInput"
  /\ \/ ui' = [ui EXCEPT !.at = "model", !.typed = ""]                  \* esc
     \/ ui.typed # "" /\ AskForKey                                      \* enter
     \/ \E t \in {"", NewModel} : t # ui.typed /\ ui' = [ui EXCEPT !.typed = t]

(* The first key typed over a masked key replaces it. *)
UpdateAPIKeyInput ==
  /\ ui.at = "key"
  /\ \/ ui' = [ui EXCEPT !.at = "model"]                                \* esc
     \/ ui' = [ui EXCEPT !.at = "confirmed"]                            \* enter
     \/ ui' = [ui EXCEPT !.masked = FALSE, !.key = Selected]
     \/ ~ui.masked /\ ui' = [ui EXCEPT !.key = ""]

EscList ==
  /\ ui.at \in {"provider", "model"}
  /\ ui' = [ui EXCEPT !.at = IF ui.at = "model" THEN "provider" ELSE "cancelled"]

(* The forms: enter goes on when a required input is filled, esc goes back. *)
FormFilled ==
  /\ ui.at = "cpName" => ui.form.name # ""
  /\ ui.at = "cpBaseURL" => ui.form.url # ""
  /\ ui.at = "cpModel" => ui.form.model # ""

EnterForm ==
  /\ ui.at \in DOMAIN FormEnter
  /\ FormFilled
  /\ ui' = [ui EXCEPT !.at = FormEnter[ui.at],
                      !.key = IF ui.at = "cpModels" THEN "" ELSE @,
                      !.masked = IF ui.at = "cpModels" THEN FALSE ELSE @]

EscForm ==
  /\ ui.at \in DOMAIN FormEsc
  /\ ui' = [ui EXCEPT !.at = FormEsc[ui.at]]

TypeInForm ==
  \/ /\ ui.at = "cpName"
     /\ \E n \in TypedNames \cup {""} : ui' = [ui EXCEPT !.form.name = n]
  \/ /\ ui.at = "cpBaseURL" /\ ui' = [ui EXCEPT !.form.url = ui.form.name]
  \/ /\ ui.at = "cpModel" /\ ui' = [ui EXCEPT !.form.model = NewModel]
  \/ /\ ui.at = "cpAPIKey" /\ ui' = [ui EXCEPT !.key = ui.form.name]

EnterManual ==
  /\ ui.at \in DOMAIN ManualEnter
  /\ ui.at = "manualURL" => ui.manual.url # ""
  /\ ui.at = "manualModel" => ui.manual.model # ""
  /\ ui' = [ui EXCEPT !.at = ManualEnter[ui.at]]

(* Leaving the form by esc brings back what the configuration says. *)
EscManual ==
  /\ ui.at \in DOMAIN ManualEsc
  /\ ui' = [ui EXCEPT !.at = ManualEsc[ui.at],
                      !.manual = IF ui.at = "manualURL" THEN ui.cfg.llm ELSE @]

TypeInManual ==
  \/ /\ ui.at = "manualURL" /\ ui' = [ui EXCEPT !.manual.url = "manual"]
  \/ /\ ui.at = "manualModel" /\ ui' = [ui EXCEPT !.manual.model = NewModel]
  \/ /\ ui.at = "manualAuthToken"
     /\ \E t \in {"", "manual"} : ui' = [ui EXCEPT !.manual.token = t]

(* What the dialog answers. *)
SelectedModelFromState ==
  IF ui.typed # "" /\ ui.cursor = "other" THEN ui.typed
  ELSE IF ui.cursor \in UiModels THEN ui.cursor ELSE ""

Answer ==
  LET key == IF ui.masked THEN ui.original ELSE ui.key IN
  CASE ui.tab = "manual" ->
         [section |-> "manual", provider |-> "llm", model |-> ui.manual.model, models |-> {},
          key |-> ui.manual.token, url |-> ui.manual.url, protocol |-> ""]
    [] ui.tab = "custom" /\ ui.custom = "add" ->
         [section |-> "custom", provider |-> ui.form.name, model |-> ui.form.model,
          models |-> {ui.form.model}, key |-> ui.key, url |-> ui.form.url, protocol |-> "openai"]
    [] OTHER ->
         LET chosen == SelectedModelFromState
             model  == IF OnCustom /\ chosen = "" THEN SelEntry.model ELSE chosen
         IN  [section |-> SelSection, provider |-> Selected, model |-> model, key |-> key,
              models   |-> IF OnCustom THEN ({model} \cup SelEntry.models) \ {""} ELSE {},
              url      |-> IF OnCustom THEN SelEntry.url ELSE "",
              protocol |-> IF OnCustom THEN SelEntry.protocol ELSE ""]

-------------------------------------------------------------------------------
(* ocr config model: one list, for the provider in use. *)
NewModelTUI(cfg) ==
  LET s       == Section(cfg.provider)
      listed  == ModelsOf(cfg, s, cfg.provider)
      entry   == EntryOf(cfg, s, cfg.provider)
      current == IF entry.model # "" THEN entry.model ELSE cfg.model
  IN  [Closed EXCEPT
        !.at = "pick", !.cfg = cfg,
        !.cursor = IF current = "" THEN First(listed, "other")
                   ELSE IF current \in listed THEN current ELSE "other",
        !.typed = IF current \in listed THEN "" ELSE current]

Listed == ModelsOf(ui.cfg, Section(ui.cfg.provider), ui.cfg.provider)

UpdateModelTUI ==
  \/ /\ ui.at = "pick"
     /\ \/ Cancel
        \/ ui' = [ui EXCEPT !.at = IF ui.cursor = "other" THEN "pickInput" ELSE "picked"]
        \/ \E m \in (Listed \cup {"other"}) \ {ui.cursor} : ui' = [ui EXCEPT !.cursor = m]
  \/ /\ ui.at = "pickInput"
     /\ \/ ui' = [ui EXCEPT !.at = "pick", !.typed = ""]
        \/ ui.typed # "" /\ ui' = [ui EXCEPT !.at = "picked"]
        \/ \E t \in {"", NewModel} : t # ui.typed /\ ui' = [ui EXCEPT !.typed = t]

PickedModel == IF ui.cursor = "other" THEN ui.typed ELSE ui.cursor

(* ctrl+c, not taken while another model is typed *)
Interrupt ==
  /\ ui.at \notin {"closed", "modelInput", "pick", "pickInput", "picked", "confirmed", "cancelled"}
  /\ Cancel

DialogStep ==
  \/ SwitchTab \/ MoveCursor \/ EnterProvider \/ EnterModel \/ UpdateCustomModelInput
  \/ UpdateAPIKeyInput \/ EscList \/ EnterForm \/ EscForm \/ TypeInForm
  \/ EnterManual \/ EscManual \/ TypeInManual \/ UpdateModelTUI \/ Interrupt
===============================================================================
