------------------------------- MODULE MCConfig -------------------------------
(* Two presets that share a model, one of them with its key in the environment,
   one other name, two programs. *)
EXTENDS ConfigStore

MCPresetModels == [x \in {"pa", "pb"} |-> IF x = "pa" THEN {"m1", "m2"} ELSE {"m2"}]
MCEnv == [keys |-> {"pb"}, ocr |-> TRUE, cc |-> FALSE, rc |-> FALSE]

Symmetry == Permutations(Programs)

WithKey(name, model) == [NoEntry EXCEPT !.key = name, !.model = model]

(* Files that the programs, setup.html and a hand may have left. *)
TwoKeys == [NoConfig EXCEPT !.provider = "pa",
              !.providers = ("pa" :> WithKey("pa", "m1")) @@ ("pb" :> WithKey("pb", "m2"))]
ByPage  == [NoConfig EXCEPT !.provider = "pa", !.model = "m1",
              !.providers = ("pa" :> [WithKey("pa", "") EXCEPT !.models = {"m1", "m2"}])]
Custom  == [NoConfig EXCEPT !.provider = "c1",
              !.custom = ("c1" :> [key |-> "c1", url |-> "c1", protocol |-> "openai",
                                   model |-> "m9", models |-> {"m9", "m1"}])]
Legacy  == [NoConfig EXCEPT !.llm = [url |-> "manual", token |-> "manual", model |-> "m9"]]
Panel   == [there |-> TRUE,
            scanners |-> <<Scanner("s1", "no", TRUE, TRUE), Scanner("s2", "", TRUE, FALSE)>>,
            arbiter |-> [there |-> TRUE, hidden |-> TRUE],
            dedup |-> [there |-> TRUE, threshold |-> TRUE, guards |-> FALSE]]

MCInitialDisks == {NoFile, Whole(TwoKeys, NoEnsemble), Whole(ByPage, NoEnsemble),
                   Whole(Custom, Panel), Whole(Legacy, NoEnsemble)}
MCPageDisks == {Whole(ByPage, NoEnsemble)}
===============================================================================
