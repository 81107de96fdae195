SPECIFICATION Spec
CONSTANTS
  Presets = {"pa", "pb"}
  CustomNames = {"c1"}
  PresetModels <- MCPresetModels
  NewModel = "m9"
  ScannerNames = {"s1"}
  TypedNames = {"c1"}
  EnvKeys = {"pb"}
  Programs = {p1}
  InitialDisks <- MCPageDisks
  Env <- MCEnv
  MaxStarts = 2
  MaxCrashes = 0
INVARIANTS
  EntryModelTakesPrecedence
CHECK_DEADLOCK FALSE
