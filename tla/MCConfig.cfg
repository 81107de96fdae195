SPECIFICATION Spec
CONSTANTS
  Presets = {"pa", "pb"}
  CustomNames = {"c1"}
  PresetModels <- MCPresetModels
  NewModel = "m9"
  ScannerNames = {"s1", "s2"}
  TypedNames = {"c1"}
  EnvKeys = {"pb"}
  Programs = {p1, p2}
  InitialDisks <- MCInitialDisks
  Env <- MCEnv
  MaxStarts = 2
  MaxCrashes = 1
SYMMETRY Symmetry
INVARIANTS
  TypeOK
  KeysStayHome
PROPERTIES
  ConfirmedIsResolved
  FormSaveCarriesOver
  SaveNeverTears
CHECK_DEADLOCK FALSE
