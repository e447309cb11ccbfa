CONSTANTS
  Structs <- MCStructs
  Presets <- MCPresets
  Environments <- MCEnvironments
  InFile <- MCInFile
SPECIFICATION Spec
INVARIANTS TypeOK EverySettingIsSettable RunsAsConfigured
CHECK_DEADLOCK FALSE
