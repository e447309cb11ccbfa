CONSTANTS
  Structs <- MCStructs
  Presets <- MCPresets
  Environments <- MCManifests
  InFile = {}
SPECIFICATION Spec
INVARIANT DeployedIsRead
CHECK_DEADLOCK FALSE
