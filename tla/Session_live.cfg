SPECIFICATION Spec
CONSTANTS
  Levels = {"low", "high"}
  Nothing = Nothing
INVARIANTS TypeOK RuntimeIsAsConfigured MenuPauses HashIsOfTheLastFrame FaultsEndTheRun
CHECK_DEADLOCK FALSE
