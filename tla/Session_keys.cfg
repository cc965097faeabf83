SPECIFICATION Spec
CONSTANTS
  Levels = {"low", "high"}
  Nothing = Nothing
INVARIANT PanFollowsKeys
CHECK_DEADLOCK FALSE
