SPECIFICATION Spec
CONSTANTS
  Identities = {"a", "b"}
  None = None
  MaxDefects = 2
INVARIANTS TypeOK ReadyIsRestored MergeIsEarned
