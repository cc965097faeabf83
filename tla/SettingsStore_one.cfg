\* One game, three settings, every call able to fail, kills and power losses.
CONSTANTS
  g1 = g1
  Games = {g1}
  v1 = v1
  v2 = v2
  v3 = v3
  Values = {v1, v2, v3}
  Default = v1
  i1 = i1
  i2 = i2
  i3 = i3
  Inodes = {i1, i2, i3}
  None = None
  Torn = Torn
  Bad = Bad
SPECIFICATION Spec
INVARIANTS TargetWhole
PROPERTIES ActsAsRegister
