\* Two instances of the game saving into one directory.
CONSTANTS
  g1 = g1
  g2 = g2
  Games = {g1, g2}
  v1 = v1
  v2 = v2
  v3 = v3
  Values = {v1, v2, v3}
  Default = v1
  i1 = i1
  i2 = i2
  i3 = i3
  i4 = i4
  i5 = i5
  Inodes = {i1, i2, i3, i4, i5}
  None = None
  Torn = Torn
  Bad = Bad
SPECIFICATION Spec

INVARIANTS TargetWhole
