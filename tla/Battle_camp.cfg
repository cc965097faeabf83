CONSTANTS
  Rows = 4
  None = None
  StartKind <- Camp
  Waves <- TwoWaves
  Seam = 3
  Capacity = 2
  MineTicks = 2
  Hits <- TwoShots
  Cooldown = 2
  LastTick = 2
  MaxGen = 2
SPECIFICATION Spec
INVARIANTS TypeOK EnemyBooks NoOrderOutlivesItsSubject
PROPERTY CargoAccounted
