\* Two slots, three destinations, a wall that comes and goes, two movers, epochs that wrap.
CONSTANTS
  a = a
  wall = wall
  rock = rock
  m1 = m1
  m2 = m2
  OffGrid = OffGrid
  None = None
  SlotCount = 2
  EpochMod = 4
  Cells = {a, wall, rock}
  Masks = {{}, {wall}}
  Movers = {m1, m2}
  MaxClock = 5
SPECIFICATION Spec
SYMMETRY Symmetry
INVARIANTS TypeOK CurrentFieldIsRight CurrentIsSameBuild NoMoverMisled
PROPERTIES KeepsTheMostRecent
