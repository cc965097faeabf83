\* Two clones: the panic of one tick is consumed by the other clone's.
CONSTANTS
  w1 = w1
  c1 = c1
  c2 = c2
  Workers = {w1}
  Callers = {c1, c2}
  Nobody = Nobody
  MaxTicks = 2
SPECIFICATION Spec
INVARIANTS PanicReachesItsCaller
CHECK_DEADLOCK FALSE
