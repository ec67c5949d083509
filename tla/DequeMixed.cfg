SPECIFICATION Spec
CONSTANTS
  c1 = c1
  c2 = c2
  Cpus = {c1, c2}
  Tasks = {1, 2, 3}
  Bufs = {b1, b2, b3, b4}
  Nil = Nil
  Flavor <- Mixed
  MIN_CAP = 2
  MAX_BATCH = 2
  MaxBack <- BackThree
  Ops <- BothSteal
CONSTRAINT Bounded
SYMMETRY Symmetry
INVARIANT SafeDeref
PROPERTY Implements
