SPECIFICATION MCSpec
CONSTANTS
  c1 = c1
  c2 = c2
  Cpus = {c1, c2}
  Tasks = {1, 2, 3, 4, 5, 6}
  Bufs = {b1, b2, b3, b4}
  Nil = Nil
  Flavor <- AllLifo
  MIN_CAP = 4
  MAX_BATCH = 3
  MaxBack <- BackFive
  Ops <- OwnerAndThief
CONSTRAINT OneKind
SYMMETRY Symmetry
INVARIANT ExactlyOnce
PROPERTY Implements

