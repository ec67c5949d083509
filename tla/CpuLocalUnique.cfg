SPECIFICATION Spec
CONSTANTS
  Nil = Nil
  MaxIrqs = 5
CHECK_DEADLOCK FALSE
INVARIANT UniqueAccess
