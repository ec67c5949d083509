SPECIFICATION Spec
CONSTANTS
  c1 = c1
  Cpus = {c1, c2}
  Nil = Nil
  Starts <- Two
  NTasks <- Few
  MaxQueue <- Short
INVARIANT DroppedIsGone
