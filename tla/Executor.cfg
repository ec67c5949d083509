SPECIFICATION FairSpec
CONSTANTS
  c1 = c1
  Cpus = {c1, c2}
  Nil = Nil
  Starts <- OneOrTwo
  NTasks <- Few
  MaxQueue <- Short
INVARIANTS TypeOK NoTaskForgotten OnePoller
PROPERTIES ReadyRuns InterruptsReturn
