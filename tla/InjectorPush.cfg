SPECIFICATION FairSpec
CONSTANTS
  p1 = p1
  p2 = p2
  s1 = s1
  s2 = s2
  Pushers = {p1, p2}
  Stealers = {s1}
  Ops = {"steal", "batch", "batchpop"}
  Flavor <- TwoFlavors
  LAP = 3
  MAX_BATCH = 2
  NTasks = 4
  Nil = Nil
INVARIANT SafeBlocks
PROPERTIES Implements CallsReturn
