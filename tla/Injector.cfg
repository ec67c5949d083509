SPECIFICATION FairSpec
CONSTANTS
  p1 = p1
  p2 = p2
  s1 = s1
  s2 = s2
  Pushers = {p1}
  Stealers = {s1, s2}
  Ops = {"steal", "batchpop"}
  Flavor <- TwoFlavors
  LAP = 4
  MAX_BATCH = 2
  NTasks = 4
  Nil = Nil
INVARIANTS TypeOK SafeBlocks LenExact NothingLeaks
PROPERTIES Implements CallsReturn
