SPECIFICATION FairSpec
CONSTANTS
  Users = {u1, u2, u3}
  Kinds = {"lock", "spin", "try"}
  Nil = Nil
INVARIANTS TypeOK MutualExclusion NoWakeupLost
PROPERTY WaiterWakes
