SPECIFICATION Spec
CONSTANTS
  None = None
  Writers = {w1, w2}
  Patient = {w1}
  Sizes = {1, 3}
  Size = 5
  IdMod = 8
  Syncs = TRUE
  MaxCalls = 4
  MaxConnects = 1
INVARIANTS TypeOK NothingSkipped MarkedIsComplete ConnectionKept
PROPERTIES EveryCallReturns
CHECK_DEADLOCK FALSE
