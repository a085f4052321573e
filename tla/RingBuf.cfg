SPECIFICATION Spec
CONSTANTS
  w1 = w1
  w2 = w2
  wi = wi
  r1 = r1
  ri = ri
  Writers = {w1, w2, wi}
  Readers = {r1, ri}
  ISRs = {wi, ri}
  Setups <- InUseSetups
  MaxSends = 4
INVARIANTS TypeOK AssertsHold
PROPERTIES ImplementsFifo ReaderWoken SendReturns
CHECK_DEADLOCK FALSE
