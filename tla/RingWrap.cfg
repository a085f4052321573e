SPECIFICATION Spec
CONSTANTS
  w1 = w1
  w2 = w2
  wi = wi
  r1 = r1
  ri = ri
  Writers = {w1, w2, wi}
  Readers = {r1, ri}
  ISRs = {wi, ri}
  Setups <- WrapSetups
  MaxSends = 4
PROPERTY NoOvertaking
CHECK_DEADLOCK FALSE
