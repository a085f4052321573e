SPECIFICATION Spec
CONSTANTS
  a = a
  b = b
  Null = Null
  Reserved = Reserved
  NoTrans = NoTrans
  Devices = {a, b}
  queue_size <- QueueSizes
  NO_CS = 2
  Setups <- InUseSetups
  Results = {"ok"}
  MaxTrans = 3
INVARIANTS DeviceReady RightDevice InOrderOnce
PROPERTIES EveryTransEnds
CHECK_DEADLOCK FALSE
