SPECIFICATION FairSpec
CONSTANTS
  a = a
  b = b
  d = d
  Tasks = {a, d}
  NoOne = NoOne
  Affinity <- MCAffinity
  MaxCalls = 2
  MaxChunks = 2
  Sources = {"ram"}
INVARIANTS TypeOK ChipAlone NothingFromFlash AssertsHold
PROPERTIES HandoverKept EveryCallEnds
