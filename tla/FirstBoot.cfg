SPECIFICATION Spec
CONSTANTS
  Partitions <- Table
  Kind <- Kinds
  Sectors <- SectorCounts
  Image <- ImageSectors
  Setups <- AllSetups
  Images <- FactoryAndSlot
  CntWidth = 4
  MaxCuts = 2
  MaxErrors = 1
  MaxFlashes = 2
INVARIANTS TypeOK EncryptedOnce AppFindsItsData KeysProtected DigestGoesWithBootloader
PROPERTIES ComesUp
CHECK_DEADLOCK FALSE
