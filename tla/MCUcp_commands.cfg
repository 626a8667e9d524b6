SPECIFICATION Spec
CONSTANTS
  PacketSize = 2
  PageSize = 4
  AddrSpace = 16
  CredBase = 1
  LockHash = 2
  HashSize = 4
  KeyboardLUT = 8
  KeyboardSize = 2
  DefaultHash <- mcDefaultHash
  InfoData <- mcInfoData
  Packets <- mcCommandPackets
  RamBlocks <- mcRamBlocks
  Flash0 <- mcFlash0
  Eeprom0 <- mcEeprom0
INVARIANTS
  TypeOK
  TransferExact
