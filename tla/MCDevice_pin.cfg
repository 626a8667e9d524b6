SPECIFICATION Spec
CONSTANTS
  PacketSize = 2
  PageSize = 4
  AddrSpace = 12
  CredBase = 1
  LockHash = 0
  HashSize = 4
  KeyboardLUT = 4
  KeyboardSize = 2
  DefaultHash <- mcDefaultHash
  InfoData <- mcInfoData
  RamBlocks <- mcRamBlocks
  Flash0 <- mcFlash0
  Eeprom0 <- mcEeprom0
  PinSize = 1
  Keys = 3
  Retries = 1
  Hash <- mcHash
  Packets <- mcPinPackets
PROPERTIES
  ImplementsSession
  NewPinClosesMenus
