SPECIFICATION Spec
CONSTANTS
  PinSize = 2
  Keys = 3
  Retries = 2
  AddrSpace = 4
  LockHash = 1
  HashSize = 2
  Hash <- mcHash
  DefaultHash <- mcDefaultHash
  Eeprom0 <- mcEeprom0
  Memories <- mcMemories
INVARIANTS
  TypeOK
  PinIsEntry
  KeyIsVerifiedPin
  LedTellsMenu
PROPERTIES
  ResetIsEarned
  EraseRecovers
