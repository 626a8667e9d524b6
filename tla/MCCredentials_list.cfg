SPECIFICATION Spec
CONSTANTS
  Lists <- mcLists
  Size <- mcSize
  PageSize = 128
  CipherKey <- mcCipherKey
  PositionSize = 256
  MaxSearch = 5
INVARIANTS
  SpellsCredential
  SearchIsShort
PROPERTIES
  UpUndoesDown
