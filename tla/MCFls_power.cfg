SPECIFICATION Spec
CONSTANTS
  PageSize = 3
  AddrSpace = 6
  ByteSize = 16
  Writes <- mcWrites
  Flash0 <- mcFlash0
INVARIANTS
  TypeOK
  ErasedIsCopied
PROPERTIES
  ImplementsStorage
  WriteReturns
