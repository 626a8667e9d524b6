SPECIFICATION Spec
CONSTANTS
  STRBUF_SIZE = 2
  CountSize = 8
  InitDebounce = 1
  IdleTimeout = 1
  BlockSize = 3
  Positions = 16
  Flash <- mcFlash
  Names <- mcNames
  First = "one"
  PinStr <- mcPinStr
  Entries <- mcEntries
  Cred <- mcCred
  Hashed <- mcHashed
  MaxRequests = 5
INVARIANTS
  TypeOK
  SettledShowsLast
  CountIsShown
PROPERTY
  TypingEnds
