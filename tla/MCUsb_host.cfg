SPECIFICATION Spec
CONSTANTS
  Requests <- mcRequests
  Customs = 2
  Reports = 2
  MaxLost = 1
  MaxResets = 2
INVARIANTS
  TypeOK
  AddressAgrees
PROPERTIES
  TransferServed
  ReportsInOrder
  TransferEnds
