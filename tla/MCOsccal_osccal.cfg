SPECIFICATION Spec
CONSTANTS
  Half <- mcHalf
  Curves <- mcCurves
  targetValue = 60
  Factory = 9
INVARIANTS
  ResultIsBest
  StoredIsUsed
PROPERTIES
  CalibrationEnds
