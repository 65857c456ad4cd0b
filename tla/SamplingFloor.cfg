\* Silence in the middle of the converter's range.
SPECIFICATION Spec
CONSTANTS
  Sounds <- MCSounds
INVARIANTS FloorIsAverage
