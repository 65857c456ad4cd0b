SPECIFICATION Spec
CONSTANTS
  Sounds <- MCSounds
INVARIANTS TypeOK FloorBelowMiddle DivisorPositive
PROPERTIES OutputExact JumpsOnlyAtLimits
