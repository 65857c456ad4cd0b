SPECIFICATION DisplaySpec
CONSTANTS
  Writes <- MCWrites
  Words <- MCWords
  HostEntries <- MCEntries
  Changes <- MCChanges
INVARIANTS ReadingsMatch CleanUntilDisplaced DamageConfined
