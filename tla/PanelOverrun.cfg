\* The second row after a press of the second button.
SPECIFICATION Spec
CONSTANTS
  Words <- RowWords
  HostEntries <- RowEntries
  Changes <- RowChanges
INVARIANTS SecondRowReads
