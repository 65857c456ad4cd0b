\* The rows that the buttons rotate, the gear and the LEDs.
SPECIFICATION Spec
CONSTANTS
  Words <- RowWords
  HostEntries <- RowEntries
  Changes <- RowChanges
INVARIANTS TypeOK IInv HeadersMatch OutputsMatch OnlySecondRowMoves
