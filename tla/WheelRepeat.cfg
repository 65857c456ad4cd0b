\* An edge that no scan clears in time.
SPECIFICATION Spec
CONSTANTS
  Buttons <- MCButtons
  RowPins <- MCRowPins
  FrameMod = 2
  ByteBase = 2
  IdleDefault = 1
  IdleRequests = {1}
  Words <- MCWords
  HostEntries <- MCEntries
PROPERTIES OncePerPress
