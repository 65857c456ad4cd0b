\* The whole loop: a wheel at rest, and presses that are seen.
SPECIFICATION Spec
CONSTANTS
  Buttons <- MCButtons
  RowPins <- MCRowPins
  FrameMod = 2
  ByteBase = 2
  IdleDefault = 1
  IdleRequests = {1}
  Words <- MCWords
  HostEntries <- MCEntries
PROPERTIES RowsRest PressesRotate LostOnlyToGetReport
