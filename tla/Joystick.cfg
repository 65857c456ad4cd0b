\* A wheel and its host: what the host learns, which reports are sent and which are lost.
SPECIFICATION Spec
CONSTANTS
  Buttons <- MCButtons
  RowPins <- MCRowPins
  FrameMod = 3
  ByteBase = 3
  IdleDefault = 3
  IdleRequests = {0}
INVARIANTS TypeOK
PROPERTIES HostLearns HeldButtonRests RepeatsNearIdle ReportsAreTold
