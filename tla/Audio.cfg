SPECIFICATION Spec
CONSTANTS
  Outputs <- MCOutputs
  Rates <- MCRates
  OfferedRate = 5
  Ticks = 16
  ByteBase = 4
  TimerBase = 4
  PacketSize = 2
INVARIANTS
  TypeOK
  SelectionHeld
  ControlIntact
  StreamHoldsSamples
  SampleNearOutput
  TimerFollowsRate
PROPERTIES
  StreamFlows
  UnreadyByWakeUp
