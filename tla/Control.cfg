\* Requests of every sort, bus resets, suspends and hosts that give up.  The device
\* hangs when the bus is suspended just before SET_ADDRESS turns interrupts off.
SPECIFICATION Spec
CONSTANTS
  Requests <- ManyRequests
  Undefined <- MCUndefined
INVARIANTS TypeOK RequestsAreAtomic
PROPERTIES AddressAfterStatus EveryTransferEnds DetachEndsWaits AbortIsNoticed
CHECK_DEADLOCK FALSE
