\* "unknown requests are automatically STALLed" (Events.h:231-232): the vendor request
\* stores its word and is STALLed.
SPECIFICATION Spec
CONSTANTS
  Requests <- VendorRequests
  Undefined <- MCUndefined
INVARIANTS StalledIsUnhandled
