SPECIFICATION Spec
CONSTANTS
  NULL = NULL
  Events = {e1, e2}
  MaxCalls = 2
  DrainLimit = 1
  ScanLimit = 2
  MaxFaults = 1
INVARIANTS AnsweredIsKept OncePerEvent
PROPERTIES NeverLost EventuallyLedgered
