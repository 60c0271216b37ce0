\* Two requests and two signals.  A process that has exited does nothing more.
SPECIFICATION Spec
CONSTANTS
  None = None
  r1 = r1
  r2 = r2
  Requests = {r1, r2}
  MaxSignals = 2
CHECK_DEADLOCK FALSE
INVARIANTS
  TypeOK
  SignalReported
  ServesUntilStopped
PROPERTIES
  Stops
