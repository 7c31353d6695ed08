\* The gadget is set up twice, so that a handle may outlive its file; two bus resets, so that
\* a queue may outlive a connection; the driver's event queue overflows; the adapter is
\* renamed and a process is killed, or either twice.  Parts come to rest where their bounds are
\* reached, so deadlock is not an error.
SPECIFICATION Spec
CONSTANTS
  required = {"hid", "vendor"}
  maxFiles = 2
  start = start
  commands = {start, query}
  queueLimit = 2
  maxAttempts = 2
  maxGeneration = 3
  maxReceived = 2
  maxReports = 3
  queueSize = 2
  maxEvents = 5
  names = {"hci0", "hci1"}
  maxFaults = 2
  maxRuns = 2
INVARIANTS UsbSafe QueuesSafe WakeInv DriverSafe
PROPERTIES TeardownEnds CommandsAnswered
CHECK_DEADLOCK FALSE
