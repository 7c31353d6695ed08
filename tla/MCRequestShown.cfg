\* Two sessions of one client that keeps streaming; three events at most.
SPECIFICATION Spec
CONSTANTS
  Wrap = 12
  MaxAge = 2
  MaxEvents = 3
  MaxInFlight = 2
  MaxSessions = 2
INVARIANT RequestShown
CHECK_DEADLOCK FALSE
