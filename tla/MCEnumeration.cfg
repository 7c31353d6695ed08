\* The code's retry limit, two threads that open and close sessions.
SPECIFICATION FairSpec
CONSTANTS
  Event = Event
  Writer = Writer
  Clients = {udp, web}
  MaxRetries = 3
INVARIANTS CountsBounded RecoveringHasWork SurvivorCanRecover
PROPERTIES RecoveringEnds
