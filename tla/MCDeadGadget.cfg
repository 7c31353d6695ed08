\* No client comes or goes: recovery is switched off by exhaustion only.
\* The gadget may be left down for good (ChangeIdentity), so deadlock is not an error.
SPECIFICATION FairSpec
CONSTANTS
  Event = Event
  Writer = Writer
  Clients = {}
  MaxRetries = 3
PROPERTY DeadGadgetRecovers
CHECK_DEADLOCK FALSE
