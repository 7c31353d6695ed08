\* Parts come to rest where their bounds are reached, so deadlock is not an error.
SPECIFICATION MCSpec
CONSTANTS
  Pollers = {"poller"}
  Confirm = 1
  Grace = 1
  Cooldown = 1
\* Two functions, so that a gadget may be half built; three processes, of which the first
\* may leave its gadget behind.
  hidPorts = 2
  failuresMost = 2
  startsMost = 3
\* Two clients of each kind on two slots, so that one may come while another is looked at.
  slotCount = 2
  hosts = {"home", "guest"}
  pages = {"page", "other"}
  nobody = "nobody"
INVARIANT SleepInv
PROPERTIES SleepSeen LifecycleSafe LifecycleProgress
CHECK_DEADLOCK FALSE
