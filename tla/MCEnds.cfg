\* A head of two units, commands of up to four, packets of three; two interruptions.
\* Three gamepads of which two may be pairs; an amiibo of the library and a dump of the client's
\* own, written in two chunks, where the library fails once.  A key and a button of the mouse.
\* Parts come to rest where their bounds are reached, so deadlock is not an error.
SPECIFICATION MCSpec
CONSTANTS
  None = None
  Slots = {0, 1, 2}
  Half = {0, 1}
  Gyro = {0, 2}
  Modes <- FiveModes
  ButtonSets = {{}, {"X"}}
  Keys = {{"B"}}
  Pushes = {{"RSTICK_UP"}}
  Bindings <- Buttons
  Grace = 2
  Resend = 1
  MaxLost = 1
  MaxChanges = 2
  headSize = 2
  maxCommand = 4
  packetSize = 3
  maxSent = 2
  maxBreaks = 2
  ntags = {}
  v3s = {"v"}
  dump = "own"
  chunks = {1, 2}
  maxTags = 2
  maxFaults = 1
  eventStates = 8
  delay = 2
  letters = {"f", "m"}
  clicks = {"m"}
  maxMacros = 2
  maxHeld = 1
INVARIANTS VendorInv FrameInv
PROPERTIES NfcSafe TagIsTaken PickerFollowsTag  NamesAreTold
CHECK_DEADLOCK FALSE
