\* Parts come to rest where their bounds are reached, so deadlock is not an error.
SPECIFICATION Spec
CONSTANTS
  sequenceWindow = 2
  halfCircle = 4
  streamFlight = 2
  mostFrames = 6
  mostPackets = 3
  mostMoved = 3
  mostTurns = 3
  texts <- Macros
  mostSteps = 3
  graceTime = 1
  mostRuns = 2
  mostUploads = 2
  uploadFlight = 5
  mostAgain = 1
  requestCircle = 12
  mostAge = 2
  mostEvents = 3
  feedbackFlight = 2
  mostSessions = 2
INVARIANT MacrosPlay
PROPERTIES StreamsFollow ConnectionDecides FeedbackArrives NetworkSettles
CHECK_DEADLOCK FALSE
