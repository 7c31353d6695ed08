\* Two uses of the reader with an NTAG215 and a figure-v3 tag; nothing more happens when
\* the tags are used up.
SPECIFICATION Spec
CONSTANTS
  None = None
  Ntags = {"n"}
  V3s = {"v"}
  Dump = "dump"
  Chunks = {1, 2}
  MaxTags = 2
  MaxFaults = 1
INVARIANT OwnFile
CHECK_DEADLOCK FALSE
