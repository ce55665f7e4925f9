\* A timer that expires after the last packet has left.
SPECIFICATION Spec
CONSTANTS
  NumStreams = 1
  Buffers = {b1, b2}
  NoBuffer = NoBuffer
  Delayed = {1}
  Selective = {}
  DelayOffsets <- ShortAndLong
  UseSems = TRUE
  MqMaxMsg = 1
  SendResults = {"sent", "refused"}
  ListOpsMayFail = FALSE
  MaxFrames = 2
  LastArrival = 3
  MaxTime = 6
  NsPerSec = 100
  NsPerUs = 2
SYMMETRY BufferSymmetry
INVARIANTS
  ExpirationHasPacket
