\* Packets that leave on a whole second.
SPECIFICATION Spec
CONSTANTS
  NumStreams = 1
  Buffers = {b1, b2, b3}
  NoBuffer = NoBuffer
  Delayed = {1}
  Selective = {}
  DelayOffsets <- Edges
  UseSems = TRUE
  MqMaxMsg = 1
  SendResults = {"sent"}
  ListOpsMayFail = FALSE
  MaxFrames = 2
  LastArrival = 2
  MaxTime = 5
  NsPerSec = 3
  NsPerUs = 2
SYMMETRY BufferSymmetry
INVARIANTS
  DepartureBelowSecond
