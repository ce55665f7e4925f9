\* Two streams without delay in the semaphore build.
SPECIFICATION Spec
CONSTANTS
  NumStreams = 2
  Buffers = {b1, b2}
  NoBuffer = NoBuffer
  Delayed = {}
  Selective = {}
  DelayOffsets <- NoDelay
  UseSems = TRUE
  MqMaxMsg = 1
  SendResults = {"sent"}
  ListOpsMayFail = FALSE
  MaxFrames = 2
  LastArrival = 1
  MaxTime = 1
  NsPerSec = 100
  NsPerUs = 2
SYMMETRY BufferSymmetry
INVARIANTS
  SignalMeetsPacket
