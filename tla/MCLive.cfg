\* A delayed stream and one without delay in the semaphore build, under fair
\* scheduling and with every failure the code handles.
SPECIFICATION FairSpec
CONSTANTS
  NumStreams = 2
  Buffers = {b1, b2, b3}
  NoBuffer = NoBuffer
  Delayed = {2}
  Selective = {}
  DelayOffsets <- Short
  UseSems = TRUE
  MqMaxMsg = 1
  SendResults = {"sent", "exhausted"}
  ListOpsMayFail = TRUE
  MaxFrames = 2
  LastArrival = 2
  MaxTime = 3
  NsPerSec = 100
  NsPerUs = 2
INVARIANTS
  TxSignalled
  BuffersAccounted
PROPERTIES
  DelayedFramesSettle
  UndelayedFramesSettle
  ImplementsEmulator
