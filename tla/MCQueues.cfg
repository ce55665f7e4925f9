\* The message queue build: two streams without delay, queues of one message.
SPECIFICATION FairSpec
CONSTANTS
  NumStreams = 2
  Buffers = {b1, b2, b3}
  NoBuffer = NoBuffer
  Delayed = {}
  Selective = {2}
  DelayOffsets <- NoDelay
  UseSems = FALSE
  MqMaxMsg = 1
  SendResults = {"sent", "refused"}
  ListOpsMayFail = FALSE
  MaxFrames = 3
  LastArrival = 1
  MaxTime = 1
  NsPerSec = 100
  NsPerUs = 2
INVARIANTS
  RxSignalled
  TxSignalled
  TxListNeverEmptyAtTake
PROPERTIES
  UndelayedFramesSettle
  ImplementsEmulator
