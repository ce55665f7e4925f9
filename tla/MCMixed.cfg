\* A stream without delay and a delayed one share the signals of the semaphore
\* build; the delays are at the edges of the time arithmetic.
SPECIFICATION Spec
CONSTANTS
  NumStreams = 2
  Buffers = {b1, b2, b3}
  NoBuffer = NoBuffer
  Delayed = {2}
  Selective = {}
  DelayOffsets <- Edges
  UseSems = TRUE
  MqMaxMsg = 1
  SendResults = {"sent"}
  ListOpsMayFail = FALSE
  MaxFrames = 3
  LastArrival = 2
  MaxTime = 5
  NsPerSec = 3
  NsPerUs = 2
SYMMETRY BufferSymmetry
INVARIANTS
  TypeOK
  TxListSorted
  RxSignalled
  RxListNeverEmptyAtTake
  TxListNeverEmptyAtTake
