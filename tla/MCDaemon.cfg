\* The message queue build from startup to death and once more: a stream
\* without delay and a delayed one, frames in both directions, every failure of
\* the startup.  A process that could not create all its threads may hang.
SPECIFICATION DaemonSpec
CONSTANTS
  NumStreams = 2
  Buffers = {b1, b2}
  NoBuffer = NoBuffer
  Delayed = {2}
  Selective = {1}
  DelayOffsets <- Short
  UseSems = FALSE
  MqMaxMsg = 1
  SendResults = {"sent", "refused"}
  ListOpsMayFail = FALSE
  MaxFrames = 2
  LastArrival = 1
  MaxTime = 2
  NsPerSec = 100
  NsPerUs = 2
  MaxRevFrames = 1
  FdsMayFail = TRUE
  CreateMayFail = TRUE
  MaxRestarts = 1
SYMMETRY BufferSymmetry
INVARIANTS
  DaemonType
  ThreadsHaveSockets
  ExitLosesNothing
  BufferHasOneOwner
  ReverseLeaksNothing
  NoPacketForgotten
  TxAbortOnlyIfStrayed
PROPERTIES
  ImplementsEmulator
  ImplementsReverse
CHECK_DEADLOCK FALSE
