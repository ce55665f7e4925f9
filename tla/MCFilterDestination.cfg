\* What a dst_mac line selects.
SPECIFICATION Spec
CONSTANTS
  AddrLen = 2
  Bytes = {0, 1}
  LengthRange = 16
  MaxLines = 1
INVARIANTS
  DstMacSelectsDestination
CHECK_DEADLOCK FALSE
