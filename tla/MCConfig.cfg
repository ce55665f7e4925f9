\* Every configuration of up to four lines, in one file or two.
SPECIFICATION ConfigSpec
CONSTANTS
  Lines <- FileLines
  IfaceLen = 4
  IfaceGap = 2
  InitMayFail = TRUE
  MaxLines = 4
  MaxFiles = 2
  AddrLen = 1
  Bytes = {0, 1}
  LengthRange = 4
  LossAccuracy = 100
  Percentages = {0, 61, 100}
  RandMax = 7
  FloatUnit = 1024
  Floats <- TenDigits
  FloatPrecision = 512
  Doubles <- ThreeDigits
  DoubleExact = 8
  NsPerSec = 4
  NsPerUs = 2
INVARIANTS
  ConfigType
  NamesPrefixFree
  BrokenStreamIsLast
  StaticDelayAsWritten
  UniformDelayAsWritten
  LossAsWritten
  InterfaceAsWritten
  FirstSelectsSource
PROPERTIES
  ImplementsFilter
CHECK_DEADLOCK FALSE
