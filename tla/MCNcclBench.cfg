CONSTANTS
  HostDevices = 2
  NodeDevices = 2
  IdLen = 2
  ByteVals <- MCByteVals
  NodeStartsLate = TRUE
SPECIFICATION Spec
INVARIANT TypeOK
INVARIANT IdsAgree
INVARIANT NodeNeverPanics
PROPERTY BenchCompletes
