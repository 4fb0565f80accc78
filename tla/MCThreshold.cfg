CONSTANTS
  RingBits = 6
  WideBits = 16
  B_BITS = 2
  IRIS_CODE_SIZE = 12
  RatioNum = 3
  RatioDen = 8
  Randoms <- MCRandoms
  OverflowChecks = FALSE
SPECIFICATION Spec
INVARIANT TypeOK
INVARIANT SharesReconstruct
INVARIANT MsbIsThreshold
