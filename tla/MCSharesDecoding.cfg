CONSTANTS
  party_id = 2
  RETRIES = 5
  FaultCounts <- MCFaultCounts
  MaxGen = 2
  JsonTexts <- MCJsonTexts
SPECIFICATION Spec
INVARIANT TypeOK
INVARIANT AcceptsWellFormed
