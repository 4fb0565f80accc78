\* Two devices per party (so device order matters) and two rounds (so a
\* stale scratch slot or a cross-round mismatch would show).
CONSTANTS
  Devices = {0, 1}
  Iterations = 2
  Masks <- MCMasks
SPECIFICATION Spec
INVARIANT TypeOK
INVARIANT OpenCorrect
PROPERTY AllRoundsFinish
