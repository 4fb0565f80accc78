CONSTANTS
  N = 3
  Iterations = 2
SPECIFICATION Spec
INVARIANT TypeOK
INVARIANT ResultsReadyAtSync
PROPERTY RefinesPipeline
