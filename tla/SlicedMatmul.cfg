CONSTANTS
  Kernels <- SlicedMatmul
  Blocks <- MCBlocks
SPECIFICATION Spec
INVARIANT MeaningKept
CHECK_DEADLOCK FALSE
