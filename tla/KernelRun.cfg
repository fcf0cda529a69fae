CONSTANTS
  Kernels <- MCKernels
  Blocks <- MCBlocks
SPECIFICATION Spec
INVARIANTS MeaningKept TensorsHeld BlocksIndependent NeverStuck
CHECK_DEADLOCK FALSE
