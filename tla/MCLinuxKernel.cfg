\* The kernels of the comparison, one of which sort -V puts in the wrong place.
CONSTANTS
  Width = 1024
  Kernels <- MCKernels

SPECIFICATION Spec

INVARIANT NewestKernelCounts
