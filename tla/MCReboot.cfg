\* No counter grows: nothing is bounded but the kernels.
CONSTANTS
  Width = 1024
  Kernels <- MCKernels

SPECIFICATION HostSpec

INVARIANTS
  RebootInvariant
  AlarmHasCause
  NoSignalMissed
  WindowsAlarmHasCause
  WindowsZeroIsInformed
