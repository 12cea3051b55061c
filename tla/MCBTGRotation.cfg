CONSTANTS
  Thread = {t1}
  Bob = Bob
  Account = {Bob}
  LongLine = LongLine
  NoKey = NoKey
  NoThread = NoThread
  NoLog = NoLog
  NoCursor = NoCursor
  TTL = 1
  SmallSize = 2
  MaxScan = 2
  Lines <- PlainLines
  Faults = {}
  MaxFiles = 2
  MaxChunks = 2
  MaxClock = 1
  MaxFaults = 0

SPECIFICATION Spec

INVARIANTS
  RotationLosesNothing
