CONSTANTS
  Thread = {t1}
  Bob = Bob
  Account = {Bob}
  LongLine = LongLine
  NoKey = NoKey
  NoThread = NoThread
  NoLog = NoLog
  NoCursor = NoCursor
  TTL = 1
  SmallSize = 2
  MaxScan = 2
  Lines <- AlertLines
  Faults = {"read"}
  MaxFiles = 1
  MaxChunks = 2
  MaxClock = 1
  MaxFaults = 1

SPECIFICATION Spec

INVARIANTS
  NoDetectionDiscarded
