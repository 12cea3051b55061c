CONSTANTS
  Thread = {t1, t2}
  Bob = Bob
  Account = {Bob}
  LongLine = LongLine
  NoKey = NoKey
  NoThread = NoThread
  NoLog = NoLog
  NoCursor = NoCursor
  TTL = 1
  SmallSize = 2
  MaxScan = 2
  Lines <- AlertLines
  Faults = {"crash", "expire", "late", "save", "read"}
  MaxFiles = 1
  MaxChunks = 2
  MaxClock = 3
  MaxFaults = 2

SPECIFICATION Spec
SYMMETRY Symmetry

INVARIANTS
  HeldOnlyBehindAlert
  AlertsAccounted
  ReportedOnce
