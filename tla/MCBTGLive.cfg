\* A backlog of two chunks with MaxScan 1: one poll cannot drain it.
CONSTANTS
  Thread = {t1}
  Bob = Bob
  Account = {Bob}
  LongLine = LongLine
  NoKey = NoKey
  NoThread = NoThread
  NoLog = NoLog
  NoCursor = NoCursor
  TTL = 1
  SmallSize = 2
  MaxScan = 1
  Lines <- PlainLines
  Faults = {"crash", "expire", "save", "read", "truncate"}
  MaxFiles = 2
  MaxChunks = 2
  MaxClock = 1
  MaxFaults = 1

SPECIFICATION FairSpec

PROPERTIES
  BacklogDrained
