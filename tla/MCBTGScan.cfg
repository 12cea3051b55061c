\* Two chunks: the first poll tails past one, or reads from 0 and leaves a backlog of one.
CONSTANTS
  Thread = {t1, t2}
  Bob = Bob
  Account = {Bob}
  LongLine = LongLine
  NoKey = NoKey
  NoThread = NoThread
  NoLog = NoLog
  NoCursor = NoCursor
  TTL = 1
  SmallSize = 1
  MaxScan = 1
  Lines <- PlainLines
  Faults = {"crash", "expire", "save", "read", "load", "truncate"}
  MaxFiles = 2
  MaxChunks = 2
  MaxClock = 1
  MaxFaults = 2

SPECIFICATION Spec
SYMMETRY Symmetry

INVARIANTS
  CheckpointInvariant
  NothingSkipped

PROPERTIES
  CheckpointNeverRegresses
