\* One cfg for the queries: see the README for the bounds of each.
CONSTANTS
  \* LatestUpdate
  LastMonth = 2
  MonthStart <- MCMonthStart
  FirstDay = 14
  FirstWeekday = 0
  LastDay = 23
  TTL = 1
  HardCap = 1
  NoMonth = NoMonth
  \* ADUsers
  Users = {u1}
  Units = {ou1, ou2}
  Domain = Domain
  Gone = Gone
  Never = Never
  Absent = Absent
  Zero = Zero
  Days = 1
  MaxBases = 2
  \* TcpTable, ListeningPorts
  MaxAttempts = 2
  Ports = {KnownPort, OtherPort}
  KnownPorts = {KnownPort}
  PIDs = {Kernel, Process}
  Kernel = Kernel
  Images = {App, Guarded, System}
  Excluded = {System}
  Protected = {Guarded}
  Services = {Service}
  System = System
  HttpSys = HttpSys
  Unknown = Unknown
  KnownService = KnownService
  None = None
  MaxListeners = 2
  MaxChanges = 2
  \* ConnectionMap
  Addresses = {Address, LocalHost}
  Loopback = {LocalHost}
  SocketPorts = {p1, p2}
  RemotePorts = {r1}
  NoPeer = NoPeer
  MaxSockets = 3
  \* RecurringEvents
  Logs = {l1, l2}
  Signatures <- MCSignatures
  DiskSource = DiskSource
  AppSource = AppSource
  Wildcard = Wildcard
  Periods = {30, 3600}
  OldAge = 120
  DefaultLookback = 1440
  MaxGroups = 1
  MaxLen = 2
  MaxWrites = 1
  \* ExchangeSnapshot
  Null = Null
  CertLimit = 30
  Queues = {q1, q2}
  MaxList = 1
  MaxTop = 1
  MaxFailures = 1
  MaxPartChanges = 1
  \* ClusterSnapshot
  Nodes = {n1, n2}
  ClusterGroups = {g1, g2}
  CoreGroup = g1
SPECIFICATION PluginSpec
INVARIANTS
  InstalledIsJustified
  MissingIsDue
  PreviousIsReportedAsIs
  AnswersForItsMonth
  NobodyIsMissed
  ListedForAReason
  ListedOnce
  EveryListenerIsListed
  RecordsAreTrue
  DirectionIsRight
  RecurringIsListed
  ListedRecurs
  TroubleIsShown
  QueuesAddUp
  WitnessIsTrue
  CoreGroupIsRight
