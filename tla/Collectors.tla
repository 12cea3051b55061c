----------------------------- MODULE Collectors -----------------------------
(***************************************************************************)
(* The plugins that query a changing host, side by side: a behaviour is of *)
(* one of them, so that their states add up and do not multiply.  The      *)
(* cache is the latest-update check's.                                     *)
(***************************************************************************)
EXTENDS LatestUpdate

CONSTANTS
  \* ADUsers
  Users, Units, Domain, Gone, Never, Absent, Zero, Days, MaxBases,
  \* ListeningPorts; its bound on sockets is MaxListeners
  MaxAttempts, Ports, KnownPorts, PIDs, Kernel, Images, Excluded, Protected, Services,
  System, HttpSys, Unknown, KnownService, None, MaxListeners, MaxChanges,
  \* ConnectionMap; its ports are SocketPorts
  Addresses, Loopback, SocketPorts, RemotePorts, NoPeer, MaxSockets,
  \* RecurringEvents; its bound on changes is MaxWrites
  Logs, Signatures, Wildcard, Periods, OldAge, DefaultLookback, MaxGroups, MaxLen, MaxWrites,
  \* ExchangeSnapshot; its bound on changes is MaxPartChanges
  Null, CertLimit, Queues, MaxList, MaxTop, MaxFailures, MaxPartChanges,
  \* ClusterSnapshot; its groups are ClusterGroups
  Nodes, ClusterGroups, CoreGroup

VARIABLE plugin \* whose behaviour it is

AD == INSTANCE ADUsers WITH directory <- host

ASSUME UsersAssumption == AD!DaysAndMarkers

Listening == INSTANCE ListeningPorts WITH MaxSockets <- MaxListeners

ASSUME ListeningAssumption == Listening!NoneIsNothing

Connections == INSTANCE ConnectionMap WITH Ports <- SocketPorts

Events == INSTANCE RecurringEvents WITH MaxChanges <- MaxWrites

ASSUME EventsAssumption == Events!AgesAndLimits

Exchange == INSTANCE ExchangeSnapshot WITH MaxChanges <- MaxPartChanges

ASSUME ExchangeAssumption == Exchange!NullIsNoNumber /\ Exchange!QueuesAreFinite

Cluster == INSTANCE ClusterSnapshot WITH Groups <- ClusterGroups

ASSUME ClusterAssumption == Cluster!CoreIsAGroup

-----------------------------------------------------------------------------
OtherInit ==
  \/ plugin = "users" /\ AD!Init
  \/ plugin = "ports" /\ Listening!Init
  \/ plugin = "map" /\ Connections!Init
  \/ plugin = "events" /\ Events!Init
  \/ plugin = "exchange" /\ Exchange!Init
  \/ plugin = "cluster" /\ Cluster!Init

OtherNext ==
  \/ plugin = "users" /\ AD!Next
  \/ plugin = "ports" /\ Listening!Next
  \/ plugin = "map" /\ Connections!Next
  \/ plugin = "events" /\ Events!Next
  \/ plugin = "exchange" /\ Exchange!Next
  \/ plugin = "cluster" /\ Cluster!Next

PluginInit ==
  \/ plugin = "update" /\ Init
  \/ cache = NoCache /\ OtherInit

PluginNext ==
  /\ UNCHANGED plugin
  /\ \/ plugin = "update" /\ Next
     \/ OtherNext /\ UNCHANGED cache

PluginSpec == PluginInit /\ [][PluginNext]_<<plugin, vars>>

-----------------------------------------------------------------------------
\* The properties, each of its plugin; those of the latest-update check are of an answer
\* that only it gives.

\* A user whom an Active Directory query is meant for all along is listed (ADUsers).
NobodyIsMissed == plugin = "users" => AD!NobodyIsMissed

\* A listed user met what the query is meant for at some moment (ADUsers).
ListedForAReason == plugin = "users" => AD!ListedForAReason

\* Nobody is listed twice under one name (ADUsers).
ListedOnce == plugin = "users" => AD!ListedOnce

\* A socket that listens all along is listed (ListeningPorts).
EveryListenerIsListed == plugin = "ports" => Listening!EveryListenerIsListed

\* A record names the process that has the socket (ListeningPorts).
RecordsAreTrue == plugin = "ports" => Listening!RecordsAreTrue

\* Connections are counted once, in the right direction (ConnectionMap).
DirectionIsRight == plugin = "map" => Connections!DirectionIsRight

\* A recurring error is listed (RecurringEvents).
RecurringIsListed == plugin = "events" => Events!RecurringIsListed

\* A listed error recurs, in the period asked for (RecurringEvents).
ListedRecurs == plugin = "events" => Events!ListedRecurs

\* Trouble of the Exchange server is shown, or the failure to look (ExchangeSnapshot).
TroubleIsShown == plugin = "exchange" => Exchange!TroubleIsShown

\* No message is counted twice, no troubled queue is cut (ExchangeSnapshot).
QueuesAddUp == plugin = "exchange" => Exchange!QueuesAddUp

\* A witness that is not online is shown as failed, or was not to be read (ClusterSnapshot).
WitnessIsTrue == plugin = "cluster" => Cluster!WitnessIsTrue

\* The core group's owner is that of the core group (ClusterSnapshot).
CoreGroupIsRight == plugin = "cluster" => Cluster!CoreGroupIsRight
=============================================================================
