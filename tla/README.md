# Zabbix plugins: a TLA+ verification project

This directory holds TLA+ models of the Go plugins in `src/`, the TLC runs that
check them on small instances, and proofs, checked by TLAPS, that the properties
which matter most hold for every value of the constants.  `PROJECT.json` maps
each definition to the lines it models.

Every plugin is a process that Zabbix agent 2 starts and talks to over a socket.
The agent calls `Export(key, params, ctx)` for each item at its interval; calls
of one plugin may run at the same time, each on a goroutine of its own; `ctx`
carries the item's timeout; an answer that comes later than that is dropped by
the agent.  The agent starts a plugin that died again.  The plugins do not talk
to each other.

## 1. Inventory

| Component (source) | State it keeps | Operations | What is hard |
|---|---|---|---|
| **Break-glass account check** `Linux/linux_btg_account_check` | checkpoint file per log (`path`, `file_id`, `offset`); in-memory deduper; `processMu`; cached success of the checkpoint-directory check | `Export` → `processOnce`: stat, load, seek, scan line by line, save, answer; `shouldSend` | concurrent polls; log rotated, truncated, half-written while it is read; crash between scan, save and answer; item timeout in mid-scan; partial failure (read, save, load) |
| **Live collection with a fallback cache** `Windows/exchange_se`, `windows_failover_cluster`, `WindowsLatestUpdate`, `windows_recurring_event_Error` | one cached payload with its time, and its month or parameter signature; a mutex for the cache alone | `Export` → `collectLive` (PowerShell under a deadline) → `storeCache` or `loadCached` | collections overlap and end in any order; deadline racing the result; child that keeps the pipe; one slot, several signatures; staleness |
| **WLU release suppression** `WindowsLatestUpdate` | none beyond the cache | `applyReleaseSuppression`, `secondTuesday`, `previousMonth`, month parameter | month boundaries, three clocks (key, payload, now) |
| **Recurring events** `windows_recurring_event_Error/events.go` | none beyond the cache | read the newest events of each log, group, ignore rules, minimum count, sort, cap | two limits on either side of the filters; a log that is skipped; events written and overwritten meanwhile |
| **Exchange collector script** `Windows/exchange_se` (the PowerShell in `main.go`) | none | twelve parts read in order into one summary | a part that fails leaves zeros; a long queue list is cut |
| **Failover-cluster collector script** `Windows/windows_failover_cluster` | none | quorum, nodes, groups, resources; core group and witness worked out from them | four reads of a cluster that fails over in between; silent failures |
| **NTP checks** `Linux/linux_ntp_sync`, `Windows/windows_ntp_sync` | none | `queryNTP`: lookup, up to 3 attempts, back-off, Kiss-of-Death, validation | retries within one deadline |
| **AD users** `Windows/windows_ad_user_monitoring` | none | five searches over several bases, attribute decoding, classification | users found twice, attributes absent or zero, order of the checks, partial failure of one base |
| **Needs-reboot** `Linux/…`, `Windows/…` | none | a sequence of signals, each of which may fail | errors against signals; version order; COM initialisation |
| **Listening ports** `Linux/…`, `Windows/windows_service_listening_port` | none | socket table, process list, join | table grows between two calls; process gone between two reads |
| **Network connections** `Linux/…`, `Windows/…` | none | two reads of the socket table, aggregation by direction | the two reads do not agree |
| **Application inventory** `Windows/windows_application_inventory` | none | registry to sorted list | none |
| Templates, configuration, release scripts | – | – | not program logic |

What makes them correct:

* *Break-glass check.* The checkpoint never claims more than was read, never goes
  back, and catches up; a login is held back only behind an alert of the same
  account; a login is reported once.
* *Deduper.* Pruning never changes an answer; the map stays small.
* *Fallback cache.* An answer is about what was asked; it is of bounded age
  whatever order collections end in; a failure is answered from the cache for as
  long as the TTL says; the answer comes while the agent still waits.
* *NTP.* The attempts stay within the deadline; a Kiss-of-Death is never retried.
* *Needs-reboot.* An error never hides a signal; "0" is not answered for what a source
  reported; the version order is an order, and the newest kernel is compared.
* *Latest update.* Of the current and the previous month "missing" is never answered before
  the Patch Tuesday of the month that was checked, and "installed" never without a reason,
  on whichever side of midnight each clock is; the previous month is answered as it was found.
* *Recurring events.* What recurs is listed, and what is listed recurs.
* *Snapshots of Exchange and of the cluster.* Trouble that lasts is shown, or the failure to
  look is; what is shown was there at some moment.
* *AD users.* Who is meant all along is listed, who is listed was meant at some moment, and
  nobody is listed twice.
* *Ports and connections.* A listener that lasts is listed, with the process that has it; a
  connection to a port that is listened on is incoming, and counted once.

The hazards behind these, each with its line, are in `PROJECT.json`.

## 2. Modules

```
RateLimit  <==implements==  DeduperMachine --EXTENDS--> Deduper
                                                           ^
BTGCheck ---------------------- D == INSTANCE ---------------
CollectorCache
NTPQuery
Reboot --EXTENDS--> LinuxReboot --EXTENDS--> KernelVersions
   |----- INSTANCE --> WindowsReboot
Collectors --EXTENDS--> LatestUpdate
   |----- INSTANCE --> ADUsers, ListeningPorts, ConnectionMap, RecurringEvents,
                       ExchangeSnapshot, ClusterSnapshot
ListeningPorts, ConnectionMap --EXTENDS--> TcpTable

MCDeduper, MCBTGCheck, MCCollectorCache, MCNTPQuery, MCLinuxReboot,
MCReboot, MCCollectors                                         instances for TLC
DeduperProofs, BTGCheckProofs, CollectorCacheProofs, NTPQueryProofs, RebootProofs,
LatestUpdateProofs, ADUsersProofs                              proofs
CollectorsProofs --EXTENDS--> LatestUpdateProofs, INSTANCE ADUsersProofs
```

### Deduper, DeduperMachine, RateLimit

`Deduper` has the pure operators of `shouldSend` (the prune, the window, the
stamp), `DeduperMachine` drives them with a clock that advances by any number
of seconds, and `RateLimit` is the abstract specification: a limiter that never
forgets.  Two histories, `sentAt` and `answer`, are the refinement mapping (they
have the same names in both modules, so the `INSTANCE` needs no `WITH`).

A call reads the clock before it takes the deduper's mutex, so a call could in
general use an older second than the call before it.  All calls are made with
`processMu` held, so here it cannot; that is why a call is one step.

### BTGCheck

| Variable | Code |
|---|---|
| `path`, `created`, `data`, `truncated` | the files that are, or were, at the log path |
| `cursor` | the checkpoint file |
| `lock` | `processMu` |
| `pc`, `job`, `expired` | each request's place in `Export`/`processOnce`, its locals, and `itemCtx` |
| `ded`, `clock` | the deduper and Unix time |
| `faults` | how many faults were injected |
| `read`, `torn`, `tailedFrom`, `held`, `reported`, `lost`, `discarded` | histories the properties speak about; no action reads them (`tailedFrom` only to keep its maximum) |

`Call`, `Acquire`/`GiveUp`, `Stat`, `Open`, `ScanLine`/`Cancelled`, `Save`,
`Answer` are the steps of a poll, separated where another thread, the log daemon
or logrotate can come between: after the lock, between the two resolutions of
the path, between lines, before the rename.  `NoRegularFile`, `ReadFails`,
`SaveFails`, `Expire`, `LateAnswer`, `Crash` are its failures; `Append1`,
`RenameAway`, `CreateNew`, `CopyTruncate`, `Tick` the environment.

Abstractions:

* A *chunk* is a line, or one of the two halves of a line that was written in two
  writes; offsets count chunks.  `Match` gives the key a text matches: a head by
  its own text, the joined line by the whole, a tail alone nothing.
* The file id is the inode.  It is assumed not to be reused while the checkpoint
  names it.
* `bufio` reads ahead of what is consumed; the model reads what is there when it
  consumes.  The position that is saved is the consumed one in both.
* A checkpoint file that exists and is empty (a crash after it was created for
  the lock and before the rename) is one that cannot be decoded: none.
* The lock on the checkpoint file (`flock`) is on the inode the rename replaces;
  within one process `processMu` already serialises, so it has no effect here.
* Refusals of parameters, and of an unusable checkpoint directory, answer before
  anything is touched.
* A file truncated in place may grow beyond the old offset before the next poll;
  the code cannot see that, and the properties leave out files in `truncated`.

### CollectorCache

One module for the shape the four PowerShell plugins share.  A request is
`Begin` (the deadline is fixed), `Exits` (powershell ends, or is killed at the
deadline; a child may hold the pipe), `Collected` or `Failed`, then `Store` or
`LoadCached` or `Error`.  `Restart` is the agent starting the process again.
Signatures model the month of WLU and the parameter set of the recurring events;
Exchange and the cluster have one.  `WaitDelay = 0` is the two plugins that do not
set it.  Time passes only while powershell runs or a pipe is held (`MayTake`):
the rest of `Export` takes no ticks, so what holds here holds up to the time the
code itself needs.

`EffectiveTimeout` is in ticks: `minimumTimeout`, 100 ms in the code, is at least
one.  An agent whose timeout is not longer than the margin gets `MinTimeout`.

### NTPQuery

One request of the Linux or the Windows NTP check, from `Export` past the refusals of
its parameters to its answer; requests share nothing.  `pc` is the place in
`queryNTP`, `try` and `attempts` its locals, `budget` the deadline of its context and
`until` that of the operation under way.  `Begin` starts the lookup; `Resolved` and
`LookupFails` end it; `Send`/`NoTimeLeft` are the top of an attempt; `QueryFails`,
`KissOfDeath`, `Invalid`, `Valid` what it brings; `Wake`/`PauseCancelled` the end of
the pause.  `sent` and `got` are histories.

* Time passes in the lookup, the query and the pause, which end by their deadline; the
  code between takes none.
* At the very deadline of a query `ctx.Err()` may already be set or not: both happen.
  The model lets a pause end either way when its timer and the context are due together,
  as Go's `select` does.
* What arrives after a query's own time is not seen.  If it was a Kiss-of-Death a retry
  follows; and nothing remembers one from request to request.
* `Validate` and `IsKissOfDeath` are the NTP library's: a choice of outcome.

### KernelVersions, LinuxReboot, WindowsReboot

The two needs-reboot checks.  A host has signals that stand (`Standing`: the flag
file, what the tools would advise, a newer kernel installed; in Windows the keys and
values of the registry and SCCM's), and they change at any time (`Update`,
`KernelPackages`, `Reboot`).  The check asks one source per step, in the order of
`isRebootPendingDetailed`; a source gives a verdict, none, or fails.  `heard`, `seen` and
`steady` are histories: who gave a verdict, what stood at some time of the check, and
what stood all the time.  What changes during the check may be answered either way;
what does not must be answered right.

`KernelVersions` has the order of versions.  A version is the sequence of its tokens (a
word is its rank in the lexical order); `Newer` is what `compareVersions` computes,
first difference by first difference, numbers modulo their width.  `SortsAfter` is GNU
`sort -V`, where the separators before the first difference are the same; that is so in
the names of the packages of one distribution.

* In Linux the failures of `uname` and `rpm` are silent (`NoKernelCheck`), those of the
  other commands are errors.  An exit code that says neither is silence too.
* In Windows an unreadable place of the registry ends the check with an error,
  whatever was found before; a failure of SCCM is silent.
* The running kernel carries no flavour (`+debug`, `+rt`): see the hazards.
* How long the commands take is not modelled; nor is Windows' standalone mode, which
  prints 0 for an error.

`Reboot` has the two checks side by side: a host has one system (`os`), which does not
change, and runs that system's check (`HostSpec`).

### The collectors

The other plugins, and the PowerShell scripts of those with a cache, look at a host that
changes while they look.  Their modules have one shape: the host (`host`, `directory`), the
request with the locals of the code (`query`), and what was answered (`answer`).  `Begin`
meets a host in any state of interest, `Change` (in LatestUpdate `Tick` and `Install`, in
RecurringEvents `Write`) changes it between two reads, the reads are the code's, each of
which may fail, and `Return` ends with the answer taken.  What a property needs of the
past is a history in `query`: what held all along (`steady`), what held at some moment
(`ever`, `states`, `owners`), and what was disturbed (`moved`, `changed`, `failed`).

`Collectors` has the seven of them side by side: `plugin` says whose behaviour it is and does
not change (`PluginSpec`), so that their states add up and do not multiply.  `host`, `query`
and `answer` are the running plugin's, `cache` the latest-update check's.

One request is under way at a time.  Nothing is shared by the requests of these plugins
but the caches, which CollectorCache has under concurrent requests; LatestUpdate keeps its
cache too, because there the month of the entry is the point, and the agent's configuration
of that plugin sets `Capacity=1`.

* `LatestUpdate`: `Ask` is `Export` up to the collection, `Collect` the script, `Store`,
  `ServeCached` and `Fail` what follows.  Time is in days; a month starts on any day at
  least two weeks after the one before.  The clock is read by `Export`, by the script, by
  `storeCache` and for the age of the entry, with days passing in between.  The titles of
  the update history that name a month are one fact, `installed`.
* `ADUsers`: `Entry` is the callback for an entry the server returns, `NextSearch` the
  loops over filters and bases, `PageFails` the error that ends a query.  An account has
  the attributes its query reads; the server's promise is that what matches a search from
  its first page to its last is returned at least once (`owed`), and an entry is read
  whole.  `Meant` says what a query is for without the encodings: two values mean "never
  expires", a `lastLogonTimestamp` is absent or 0, a lockout has lapsed.
* `TcpTable`: the loop of two calls that reads the table of a Windows host, of which two
  plugins have a copy.
* `ListeningPorts`: both listening-port plugins.  `Describe` is the step per socket, one
  process after the other; `Unique` is the merge of manual and automatic records.  `ss` shows
  the owner of each socket or not (`Ss`), as it does to an agent that is not root; of a
  socket that several processes share the plugin takes the first one listed, its `pid` here.
* `ConnectionMap`: both connection maps.  One read of a file of `/proc` is taken to be of
  one moment; the kernel does not promise it.
* `RecurringEvents`: `ReadLog` and `SkipLog` are the script's loop, `Finish` the filters of
  `FindRecurringEvents`.  The logs that are asked for differ (one asked for twice is
  listed twice).  Which of equally frequent groups the
  limit cuts is left open, since the code's order has further keys that say nothing.
* `ExchangeSnapshot`: the script's parts in their order.  A part's state is the one thing
  its number in the summary tells apart; the queues are modelled one by one.
* `ClusterSnapshot`: the four reads, and then what is concluded about the core group and
  the witness.  Networks and IP addresses, and the lists that are passed on as they were
  read, are left out.

Met while modelling, and left open by the properties:

* The configuration of the latest-update plugin says that an explicit month is never
  suppressed (`zabbix-agent2-WindowsLatestUpdate.conf`, 32-33); the code suppresses one whose
  Patch Tuesday is ahead, and `main.go:331-332` promises it of past months only.  `MissingIsDue`
  is about the current and the previous month and leaves explicit ones out.
* A table of one address family that cannot be read leaves a list that does not say so
  (`failed`).
* The core group is found by a type that contains "Cluster", as that of a storage pool does.
* A stopped Exchange service whose start type cannot be read counts as a manual one.
* A witness whose resource cannot be read looks healthy and in use (`witnessKept`).
* A log that cannot be read is not named in the answer, and what the rest gives replaces the
  cached payload.
* A period below one minute looks back a day.  `ListedRecurs` bounds the counts of a minute
  or more.
* Where a listener starts or stops between the two reads of a connection map, the direction
  of its connections may be either.
* A process number that is used again between two reads gives a port to a process that never
  had it (`changed`).
* Any write to `userAccountControl` restarts the count of days an account is disabled
  (`MustList`).
* A `lastLogonTimestamp` of 0 counts as never logged on even where those are not asked for.

## 3. What the runs check

| Run | Instance | Shows |
|---|---|---|
| `dedup` | 2 keys, TTL 2, clock to 12 | `Bookkeeping` (inductive), `MapHoldsOnlyRecent`, and that the deduper implements `RateLimit` |
| `btg_scan` | 2 threads, 2 files, 2 chunks each, 1 chunk per poll, 2 faults of 6 kinds | `CheckpointInvariant` (inductive), `NothingSkipped`, `CheckpointNeverRegresses` |
| `btg_alerts` | 2 threads, 1 file, TTL 1, clock to 3, 2 faults of 5 kinds | `HeldOnlyBehindAlert`, `AlertsAccounted` (inductive), `ReportedOnce` |
| `btg_live` | 1 thread, fair polls, 1 fault | `BacklogDrained` |
| `btg_read_error` | 1 thread, a read fault | violation, see below |
| `btg_rotation` | 1 thread, no fault, one rotation | violation, see below |
| `cache` | 2 requests, 2 signatures, TTL 2, cap 2, WaitDelay 1 | `CacheInvariant` (inductive), `BoundedRegress`, `AnswersWhatWasAsked`, `LastGoodIsServed` |
| `cache_deadline` | margin 1, WaitDelay 3, item timeout 4 | violation, see below |
| `ntp` | the plugins' constants in ticks of 250 ms; item timeouts of 1, 4 and 10 s, and none | `NTPInvariant` (inductive), `AnsweredInTime`, `PoliteToServer`, `HonestAnswer` |
| `reboot` | 3 kernels, all hosts, all failures | `RebootInvariant` (inductive), `AlarmHasCause`, `NoSignalMissed`; `WindowsAlarmHasCause`, `WindowsZeroIsInformed` |
| `reboot_sort` | 3 kernels of one distribution | violation, see below |
| `collectors` | each of the seven collectors on a host of its own, see below | `InstalledIsJustified`, `MissingIsDue`, `PreviousIsReportedAsIs`, `AnswersForItsMonth`; `NobodyIsMissed`, `ListedForAReason`, `ListedOnce`; `EveryListenerIsListed`, `RecordsAreTrue`; `DirectionIsRight`; `RecurringIsListed`, `ListedRecurs`; `TroubleIsShown`, `QueuesAddUp`; `WitnessIsTrue`, `CoreGroupIsRight` |

*Bounds.*  TTL 2 tells inside, last second and outside of a window apart, and the
clock passes the third window, after which nothing an entry did can matter.  Two
threads are enough for every pairwise race, and `processMu` admits no other.  Two
files give one rotation, two chunks with `MaxScan = 1` a backlog that one poll
cannot drain; `SmallSize` is such that a first poll both tails and reads from 0.
Two faults combine every pair.  In `cache` the clock outlives TTL plus a
collection, so entries expire while requests are under way.  `ntp` needs no bound: a
request ends by its deadline, and the item timeouts are such that it falls into the
first query, the second, or after the last.  `reboot` has no counter;
its kernels differ in a number, and in a number against a word.  Threads, and requests
and signatures, are symmetric.

*Bounds of `collectors`.*

| Collector | Bounds | Enough because |
|---|---|---|
| latest update | three months, of 14, 16 and 14 days; from two days before the end of the second to the Patch Tuesday of the third; TTL and collection of 1 day each | a collection crosses midnight of the month and of Patch Tuesday, and an entry outlives either |
| AD users | 1 user, 2 units, up to 2 bases, `Days = 1` | bases are equal, nested or disjoint; the stamps lie before, on and after each limit. No step of one user's entry reads another's |
| listening ports | 2 ports, 2 process numbers, 2 sockets, 2 changes, 2 attempts | the table grows in both attempts; a number changes hands and back |
| connection maps | 2 addresses, 2 ports, 1 remote port, 3 sockets, 2 changes | a listener starts and stops around one connection; two connections share a key |
| recurring events | 2 logs of 2 events, 2 signatures, 1 change, periods of 30 and 3600 s, limit 1 | each limit cuts, alone and together; the one write overwrites the oldest |
| Exchange | one part in any state or 2 queues, 1 failure, 1 change, lists of 1 | trouble, failure and change fall on the same part or on different ones; the list is cut |
| cluster | 2 nodes, 2 groups, 2 changes | the witness is replaced and fails again; the core group moves there and back |

Their properties are safety, and no fairness is assumed; the deadline that ends a
collection of PowerShell is in `cache`.

*Fairness.*  `btg_live` assumes that the steps of a poll are weakly fair (the agent
polls the item at its interval for as long as it is configured, and Go schedules
a runnable goroutine) and that logrotate creates the file it renamed away.
Nothing is assumed of faults, of the daemon, or of rotation.  A request that
waits for `processMu` is fair in the run because the run has one thread: Go's
mutexes are not asked for more.

*Violations*, each a finding:

* `NoDetectionDiscarded` (`btg_read_error`).  A comment in `Export` promises that
  an error never discards a detection.  A failed read returns no messages after
  `shouldSend` has stamped them; the retry is suppressed and the checkpoint moves on.
* `RotationLosesNothing` (`btg_rotation`).  The template calls the tailing
  rotation-aware and says it reports each new authentication.  The unread end
  of the rotated file is never read.
* `AnswersInTime` (`cache_deadline`).  `WaitDelay` of 5 s comes on top of a deadline
  that leaves 1 s.
* `NewestKernelCounts` (`reboot_sort`).  A comment calls `sort -V` the correct order and
  another says that the newest kernel is compared.  Of `5.14.0-503.el9.x86_64` and
  `5.14.0-503.11.1.el9_5.x86_64`, `sort -V` puts the first last (a word after a number),
  `compareVersions` the second.  A host that runs the first and waits to boot the second
  is answered `0`.  `NoSignalMissed` therefore trusts the kernel comparison only when the
  loop, and not `sort`, picked the latest one.

`ReportedOnce` excludes faults and rotation by its premise.  With a rotation
between stat and open the checkpoint gets the old id and an offset of the new file,
the next poll starts from 0, and a login whose window has passed is reported a
second time; with a crash or a failed save, the same.

## 4. What is proved

All for every value of the constants, under the `ASSUME`s of the modules, and
without the bounds of TLC being used (they only restrict the steps).

* `DeduperProofs`.  `Bookkeeping` is inductive: an entry either is the last second
  its key was sent or was dropped when that second was out of every window
  (`PrunedOnlyStale`), and the prune is recent.  The map's bound follows, and so
  does the step simulation to `RateLimit`: the answers agree because an entry that
  was dropped would not have suppressed.
* `BTGCheckProofs`.  `CheckpointInvariant` = types, mutual exclusion
  (`OneTransaction`), files in order of creation (`FilesInOrder`), what lies behind the
  checkpoint and behind every job was read (`ScansSkipNothing`), and a job that loaded
  the checkpoint is at or past it (`JobsPastCursor`).  `NothingSkipped` alone is not
  inductive: it needs the same of the jobs that are about to save, which needs that
  no other poll saves in between, which is the mutual exclusion.
  `CheckpointNeverRegresses` follows from `JobsPastCursor` at the step that saves.
  `AlertsAccounted` carries `HeldOnlyBehindAlert`: each stamp in the deduper is that
  of an alert that is somewhere.  `ReportedOnce` is proved by `ReportsInOrder`: without
  faults and rotation, what was reported or is about to be lies behind the checkpoint, or was
  found by the one poll under way, whose position is past all of it and past the checkpoint.
  The mutual exclusion makes it inductive (the alerts that are not behind the checkpoint are
  of the poll that saves next), and `FaultsAreForEver` lets the premise go: what it excludes
  cannot be undone.
* `CollectorCacheProofs`.  `CacheInvariant` = types, a request that stores does so
  before its deadline (`RequestsInTime`), and the entry is the last stored, less than
  a collection after its data was taken, with no newer data by more than that
  (`EntryInTime`).  `BoundedRegress`, `AnswersWhatWasAsked` and `LastGoodIsServed`
  follow.
* `NTPQueryProofs`.  `NTPInvariant` = types, operations within the request's budget
  (`InBudget`), the queries before this one sent and counted (`Counted`), none of them
  followed by another after a Kiss-of-Death or a valid reply (`OnlyRetriable`), and the
  pauses between (`Spaced`, which needs how long the pause under way will last).
  `AnsweredInTime` is `InBudget` with `RequestTimeout` opened; `PoliteToServer` joins
  `OnlyRetriable` and `Counted`; `HonestAnswer` needs in addition that no valid reply
  lies unused while the request goes on (`Reported`).
* `RebootProofs`.  `Newer` is asymmetric and a weak order, so what the loop picks hides no
  kernel that is newer than the running one (`HighestHidesNothing`).  The first difference
  of three versions is a least number; the least-number principle comes from the library's
  theorem that strict inclusion of finite sets is well-founded.  In Linux,
  `RebootInvariant`: as long as the check goes on, `steady` is within what stands and that
  within `seen`; a pending reboot has a reason; without one, no steady signal has a source
  that was heard.  `KernelCheck` keeps it by `HighestHidesNothing`.  `AlarmHasCause` and
  `NoSignalMissed` carry it over to the answer.  In Windows, `WindowsInvariant` says the same
  of the keys, the values and SCCM, and that without a reason so far all the sources before
  the present one were heard, since an unreadable one ends the check; the answer's promises
  are carried beside it (`WindowsAnswered`).  `ChecksAreApart` (`HostSpec` implies the specification of either
  check) takes both to the composition that the run checks.
* `LatestUpdateProofs`, for months of any length from two weeks on and any weekday.
  `SecondTuesday` is a Tuesday, and in the second week, hence within its month:
  `SecondTuesdayIsATuesday`, `SecondTuesdayIsInTheSecondWeek`.  `IInv` relates the clock
  Export read to the host's (`HostInv`), says for which month the payload at hand is and
  since when (`QueryInv`), the same of the entry (`CacheInv`), and of the answer what the
  properties say (`AnswerInv`).  `PreviousAsIs` is where the arithmetic comes in: the
  previous month's Patch Tuesday lies before the first day of the clock's month
  (`PreviousMonthIsOver`), so nothing of it is suppressed.
* `ADUsersProofs`, for any number of users, units and bases.  `NobodyTwice`: every listed
  name is among those seen, the names differ, and a user who was not moved is listed under
  the name the account has now; so two entries of one user are of a user who was moved.
  `NobodyLeftOut` and `NobodyWithoutReason` are `NobodyIsMissed` and `ListedForAReason`,
  under `DaysAndMarkers` (at least one day, and markers that are no times; `collectors`
  evaluates it).  Who has to be listed is, or is owed by the search under way, or awaited
  from a filter and base to come (`Owing`); that a change leaves it so is `StillFound`, that
  the filter and the callback together let through what the query is for, and no one else,
  are `MustListIsFound` and `KeptIsMeant`.
* `CollectorsProofs`, for any host, any number of changes of it, and any failures of what is
  read.  `PluginStep` and `PluginStart`: a behaviour of the composition is one of its plugin.
  For each plugin an invariant of the request under way is shown to be inductive, and then
  that the step that answers keeps the promise.
  - *Users.*  `ADUsersProofs` is instantiated with the composition's variables, so that
    `NobodyIsLeftOut`, `EverybodyHasAReason` and `NobodyIsListedTwice` are its theorems.
  - *Cluster* (`ClusterInvariant`): the histories have what stands; a witness that was never
    online since the first read is the one that the quorum named, so that the resource that
    is found is its own.  Without that, `WitnessIsTrue` is not inductive: the witness could
    have been replaced between the two reads.
  - *Exchange* (`PartsInvariant`, `QueuesInvariant`): of every part behind, the number that is
    shown tells the truth (`Tells`); without the name of a group there is an error, or no
    trouble with replication.  The sums are cardinalities of disjoint unions
    (`MessagesAddUp`, `DepthsAddUp`), and the list is long enough because it has the largest
    queues (`ListIsLong`).
  - *Ports* (`PortsInvariant`): a socket of a family that has been read, and that is open all
    along, is still to be described or has its record; what is known of a process number
    is so of the process, unless the number changed hands.  `ReadIsKept` alone is not
    inductive: which sockets get no record depends on their processes, so it needs that a
    process number keeps its process while its socket is open (`HistoriesAreRight`).  That a
    record names its owner needs `ServicesAreTrue` and `EntriesAreTrue`, which are about the
    reads before it, and that no two are equal needs `DescribedOnce` on Linux.
  - *Connections* (`MapInvariant`): what is known of the listeners in between the two reads is
    of a moment since the first.  `DirectionIsRight` then says which set of the connections
    that were counted was counted as incoming, and that each is counted in one number.
  - *Events* (`EventsInvariant`): the groups are those of the events that were looked at, of
    each log that was read, and finite in number, so that a limit can cut them.
  - *Latest update*: `UpdateAnswersAreRight` is the four properties of `LatestUpdateProofs`;
    an answer of another plugin is no value (`NobodyElseGivesOne`), and they say nothing of it.

The assumptions on the constants are few and about their kind: the markers are no numbers and
no process names (`DaysAndMarkers`, `NoneIsNothing`, `NullIsNoNumber`), ages and limits are
numbers (`AgesAndLimits`), the queues are finitely many (`QueuesAreFinite`), the core group is a
group and there is a node (`CoreIsAGroup`).  TLC evaluates them in `collectors`.

Only model-checked: `BacklogDrained`, which needs fairness, and liveness is beyond the prover.
Every other property of a passing run is a theorem.  The four violations are TLC's.  The
inductive invariants of the collectors hold on the instance of `collectors` too, but are no
properties of the run: they are about requests under way, and `CollectorsProofs` has them for
every instance.

## 5. Plan

What is left, in this order:

1. The networks, interfaces and IP addresses of the cluster snapshot.
2. The standalone modes of the Windows plugins.

Not modelled, and not planned: the application inventory (one pass over the registry into
a sorted list: no state, and nothing is read twice), regular expressions, templates, agent
configuration and release scripts.  A wall clock that steps back, two processes on one
checkpoint, reuse of an inode, the flavour of a running kernel and the time the commands of
the Linux reboot check take are listed as hazards or named above, and are outside the models.
