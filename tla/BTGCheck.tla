------------------------------ MODULE BTGCheck ------------------------------
(***************************************************************************)
(* The Linux break-glass account check (linux_btg_account_check/main.go):  *)
(* every poll of the item tails an authentication log from a checkpoint on *)
(* disk, reports the monitored accounts it meets, and saves how far it     *)
(* got.  Polls run on several threads of one process and are serialised by *)
(* processMu; the log is appended to, rotated and truncated meanwhile; the *)
(* process dies and is restarted by the agent.                             *)
(*                                                                         *)
(* Bytes are abstracted to chunks.  A chunk is a complete line, or the two *)
(* halves of a line that the log daemon wrote in two writes: "head" has no *)
(* newline yet, "tail" brings it.  Offsets count chunks.                   *)
(***************************************************************************)
EXTENDS Integers, Sequences

CONSTANTS
  Thread,      \* goroutines that run Export
  Account,     \* the monitored accounts
  LongLine,    \* the alert key "LONG_LINE|<path>"
  NoKey,       \* what a line without a monitored actor matches
  TTL,         \* ALERT_DEDUP_SECONDS
  SmallSize,   \* 1024 bytes, in chunks: a new log shorter than this is read from 0
  MaxScan,     \* maxScanBytes, in chunks: the most one poll reads
  NoThread, NoLog, NoCursor, \* "nobody", "no regular file at the path", "no checkpoint"
  Faults,      \* which faults the environment may inject
  Lines,       \* the chunks the daemon may append
  MaxFiles, MaxChunks, MaxClock, MaxFaults  \* bounds, for TLC

FaultKind == {"crash", "expire", "late", "read", "save", "load", "truncate"}

File == 1 .. MaxFiles     \* files that are ever at the log path, in order of creation
Key == Account \cup {LongLine}
Chunk == [key : Key \cup {NoKey}, part : {"line", "head", "tail"}]
Checkpoint == [fid : File, off : Nat]
Place == File \X Nat      \* a chunk of a file: <<file, offset just after it>>

ASSUME BTGAssumption ==
  /\ NoThread \notin Thread
  /\ NoKey \notin Key
  /\ NoLog \notin File
  /\ NoCursor \notin Checkpoint
  /\ TTL \in Nat \ {0}
  /\ SmallSize \in Nat
  /\ MaxScan \in Nat \ {0}
  /\ Lines \subseteq Chunk
  /\ Faults \subseteq FaultKind
  /\ MaxFiles \in Nat \ {0}
  /\ MaxChunks \in Nat /\ MaxClock \in Nat /\ MaxFaults \in Nat

D == INSTANCE Deduper

VARIABLES
  path,      \* the file at the log path, or NoLog
  created,   \* how many files have been there
  data,      \* data[f]: the chunks of file f
  cursor,    \* the checkpoint on disk, or NoCursor when there is none (or none readable)
  lock,      \* the holder of processMu
  pc,        \* where each thread is in Export
  expired,   \* expired[t]: the item's timeout has passed
  job,       \* each thread's locals in processOnce
  ded,       \* the process's deduper
  clock,     \* Unix time
  faults     \* faults injected so far

\* History, written and never read by the actions.
VARIABLES
  read,       \* places handed to the matcher as part of a complete line
  torn,       \* places consumed as part of a line that was not complete
  tailedFrom, \* tailedFrom[f]: where a poll began that found no checkpoint
  truncated,  \* files that were truncated in place
  held,       \* alerts that shouldSend suppressed
  reported,   \* alerts handed to the agent
  lost,       \* alerts that died with the process, or that the agent no longer waited for
  discarded   \* alerts processOnce itself threw away

logVars == <<path, created, data, truncated>>
scanHistory == <<read, torn, tailedFrom>>
alertHistory == <<held, reported, lost, discarded>>
vars == <<logVars, cursor, lock, pc, expired, job, ded, clock, faults, scanHistory, alertHistory>>

Alert == [place : Place, key : Key, at : Nat]
Job == [found : BOOLEAN,     \* a readable checkpoint was there
        fid : File,          \* the file that was stat'ed
        file : File,         \* the file that was opened
        start : Nat,         \* where the scan began
        pos : Nat,           \* what it has consumed
        msgs : SUBSET Alert] \* what it has to report
NoJob == [found |-> FALSE, fid |-> 1, file |-> 1, start |-> 0, pos |-> 0, msgs |-> {}]

Init ==
  /\ path = 1 /\ created = 1
  /\ data = [f \in File |-> << >>]
  /\ cursor = NoCursor
  /\ lock = NoThread
  /\ pc = [t \in Thread |-> "idle"]
  /\ expired = [t \in Thread |-> FALSE]
  /\ job = [t \in Thread |-> NoJob]
  /\ ded = D!NewDeduper
  /\ clock = 1
  /\ faults = 0
  /\ read = {} /\ torn = {} /\ truncated = {}
  /\ tailedFrom = [f \in File |-> 0]
  /\ held = {} /\ reported = {} /\ lost = {} /\ discarded = {}

Fault(kind) ==
  /\ kind \in Faults
  /\ faults < MaxFaults
  /\ faults' = faults + 1

Goto(t, label) == pc' = [pc EXCEPT ![t] = label]

\* processOnce returns msgs: its locals are gone and processMu is released.
Return(t, msgs) ==
  /\ lock' = NoThread
  /\ job' = [job EXCEPT ![t] = [NoJob EXCEPT !.msgs = msgs]]
  /\ Goto(t, "answer")

\* Export returns.
Finish(t) ==
  /\ job' = [job EXCEPT ![t] = NoJob]
  /\ expired' = [expired EXCEPT ![t] = FALSE]
  /\ Goto(t, "idle")

-----------------------------------------------------------------------------
(***************************************************************************)
(* The poll.  Export's refusals of its parameters and of an unusable       *)
(* checkpoint directory (163-176, 187-191) answer "ERROR:" before anything is read  *)
(* and change nothing; they are left out.                                  *)
(***************************************************************************)

\* A new request reaches Export; its context starts now (contextFromProvider).
Call(t) ==
  /\ pc[t] = "idle"
  /\ Goto(t, "waiting")
  /\ UNCHANGED <<logVars, cursor, lock, expired, job, ded, clock, faults, scanHistory, alertHistory>>

\* The item's timeout passes while the request is being served.
Expire(t) ==
  /\ pc[t] # "idle" /\ ~expired[t]
  /\ Fault("expire")
  /\ expired' = [expired EXCEPT ![t] = TRUE]
  /\ UNCHANGED <<logVars, cursor, lock, pc, job, ded, clock, scanHistory, alertHistory>>

\* Mutated form of Acquire: processMu is gone, and every waiting thread goes ahead.
AcquireUnlocked(t) ==
  /\ pc[t] = "waiting" /\ ~expired[t]
  /\ lock' = t
  /\ Goto(t, "stat")
  /\ UNCHANGED <<logVars, cursor, expired, job, ded, clock, faults, scanHistory, alertHistory>>

\* processMu.Lock(), with time left (258-263).
Acquire(t) ==
  /\ pc[t] = "waiting" /\ ~expired[t]
  /\ lock = NoThread
  /\ lock' = t
  /\ Goto(t, "stat")
  /\ UNCHANGED <<logVars, cursor, expired, job, ded, clock, faults, scanHistory, alertHistory>>

\* processMu.Lock() came too late: the lock is given back and nothing was done (261-263).
GiveUp(t) ==
  /\ pc[t] = "waiting" /\ expired[t]
  /\ lock = NoThread
  /\ Goto(t, "answer")
  /\ UNCHANGED <<logVars, cursor, lock, expired, job, ded, clock, faults, scanHistory, alertHistory>>

FileID(f) == f

\* Mutated form of StartOffset: a truncated log is not noticed.
StartIgnoresTruncation(found, size, fid) ==
  IF ~found THEN IF size < SmallSize THEN 0 ELSE size
  ELSE IF cursor.fid = fid THEN cursor.off ELSE 0

\* Mutated form of StartOffset: the offset of the previous file is kept for the new one.
StartIgnoresRotation(found, size, fid) ==
  IF ~found THEN IF size < SmallSize THEN 0 ELSE size
  ELSE IF cursor.off <= size THEN cursor.off ELSE 0

\* Where the scan begins: 0 or the end for a log with no checkpoint, 0 for a rotated
\* or truncated one, else where the last poll got to.
StartOffset(found, size, fid) ==
  IF ~found THEN IF size < SmallSize THEN 0 ELSE size
  ELSE IF cursor.fid = fid /\ cursor.off <= size THEN cursor.off ELSE 0

\* os.Stat finds the log, the checkpoint is loaded and the start is chosen (265-313).
\* A checkpoint that is there and cannot be opened, locked or decoded counts as none.
Stat(t) ==
  /\ pc[t] = "stat"
  /\ path \in File
  /\ \E found \in BOOLEAN :
       /\ \/ found = (cursor # NoCursor) /\ UNCHANGED faults
          \/ ~found /\ cursor # NoCursor /\ Fault("load")
       /\ LET start == StartOffset(found, Len(data[path]), FileID(path)) IN
          /\ job' = [job EXCEPT ![t] = [NoJob EXCEPT !.found = found, !.fid = FileID(path),
                                                     !.start = start, !.pos = start]]
          /\ tailedFrom' = IF ~found /\ start > tailedFrom[path]
                           THEN [tailedFrom EXCEPT ![path] = start] ELSE tailedFrom
  /\ Goto(t, "open")
  /\ UNCHANGED <<logVars, cursor, lock, expired, ded, clock, read, torn, alertHistory>>

\* os.Open resolves the path again: what it opens need not be what was stat'ed.
Open(t) ==
  /\ pc[t] = "open"
  /\ path \in File
  /\ job' = [job EXCEPT ![t].file = path]
  /\ Goto(t, "scan")
  /\ UNCHANGED <<logVars, cursor, lock, expired, ded, clock, faults, scanHistory, alertHistory>>

\* os.Stat or os.Open finds no regular file: nothing is saved and nothing reported.
NoRegularFile(t) ==
  /\ pc[t] \in {"stat", "open"}
  /\ path = NoLog
  /\ Return(t, {})
  /\ UNCHANGED <<logVars, cursor, expired, ded, clock, faults, scanHistory, alertHistory>>

-----------------------------------------------------------------------------
(***************************************************************************)
(* Reading.  readBoundedLine returns the chunks up to the next newline, or *)
(* an unterminated rest together with io.EOF.                              *)
(***************************************************************************)

HasHead(s, p) == p < Len(s) /\ s[p + 1].part = "head"

\* How many chunks the next line has, from offset p of contents s; 0 at the end.
Consumed(s, p) ==
  IF p >= Len(s) THEN 0
  ELSE IF HasHead(s, p) /\ p + 1 < Len(s) THEN 2 ELSE 1

\* The last line of the file, without its newline: io.EOF comes with it.
Unterminated(s, p) == p >= Len(s) \/ (HasHead(s, p) /\ p + 1 = Len(s))

\* The line at p is seen whole: it does not start in the middle, and it has its newline.
Complete(s, p) == p < Len(s) /\ s[p + 1].part # "tail" /\ ~Unterminated(s, p)

\* What the matcher, or the oversized-line alert, makes of the text at p: a head's key is
\* what its own text matches, a tail's key what only the whole line matches.
Match(s, p) ==
  IF p >= Len(s) \/ s[p + 1].part = "tail" THEN NoKey
  ELSE IF s[p + 1].key # NoKey THEN s[p + 1].key
  ELSE s[p + Consumed(s, p)].key

\* One turn of the scan loop (336-383) for a line that can be read.  An expiry during the
\* read is noticed after the line; Cancelled is the turn that notices it before.
ScanLine(t) ==
  LET j == job[t]
      s == data[j.file]
      n == Consumed(s, j.pos)
      places == {<<j.file, i>> : i \in j.pos + 1 .. j.pos + n}
      key == Match(s, j.pos)
      alert == [place |-> <<j.file, j.pos + n>>, key |-> key, at |-> clock]
      sends == key # NoKey /\ D!ShouldSend(ded, key, clock)
  IN
  /\ pc[t] = "scan"
  /\ job' = [job EXCEPT ![t].pos = j.pos + n,
                        ![t].msgs = IF sends THEN j.msgs \cup {alert} ELSE j.msgs]
  /\ IF Complete(s, j.pos) THEN read' = read \cup places /\ UNCHANGED torn
                           ELSE torn' = torn \cup places /\ UNCHANGED read
  /\ ded' = IF key = NoKey THEN ded ELSE D!AfterShouldSend(ded, key, clock)
  /\ held' = IF key # NoKey /\ ~sends THEN held \cup {alert} ELSE held
  /\ Goto(t, IF expired[t] \/ Unterminated(s, j.pos) \/ j.pos + n - j.start >= MaxScan
             THEN "save" ELSE "scan")
  /\ UNCHANGED <<logVars, cursor, lock, expired, clock, faults, tailedFrom, reported, lost, discarded>>

\* The turn that finds the item's time used up before it reads (336-339).
Cancelled(t) ==
  /\ pc[t] = "scan" /\ expired[t]
  /\ Goto(t, "save")
  /\ UNCHANGED <<logVars, cursor, lock, expired, job, ded, clock, faults, scanHistory, alertHistory>>

\* Stat, open, seek or a read fails: what the scan had found is dropped and nothing is
\* saved (266-270, 316-323, 342-344).
ReadFails(t) ==
  /\ pc[t] \in {"stat", "open", "scan"}
  /\ Fault("read")
  /\ discarded' = discarded \cup job[t].msgs
  /\ Return(t, {})
  /\ UNCHANGED <<logVars, cursor, expired, ded, clock, scanHistory, held, reported, lost>>
-----------------------------------------------------------------------------
(***************************************************************************)
(* Saving and answering.                                                   *)
(***************************************************************************)

\* Mutated form of Save: the checkpoint is left where the scan began.
SaveStart(t) ==
  /\ pc[t] = "save"
  /\ cursor' = [fid |-> job[t].fid, off |-> job[t].start]
  /\ Return(t, job[t].msgs)
  /\ UNCHANGED <<logVars, expired, ded, clock, faults, scanHistory, alertHistory>>

\* Mutated form of Save: the checkpoint names the file that was opened.
SaveOpened(t) ==
  /\ pc[t] = "save"
  /\ cursor' = [fid |-> job[t].file, off |-> job[t].pos]
  /\ Return(t, job[t].msgs)
  /\ UNCHANGED <<logVars, expired, ded, clock, faults, scanHistory, alertHistory>>

\* The rename puts the new checkpoint in place; processMu is released on the way out.
Save(t) ==
  /\ pc[t] = "save"
  /\ cursor' = [fid |-> job[t].fid, off |-> job[t].pos]
  /\ Return(t, job[t].msgs)
  /\ UNCHANGED <<logVars, expired, ded, clock, faults, scanHistory, alertHistory>>

\* Mutated form of SaveFails: what was found goes the way of the checkpoint.
SaveFailsAndDrops(t) ==
  /\ pc[t] = "save"
  /\ Fault("save")
  /\ Return(t, {})
  /\ UNCHANGED <<logVars, cursor, expired, ded, clock, scanHistory, alertHistory>>

\* Saving fails before the rename: the old checkpoint stays, the alerts are kept (388-391).
SaveFails(t) ==
  /\ pc[t] = "save"
  /\ Fault("save")
  /\ Return(t, job[t].msgs)
  /\ UNCHANGED <<logVars, cursor, expired, ded, clock, scanHistory, alertHistory>>

\* Export returns: alerts, if there are any, whatever else went wrong (207-222).
Answer(t) ==
  /\ pc[t] = "answer"
  /\ reported' = reported \cup job[t].msgs
  /\ Finish(t)
  /\ UNCHANGED <<logVars, cursor, lock, ded, clock, faults, scanHistory,
                 held, lost, discarded>>

\* Export returns after the item's timeout, and the agent has stopped listening.
LateAnswer(t) ==
  /\ pc[t] = "answer" /\ expired[t]
  /\ Fault("late")
  /\ lost' = lost \cup job[t].msgs
  /\ Finish(t)
  /\ UNCHANGED <<logVars, cursor, lock, ded, clock, scanHistory,
                 held, reported, discarded>>

\* The plugin process dies and the agent starts it again: memory is gone, the disk stays.
Crash ==
  /\ Fault("crash")
  /\ lost' = lost \cup UNION {job[t].msgs : t \in Thread}
  /\ lock' = NoThread
  /\ pc' = [t \in Thread |-> "idle"]
  /\ expired' = [t \in Thread |-> FALSE]
  /\ job' = [t \in Thread |-> NoJob]
  /\ ded' = D!NewDeduper
  /\ UNCHANGED <<logVars, cursor, clock, scanHistory, held, reported, discarded>>

-----------------------------------------------------------------------------
(***************************************************************************)
(* The log daemon, logrotate and time.                                     *)
(***************************************************************************)

EndsInHead(s) == Len(s) > 0 /\ s[Len(s)].part = "head"

Append1(c) ==
  /\ path \in File
  /\ Len(data[path]) < MaxChunks
  /\ EndsInHead(data[path]) <=> c.part = "tail"
  /\ data' = [data EXCEPT ![path] = Append(@, c)]
  /\ UNCHANGED <<path, created, truncated, cursor, lock, pc, expired, job, ded, clock, faults,
                 scanHistory, alertHistory>>

\* logrotate renames the log away, and then creates its successor.
RenameAway ==
  /\ path \in File
  /\ created < MaxFiles
  /\ path' = NoLog
  /\ UNCHANGED <<created, data, truncated, cursor, lock, pc, expired, job, ded, clock, faults,
                 scanHistory, alertHistory>>

CreateNew ==
  /\ path = NoLog
  /\ created < MaxFiles
  /\ created' = created + 1
  /\ path' = created + 1
  /\ UNCHANGED <<data, truncated, cursor, lock, pc, expired, job, ded, clock, faults,
                 scanHistory, alertHistory>>

\* logrotate's copytruncate empties the log in place.
CopyTruncate ==
  /\ path \in File
  /\ Fault("truncate")
  /\ data' = [data EXCEPT ![path] = << >>]
  /\ truncated' = truncated \cup {path}
  /\ UNCHANGED <<path, created, cursor, lock, pc, expired, job, ded, clock,
                 scanHistory, alertHistory>>

Tick ==
  /\ clock < MaxClock
  /\ clock' = clock + 1
  /\ UNCHANGED <<logVars, cursor, lock, pc, expired, job, ded, faults, scanHistory, alertHistory>>

-----------------------------------------------------------------------------
Poll(t) ==
  \/ Call(t) \/ Acquire(t) \/ GiveUp(t)
  \/ Stat(t) \/ Open(t) \/ NoRegularFile(t)
  \/ ScanLine(t) \/ Cancelled(t)
  \/ Save(t) \/ Answer(t)

PollFault(t) == Expire(t) \/ ReadFails(t) \/ SaveFails(t) \/ LateAnswer(t)

Environment == (\E c \in Lines : Append1(c)) \/ RenameAway \/ CreateNew \/ CopyTruncate \/ Tick

Next == (\E t \in Thread : Poll(t) \/ PollFault(t)) \/ Crash \/ Environment

Spec == Init /\ [][Next]_vars

(***************************************************************************)
(* The agent polls the item at its interval for ever and a request that    *)
(* runs is scheduled, so the steps of a poll are weakly fair; logrotate    *)
(* creates the file it renamed away.  Faults are never owed.               *)
(***************************************************************************)
Fairness == (\A t \in Thread : WF_vars(Poll(t))) /\ WF_vars(CreateNew)

FairSpec == Spec /\ Fairness

-----------------------------------------------------------------------------
PollState == {"idle", "waiting", "stat", "open", "scan", "save", "answer"}

\* The shapes of the state.
TypeOK ==
  /\ path \in File \cup {NoLog}
  /\ created \in File
  /\ data \in [File -> Seq(Chunk)]
  /\ cursor \in Checkpoint \cup {NoCursor}
  /\ lock \in Thread \cup {NoThread}
  /\ pc \in [Thread -> PollState]
  /\ expired \in [Thread -> BOOLEAN]
  /\ job \in [Thread -> Job]
  /\ ded \in D!DeduperState
  /\ clock \in Nat \ {0}
  /\ faults \in Nat
  /\ tailedFrom \in [File -> Nat]

\* No two polls are inside the checkpoint transaction (processMu, main.go:258).
InTransaction(t) == pc[t] \in {"stat", "open", "scan", "save"}

OneTransaction == \A t \in Thread : InTransaction(t) => lock = t

\* The file at the path is always the newest, no checkpoint and no poll knows a newer
\* one, and a poll opens the file it stat'ed or a later one.
Located(t) == pc[t] \in {"open", "scan", "save"}

FilesInOrder ==
  /\ path \in {created, NoLog}
  /\ cursor # NoCursor => cursor.fid <= created
  /\ \A t \in Thread :
       /\ Located(t) => job[t].fid <= created
       /\ pc[t] \in {"scan", "save"} => job[t].fid <= job[t].file /\ job[t].file <= created

\* Reading file f up to off skips nothing: while f is at the path and was not emptied,
\* off lies in it, and what is behind off was handed to the matcher, or was there before
\* the first poll that found no checkpoint.
Places(f, from, to) == {<<f, i>> : i \in from + 1 .. to}

ReadUpTo(f, off) ==
  path = f /\ f \notin truncated =>
    off <= Len(data[f]) /\ Places(f, tailedFrom[f], off) \subseteq read \cup torn

ScansSkipNothing ==
  /\ cursor # NoCursor => ReadUpTo(cursor.fid, cursor.off)
  /\ \A t \in Thread : Located(t) => ReadUpTo(job[t].fid, job[t].pos)

\* One checkpoint is older than another: of an earlier file, or of an earlier place in the
\* same file.
Older(a, b) == a.fid < b.fid \/ (a.fid = b.fid /\ a.off < b.off)

\* A poll that loaded the checkpoint is at or past it, all the time until it saves.
JobsPastCursor ==
  \A t \in Thread : Located(t) =>
    /\ job[t].start <= job[t].pos
    /\ job[t].found =>
         /\ cursor # NoCursor
         /\ \/ ~Older([fid |-> job[t].fid, off |-> job[t].start], cursor)
            \/ cursor.fid \in truncated

\* The inductive invariant of the checkpoint transaction (main.go:257-397): mutual
\* exclusion, files in order, and every poll between the checkpoint and its own place.
CheckpointInvariant ==
  TypeOK /\ OneTransaction /\ FilesInOrder /\ ScansSkipNothing /\ JobsPastCursor

\* A poll that loaded the checkpoint never replaces it by an older one, unless that file
\* was emptied in place: what processMu is for (main.go:49-52, 257-397).
CheckpointNeverRegresses ==
  [][\A t \in Thread : pc[t] = "save" /\ pc'[t] = "answer" /\ job[t].found /\ cursor' # cursor
       => ~Older(cursor', cursor) \/ cursor.fid \in truncated]_vars

\* Nothing is skipped: whatever lies behind the checkpoint of the log now at the path
\* was read, unless it was there before the first poll that found no checkpoint, or was
\* half a line when it was consumed, or the log was emptied in place (main.go:291-385).
NothingSkipped ==
  cursor # NoCursor /\ cursor.fid = path /\ path \notin truncated =>
    Places(path, tailedFrom[path], cursor.off) \subseteq read \cup torn

\* What the template says (yaml:17-18: checkpointed per file, rotation-aware, reports each
\* new authentication) asks of a rotation: once the checkpoint is on the new file, the old
\* one has been read to its end.
RotationLosesNothing ==
  cursor # NoCursor =>
    \A f \in 1 .. cursor.fid - 1 :
      f \notin truncated => Places(f, tailedFrom[f], Len(data[f])) \subseteq read \cup torn

\* Where an alert that shouldSend let through can be: handed over, still in a poll's
\* hands, lost with the process or a late answer, or thrown away with a failed read.
InFlight == UNION {job[t].msgs : t \in Thread}

Ledger == reported \cup InFlight \cup lost \cup discarded

Covers(s, h) == s.key = h.key /\ s.at <= h.at /\ h.at - s.at <= TTL

\* A login is held back only when the same account's alert, at most a window older, was
\* handed to the agent, is about to be, or was lost with the process, with a late answer
\* or with a failed read (main.go:349-366, 207-222).
HeldOnlyBehindAlert == \A h \in held : \E s \in Ledger : Covers(s, h)

\* The inductive invariant behind it: each stamp of the deduper belongs to an alert that
\* is somewhere, and a poll has nothing to say before it scans.
AlertsAccounted ==
  /\ \A k \in Key : ded.last[k] # D!Absent =>
       ded.last[k] <= clock /\ \E s \in Ledger : s.key = k /\ s.at = ded.last[k]
  /\ \A t \in Thread : pc[t] \in {"idle", "waiting", "stat", "open"} => job[t].msgs = {}
  /\ HeldOnlyBehindAlert

\* What Export's comment promises (main.go:210-213): an error never costs a detection.
\* A login is held back only behind an alert that was handed over, is about to be, or
\* died with the process or the agent's patience.
NoDetectionDiscarded ==
  \A h \in held : \E s \in reported \cup InFlight \cup lost : Covers(s, h)

\* Without faults and rotation, what is reported, or about to be, lies behind the checkpoint,
\* or was found by the poll under way, which is past all of it; and no place is there twice.
ReportsInOrder ==
  LET alerts == reported \cup InFlight IN
  faults = 0 /\ created = 1 =>
    /\ truncated = {}
    /\ \A a \in alerts : a.place \in {1} \X Nat
    /\ \A a \in alerts :
         \/ cursor # NoCursor /\ a.place[2] <= cursor.off
         \/ \E t \in Thread : Located(t) /\ a \in job[t].msgs
    /\ \A t \in Thread : Located(t) =>
         /\ \A a \in alerts : a.place[2] <= job[t].pos
         /\ cursor # NoCursor => cursor.off <= job[t].pos
    /\ \A a, b \in alerts : a.place = b.place => a = b

\* A given login is reported once (conf:23), whatever polls run at the same time and
\* however often, as long as no fault strikes and the log is not rotated.
ReportedOnce ==
  faults = 0 /\ created = 1 => \A a, b \in reported : a.place = b.place => a = b

\* As long as the agent polls, what is in the log at the path is read sooner or later,
\* though one poll reads a bounded stretch: the log is read, tailed past, emptied or
\* rotated away (main.go:375-383).
BacklogDrained ==
  \A f \in File, i \in 1 .. MaxChunks :
    (path = f /\ i <= Len(data[f]))
      ~> \/ path # f
         \/ f \in truncated
         \/ i <= tailedFrom[f]
         \/ <<f, i>> \in read \cup torn
=============================================================================
