--------------------------- MODULE BTGCheckProofs ---------------------------
(***************************************************************************)
(* Proofs about the break-glass check, for any number of threads, files,   *)
(* lines and faults.                                                       *)
(***************************************************************************)
EXTENDS BTGCheck, TLAPS

\* A call of the deduper leaves a deduper.
LEMMA DeduperType ==
  ASSUME NEW d \in D!DeduperState, NEW k \in Key, NEW now \in Nat
  PROVE  D!AfterShouldSend(d, k, now) \in D!DeduperState
  <1>1. D!Pruned(d, now) \in D!DeduperState
    BY DEF D!Pruned, D!DeduperState, D!Absent
  <1>2. QED
    BY <1>1 DEF D!AfterShouldSend, D!DeduperState

\* The offset a poll starts from is an offset.
LEMMA StartOffsetType ==
  ASSUME NEW found \in BOOLEAN, NEW size \in Nat, NEW fid \in File,
         found => cursor \in Checkpoint
  PROVE  StartOffset(found, size, fid) \in Nat
  BY DEF StartOffset, Checkpoint

\* A line has no chunk, one or two, and what it has is there.
LEMMA ConsumedBounds ==
  ASSUME NEW s \in Seq(Chunk), NEW p \in Nat
  PROVE  /\ Consumed(s, p) \in 0 .. 2
         /\ p <= Len(s) => p + Consumed(s, p) <= Len(s)
  BY DEF Consumed, HasHead

\* What a line matches is a key, or NoKey.
LEMMA MatchType ==
  ASSUME NEW s \in Seq(Chunk), NEW p \in Nat
  PROVE  Match(s, p) \in Key \cup {NoKey}
  <1>1. CASE p >= Len(s)
    BY <1>1 DEF Match
  <1>2. CASE p < Len(s)
    <2>1. p + 1 \in 1 .. Len(s) /\ p + Consumed(s, p) \in 1 .. Len(s)
      BY <1>2 DEF Consumed, HasHead
    <2>2. s[p + 1] \in Chunk /\ s[p + Consumed(s, p)] \in Chunk
      BY <2>1
    <2>3. QED
      BY <1>2, <2>2 DEF Match, Chunk
  <1>3. QED
    BY <1>1, <1>2

\* A poll that is over has no job left, or only what it has to say.
LEMMA NoJobType ==
  /\ NoJob \in Job
  /\ \A m \in SUBSET Alert : [NoJob EXCEPT !.msgs = m] \in Job
  <1>1. 1 \in File
    BY BTGAssumption DEF File
  <1>2. NoJob \in Job
    BY <1>1 DEF NoJob, Job
  <1>3. QED
    BY <1>1, <1>2 DEF NoJob, Job

\* Returning from processOnce keeps the shapes of the lock, the job and the pc.
LEMMA ReturnType ==
  ASSUME TypeOK, NEW t \in Thread, NEW msgs \in SUBSET Alert, Return(t, msgs)
  PROVE  /\ job' \in [Thread -> Job]
         /\ pc' \in [Thread -> PollState]
         /\ lock' \in Thread \cup {NoThread}
  BY NoJobType DEF Return, Goto, PollState, TypeOK

LEMMA InitType == Init => TypeOK
  <1> SUFFICES ASSUME Init PROVE TypeOK
    OBVIOUS
  <1>1. NoJob \in Job
    BY NoJobType
  <1>2. D!NewDeduper \in D!DeduperState
    BY DEF D!NewDeduper, D!DeduperState, D!Absent
  <1>3. QED
    BY <1>1, <1>2, BTGAssumption DEF Init, TypeOK, File, PollState

LEMMA TypeStep == TypeOK /\ [Next]_vars => TypeOK'
  <1> SUFFICES ASSUME TypeOK, [Next]_vars PROVE TypeOK'
    OBVIOUS
  <1> USE BTGAssumption DEF TypeOK
  <1>0. NoJob \in Job /\ D!NewDeduper \in D!DeduperState
    BY NoJobType DEF D!NewDeduper, D!DeduperState, D!Absent
  <1>1. ASSUME NEW t \in Thread, Call(t) PROVE TypeOK'
    BY <1>1 DEF Call, Goto, PollState, logVars, scanHistory
  <1>2. ASSUME NEW t \in Thread, Acquire(t) PROVE TypeOK'
    BY <1>2 DEF Acquire, Goto, PollState, logVars, scanHistory
  <1>3. ASSUME NEW t \in Thread, GiveUp(t) PROVE TypeOK'
    BY <1>3 DEF GiveUp, Goto, PollState, logVars, scanHistory
  <1>4. ASSUME NEW t \in Thread, Stat(t) PROVE TypeOK'
    <2>1. PICK found \in BOOLEAN :
            /\ \/ found = (cursor # NoCursor) /\ UNCHANGED faults
               \/ ~found /\ cursor # NoCursor /\ Fault("load")
            /\ LET start == StartOffset(found, Len(data[path]), FileID(path)) IN
               /\ job' = [job EXCEPT ![t] = [NoJob EXCEPT !.found = found, !.fid = FileID(path),
                                                          !.start = start, !.pos = start]]
               /\ tailedFrom' = IF ~found /\ start > tailedFrom[path]
                                THEN [tailedFrom EXCEPT ![path] = start] ELSE tailedFrom
      BY <1>4 DEF Stat
    <2> DEFINE start == StartOffset(found, Len(data[path]), path)
    <2>2. path \in File /\ Len(data[path]) \in Nat
      BY <1>4 DEF Stat
    <2>3. start \in Nat
      BY <2>1, <2>2, StartOffsetType
    <2> HIDE DEF start
    <2>4. faults' \in Nat
      BY <2>1 DEF Fault
    <2>5. tailedFrom' \in [File -> Nat]
      BY <2>1, <2>2, <2>3 DEF start, FileID
    <2>6. [NoJob EXCEPT !.found = found, !.fid = path, !.start = start, !.pos = start] \in Job
      BY <1>0, <2>2, <2>3 DEF NoJob, Job
    <2>7. job' \in [Thread -> Job]
      BY <2>1, <2>6 DEF start, FileID
    <2>8. QED
      BY <1>4, <2>4, <2>5, <2>7 DEF Stat, Goto, PollState, logVars
  <1>5. ASSUME NEW t \in Thread, Open(t) PROVE TypeOK'
    <2>1. job' \in [Thread -> Job]
      BY <1>5 DEF Open, Job
    <2>2. QED
      BY <1>5, <2>1 DEF Open, Goto, PollState, logVars, scanHistory
  <1>6. ASSUME NEW t \in Thread, NoRegularFile(t) PROVE TypeOK'
    BY <1>6, ReturnType DEF NoRegularFile, logVars, scanHistory
  <1>7. ASSUME NEW t \in Thread, ScanLine(t) PROVE TypeOK'
    <2> DEFINE j == job[t]
               s == data[j.file]
               n == Consumed(s, j.pos)
               key == Match(s, j.pos)
               alert == [place |-> <<j.file, j.pos + n>>, key |-> key, at |-> clock]
    <2>1. j \in Job /\ j.file \in File /\ j.pos \in Nat /\ j.msgs \subseteq Alert /\ s \in Seq(Chunk)
      BY DEF Job
    <2>2. n \in 0 .. 2 /\ key \in Key \cup {NoKey}
      BY <2>1, ConsumedBounds, MatchType
    <2>3. key # NoKey => alert \in Alert
      BY <2>1, <2>2 DEF Alert, Place
    <2>4. ded' \in D!DeduperState
      BY <1>7, <2>2, DeduperType DEF ScanLine
    <2> DEFINE msgs == IF key # NoKey /\ D!ShouldSend(ded, key, clock) THEN j.msgs \cup {alert} ELSE j.msgs
               pos == j.pos + n
    <2>5. msgs \in SUBSET Alert
      <3>1. CASE key = NoKey
        BY <2>1, <3>1
      <3>2. CASE key # NoKey
        BY <2>1, <2>3, <3>2
      <3>3. QED
        BY <3>1, <3>2
    <2>6. pos \in Nat
      BY <2>1, <2>2
    <2>7. job' = [job EXCEPT ![t].pos = pos, ![t].msgs = msgs]
      BY <1>7 DEF ScanLine
    <2> HIDE DEF msgs, pos
    <2>8. job' \in [Thread -> Job]
      <3> DEFINE new == [j EXCEPT !.pos = pos, !.msgs = msgs]
      <3>1. new \in Job
        BY <2>1, <2>5, <2>6 DEF Job
      <3>2. job' = [job EXCEPT ![t] = new]
        BY <2>1, <2>7 DEF Job
      <3> HIDE DEF new
      <3>3. QED
        BY <3>1, <3>2
    <2>9. QED
      BY <1>7, <2>4, <2>8 DEF ScanLine, Goto, PollState, logVars
  <1>8. ASSUME NEW t \in Thread, Cancelled(t) PROVE TypeOK'
    BY <1>8 DEF Cancelled, Goto, PollState, logVars, scanHistory
  <1>9. ASSUME NEW t \in Thread, Save(t) PROVE TypeOK'
    <2>1. job[t] \in Job /\ job[t].msgs \in SUBSET Alert
          /\ [fid |-> job[t].fid, off |-> job[t].pos] \in Checkpoint
      BY DEF Job, Checkpoint
    <2>2. QED
      BY <1>9, <2>1, ReturnType DEF Save, logVars, scanHistory
  <1>10. ASSUME NEW t \in Thread, Answer(t) PROVE TypeOK'
    BY <1>0, <1>10 DEF Answer, Finish, Goto, PollState, logVars, scanHistory
  <1>11. ASSUME NEW t \in Thread, Expire(t) PROVE TypeOK'
    BY <1>11 DEF Expire, Fault, logVars, scanHistory
  <1>12. ASSUME NEW t \in Thread, ReadFails(t) PROVE TypeOK'
    BY <1>12, ReturnType DEF ReadFails, Fault, logVars, scanHistory
  <1>13. ASSUME NEW t \in Thread, SaveFails(t) PROVE TypeOK'
    <2>1. job[t] \in Job /\ job[t].msgs \in SUBSET Alert
      BY DEF Job
    <2>2. QED
      BY <1>13, <2>1, ReturnType DEF SaveFails, Fault, logVars, scanHistory
  <1>14. ASSUME NEW t \in Thread, LateAnswer(t) PROVE TypeOK'
    BY <1>0, <1>14 DEF LateAnswer, Fault, Finish, Goto, PollState, logVars, scanHistory
  <1>15. ASSUME Crash PROVE TypeOK'
    BY <1>0, <1>15 DEF Crash, Fault, PollState, logVars, scanHistory
  <1>16. ASSUME NEW c \in Lines, Append1(c) PROVE TypeOK'
    <2>1. c \in Chunk
      OBVIOUS
    <2>2. data' \in [File -> Seq(Chunk)]
      BY <1>16, <2>1 DEF Append1
    <2>3. QED
      BY <1>16, <2>2 DEF Append1, scanHistory
  <1>17. ASSUME RenameAway PROVE TypeOK'
    BY <1>17 DEF RenameAway, scanHistory
  <1>18. ASSUME CreateNew PROVE TypeOK'
    BY <1>18 DEF CreateNew, scanHistory, File
  <1>19. ASSUME CopyTruncate PROVE TypeOK'
    BY <1>19 DEF CopyTruncate, Fault, scanHistory
  <1>20. ASSUME Tick PROVE TypeOK'
    BY <1>20 DEF Tick, logVars, scanHistory
  <1>21. ASSUME UNCHANGED vars PROVE TypeOK'
    BY <1>21 DEF vars, logVars, scanHistory
  <1>22. QED
    BY <1>1, <1>2, <1>3, <1>4, <1>5, <1>6, <1>7, <1>8, <1>9, <1>10, <1>11, <1>12, <1>13,
       <1>14, <1>15, <1>16, <1>17, <1>18, <1>19, <1>20, <1>21
    DEF Next, Poll, PollFault, Environment

-----------------------------------------------------------------------------
(***************************************************************************)
(* The checkpoint transaction.                                             *)
(***************************************************************************)

\* processMu: whoever is inside the transaction holds it.
LEMMA OneTransactionStep == TypeOK /\ OneTransaction /\ [Next]_vars => OneTransaction'
  <1> SUFFICES ASSUME TypeOK, OneTransaction, [Next]_vars PROVE OneTransaction'
    OBVIOUS
  <1> USE BTGAssumption DEF TypeOK, OneTransaction, InTransaction
  <1>1. ASSUME NEW t \in Thread, Poll(t) PROVE OneTransaction'
    <2>1. CASE Call(t) \/ GiveUp(t) \/ Stat(t) \/ Open(t) \/ ScanLine(t) \/ Cancelled(t)
      BY <2>1 DEF Call, GiveUp, Stat, Open, ScanLine, Cancelled, Goto
    <2>2. CASE Acquire(t)
      BY <2>2 DEF Acquire, Goto
    <2>3. CASE NoRegularFile(t) \/ Save(t)
      BY <2>3 DEF NoRegularFile, Save, Return, Goto
    <2>4. CASE Answer(t)
      BY <2>4 DEF Answer, Finish, Goto
    <2>5. QED
      BY <1>1, <2>1, <2>2, <2>3, <2>4 DEF Poll
  <1>2. ASSUME NEW t \in Thread, PollFault(t) PROVE OneTransaction'
    BY <1>2 DEF PollFault, Expire, ReadFails, SaveFails, LateAnswer, Return, Finish, Goto
  <1>3. CASE Crash
    BY <1>3 DEF Crash
  <1>4. CASE Environment \/ UNCHANGED vars
    BY <1>4 DEF Environment, Append1, RenameAway, CreateNew, CopyTruncate, Tick, vars, logVars
  <1>5. QED
    BY <1>1, <1>2, <1>3, <1>4 DEF Next

Progress == FilesInOrder /\ ScansSkipNothing /\ JobsPastCursor

\* A step that leaves the disk and the log alone, and every poll that is still under way
\* where it was.
StaysPut ==
  /\ UNCHANGED <<path, created, data, truncated, cursor, read, torn, tailedFrom>>
  /\ \A t \in Thread :
       /\ Located(t)' => Located(t) /\ job'[t] = job[t]
       /\ pc'[t] \in {"scan", "save"} => pc[t] \in {"scan", "save"}

LEMMA StaysPutKeeps == Progress /\ StaysPut => Progress'
  BY DEF Progress, StaysPut, FilesInOrder, ScansSkipNothing, JobsPastCursor, ReadUpTo,
         Places, Older, Located

\* Most steps of a poll, and every fault in one, stay put.
LEMMA QuietSteps ==
  ASSUME TypeOK, NEW t \in Thread,
         \/ Call(t) \/ Acquire(t) \/ GiveUp(t) \/ NoRegularFile(t) \/ Cancelled(t) \/ Answer(t)
         \/ PollFault(t)
  PROVE  StaysPut
  <1> USE DEF TypeOK, StaysPut, Located, Goto, logVars, scanHistory
  <1>1. CASE Call(t) \/ Acquire(t) \/ GiveUp(t) \/ Cancelled(t)
    BY <1>1 DEF Call, Acquire, GiveUp, Cancelled
  <1>2. CASE NoRegularFile(t) \/ ReadFails(t) \/ SaveFails(t)
    BY <1>2 DEF NoRegularFile, ReadFails, SaveFails, Return
  <1>3. CASE Answer(t) \/ LateAnswer(t)
    BY <1>3 DEF Answer, LateAnswer, Finish
  <1>4. CASE Expire(t)
    BY <1>4 DEF Expire
  <1>5. QED
    BY <1>1, <1>2, <1>3, <1>4 DEF PollFault

\* A poll's own file and places.
LEMMA JobFields ==
  ASSUME TypeOK, NEW t \in Thread
  PROVE  /\ job[t].fid \in File /\ job[t].fid \in Nat
         /\ job[t].file \in File /\ job[t].file \in Nat
         /\ job[t].start \in Nat /\ job[t].pos \in Nat
         /\ data[job[t].file] \in Seq(Chunk)
         /\ created \in Nat
  <1>1. job[t] \in Job
    BY DEF TypeOK
  <1>2. job[t].fid \in File /\ job[t].file \in File /\ job[t].start \in Nat /\ job[t].pos \in Nat
    BY <1>1 DEF Job
  <1>3. QED
    BY <1>2 DEF TypeOK, File

\* The checkpoint's file and place.
LEMMA CursorFields ==
  ASSUME TypeOK, cursor # NoCursor
  PROVE  cursor.fid \in File /\ cursor.fid \in Nat /\ cursor.off \in Nat
  BY DEF TypeOK, Checkpoint, File

\* ReadUpTo in the next state, for a file and an offset of this one.
ReadUpToNext(f, off) ==
  path' = f /\ f \notin truncated' =>
    off <= Len(data'[f]) /\ Places(f, tailedFrom'[f], off) \subseteq read' \cup torn'

\* What Progress says of one thread, in the next state.
PollNext(u) ==
  /\ job'[u].fid <= created'
  /\ pc'[u] # "open" => job'[u].fid <= job'[u].file /\ job'[u].file <= created'
  /\ ReadUpToNext(job'[u].fid, job'[u].pos)
  /\ job'[u].start <= job'[u].pos
  /\ job'[u].found =>
       /\ cursor' # NoCursor
       /\ \/ ~Older([fid |-> job'[u].fid, off |-> job'[u].start], cursor')
          \/ cursor'.fid \in truncated'

LEMMA ProgressNext ==
  ASSUME /\ path' \in {created', NoLog}
         /\ cursor' # NoCursor =>
              cursor'.fid <= created' /\ ReadUpToNext(cursor'.fid, cursor'.off),
         ASSUME NEW u \in Thread, pc'[u] \in {"open", "scan", "save"}
         PROVE  PollNext(u)
  PROVE  Progress'
  <1>1. FilesInOrder'
    BY DEF FilesInOrder, Located, PollNext
  <1>2. ScansSkipNothing'
    BY DEF ScansSkipNothing, Located, ReadUpTo, ReadUpToNext, Places, PollNext
  <1>3. JobsPastCursor'
    BY DEF JobsPastCursor, Located, Older, PollNext
  <1>4. QED
    BY <1>1, <1>2, <1>3 DEF Progress

\* Stat begins a poll at the checkpoint, or at the front of a rotated or truncated log.
LEMMA StatProgress ==
  ASSUME TypeOK, Progress, NEW t \in Thread, Stat(t)
  PROVE  Progress'
  <1>1. PICK found \in BOOLEAN :
          /\ found => cursor # NoCursor
          /\ LET start == StartOffset(found, Len(data[path]), FileID(path)) IN
             /\ job' = [job EXCEPT ![t] = [NoJob EXCEPT !.found = found, !.fid = FileID(path),
                                                        !.start = start, !.pos = start]]
             /\ tailedFrom' = IF ~found /\ start > tailedFrom[path]
                              THEN [tailedFrom EXCEPT ![path] = start] ELSE tailedFrom
    BY DEF Stat
  <1> DEFINE start == StartOffset(found, Len(data[path]), path)
  <1>2. /\ path \in File /\ path = created /\ path \in Nat /\ Len(data[path]) \in Nat
        /\ found => cursor \in Checkpoint /\ cursor.fid \in Nat /\ cursor.off \in Nat
                    /\ cursor.fid <= path
    <2>1. path \in File /\ path = created
      BY BTGAssumption DEF Stat, Progress, FilesInOrder
    <2>2. path \in Nat /\ Len(data[path]) \in Nat
      BY <2>1 DEF TypeOK, File
    <2>3. ASSUME found
          PROVE  /\ cursor \in Checkpoint /\ cursor.fid \in Nat /\ cursor.off \in Nat
                 /\ cursor.fid <= path
      BY <1>1, <2>1, <2>3 DEF Progress, FilesInOrder, TypeOK, Checkpoint, File
    <2>4. QED
      BY <2>1, <2>2, <2>3
  <1>3. start \in Nat
    BY <1>2, StartOffsetType
  <1>4. /\ job'[t] = [NoJob EXCEPT !.found = found, !.fid = path, !.start = start, !.pos = start]
        /\ job'[t].found = found /\ job'[t].fid = path
        /\ job'[t].start = start /\ job'[t].pos = start
        /\ \A u \in Thread : u # t => job'[u] = job[u]
    BY <1>1 DEF FileID, NoJob, TypeOK
  <1>5. /\ pc'[t] = "open" /\ \A u \in Thread : u # t => pc'[u] = pc[u]
        /\ UNCHANGED <<path, created, data, truncated, cursor, read, torn>>
    BY DEF Stat, Goto, TypeOK, logVars
  <1>6. tailedFrom' \in [File -> Nat] /\ \A f \in File : tailedFrom'[f] >= tailedFrom[f]
    BY <1>1, <1>2, <1>3 DEF TypeOK, FileID
  <1>7. ~found => tailedFrom'[path] >= start
    BY <1>1, <1>2, <1>3 DEF TypeOK, FileID
  <1> HIDE DEF start
  <1>8. \A f \in File, off \in Nat : ReadUpTo(f, off) => ReadUpToNext(f, off)
    BY <1>5, <1>6 DEF ReadUpTo, ReadUpToNext, Places, TypeOK
  <1>9. ReadUpToNext(path, start)
    <2>1. CASE ~found
      <3>1. start <= Len(data[path])
        BY <1>2, <2>1 DEF start, StartOffset
      <3>2. Places(path, tailedFrom'[path], start) = {}
        BY <1>2, <1>3, <1>6, <1>7, <2>1 DEF Places
      <3>3. QED
        BY <1>5, <3>1, <3>2 DEF ReadUpToNext
    <2>2. CASE found /\ start = cursor.off /\ cursor.fid = path
      BY <1>1, <1>2, <1>8, <2>2 DEF Progress, ScansSkipNothing
    <2>3. CASE found /\ start = 0
      <3>1. Places(path, tailedFrom'[path], start) = {}
        BY <1>2, <1>6, <2>3 DEF Places
      <3>2. QED
        BY <1>2, <1>5, <2>3, <3>1 DEF ReadUpToNext
    <2>4. QED
      BY <2>1, <2>2, <2>3 DEF start, StartOffset
  <1>10. found => ~Older([fid |-> path, off |-> start], cursor) \/ cursor.fid \in truncated
    <2> SUFFICES ASSUME found, cursor.fid \notin truncated
                 PROVE ~Older([fid |-> path, off |-> start], cursor)
      OBVIOUS
    <2>1. cursor.fid = path => cursor.off <= Len(data[path])
      BY <1>1, <1>2 DEF Progress, ScansSkipNothing, ReadUpTo
    <2>2. QED
      BY <1>2, <2>1 DEF Older, start, StartOffset
  <1>11. cursor' # NoCursor => cursor'.fid <= created' /\ ReadUpToNext(cursor'.fid, cursor'.off)
    BY <1>5, <1>8 DEF Progress, FilesInOrder, ScansSkipNothing, TypeOK, Checkpoint
  <1>12. ASSUME NEW u \in Thread, u # t, Located(u)
         PROVE ReadUpToNext(job[u].fid, job[u].pos)
    BY <1>8, <1>12 DEF Progress, ScansSkipNothing, TypeOK, Job
  <1>13. path' \in {created', NoLog}
    BY <1>2, <1>5
  <1>14. ASSUME NEW u \in Thread, pc'[u] \in {"open", "scan", "save"}
         PROVE  PollNext(u)
    <2>1. CASE u = t
      BY <1>1, <1>2, <1>3, <1>4, <1>5, <1>9, <1>10, <2>1 DEF PollNext
    <2>2. CASE u # t
      BY <1>4, <1>5, <1>12, <1>14, <2>2 DEF Progress, FilesInOrder, JobsPastCursor, Located, PollNext
    <2>3. QED
      BY <2>1, <2>2
  <1>15. QED
    BY <1>11, <1>13, <1>14, ProgressNext

\* Open finds the file that was stat'ed, or its successor.
LEMMA OpenProgress ==
  ASSUME TypeOK, Progress, NEW t \in Thread, Open(t)
  PROVE  Progress'
  <1>1. path \in File /\ path = created /\ job[t].fid <= created
    BY BTGAssumption DEF Open, Progress, FilesInOrder, Located, TypeOK, File
  <1>2. /\ job'[t] = [job[t] EXCEPT !.file = path]
        /\ \A u \in Thread : u # t => job'[u] = job[u]
    BY DEF Open, TypeOK
  <1>3. /\ pc[t] = "open" /\ pc'[t] = "scan" /\ \A u \in Thread : u # t => pc'[u] = pc[u]
        /\ UNCHANGED <<path, created, data, truncated, cursor, read, torn, tailedFrom>>
    BY DEF Open, Goto, TypeOK, logVars, scanHistory
  <1>4. /\ job'[t].fid = job[t].fid /\ job'[t].file = path /\ job'[t].found = job[t].found
        /\ job'[t].start = job[t].start /\ job'[t].pos = job[t].pos
    BY <1>2 DEF TypeOK, Job
  <1>5. \A f, off : ReadUpTo(f, off) => ReadUpToNext(f, off)
    BY <1>3 DEF ReadUpTo, ReadUpToNext, Places
  <1>6. cursor' # NoCursor => cursor'.fid <= created' /\ ReadUpToNext(cursor'.fid, cursor'.off)
    BY <1>3, <1>5 DEF Progress, FilesInOrder, ScansSkipNothing
  <1>7. ASSUME NEW u \in Thread, pc'[u] \in {"open", "scan", "save"}
        PROVE  PollNext(u)
    <2>1. Located(u) /\ ReadUpToNext(job[u].fid, job[u].pos)
      BY <1>3, <1>5, <1>7 DEF Progress, ScansSkipNothing, Located
    <2>2. CASE u = t
      BY <1>1, <1>3, <1>4, <2>1, <2>2 DEF Progress, JobsPastCursor, TypeOK, File, PollNext
    <2>3. CASE u # t
      BY <1>2, <1>3, <1>7, <2>1, <2>3 DEF Progress, FilesInOrder, JobsPastCursor, PollNext
    <2>4. QED
      BY <2>2, <2>3
  <1>8. path' \in {created', NoLog}
    BY <1>1, <1>3
  <1>9. QED
    BY <1>6, <1>7, <1>8, ProgressNext

\* A scanned line is behind the poll, and handed to the matcher or seen torn.
LEMMA ScanLineProgress ==
  ASSUME TypeOK, Progress, NEW t \in Thread, ScanLine(t)
  PROVE  Progress'
  <1> DEFINE j == job[t]
             s == data[j.file]
             n == Consumed(s, j.pos)
  <1>1. /\ j.fid \in Nat /\ j.file \in File /\ j.file \in Nat /\ created \in Nat
        /\ j.pos \in Nat /\ j.start \in Nat /\ s \in Seq(Chunk) /\ j.fid \in File
    BY JobFields
  <1>2. n \in Nat /\ (j.pos <= Len(s) => j.pos + n <= Len(s))
    BY <1>1, ConsumedBounds
  <1>3. /\ pc[t] = "scan" /\ pc'[t] \in {"scan", "save"} /\ \A u \in Thread : u # t => pc'[u] = pc[u]
        /\ UNCHANGED <<path, created, data, truncated, cursor, tailedFrom>>
        /\ \A u \in Thread : u # t => job'[u] = job[u]
    BY DEF ScanLine, Goto, TypeOK, logVars
  <1>4. /\ job'[t].fid = j.fid /\ job'[t].file = j.file /\ job'[t].found = j.found
        /\ job'[t].start = j.start /\ job'[t].pos = j.pos + n
    BY DEF ScanLine, TypeOK, Job
  <1>5. read \cup torn \cup Places(j.file, j.pos, j.pos + n) \subseteq read' \cup torn'
    BY DEF ScanLine, Places
  <1> HIDE DEF n
  <1>6. \A f, off : ReadUpTo(f, off) => ReadUpToNext(f, off)
    BY <1>3, <1>5 DEF ReadUpTo, ReadUpToNext, Places
  <1>7. cursor' # NoCursor => cursor'.fid <= created' /\ ReadUpToNext(cursor'.fid, cursor'.off)
    BY <1>3, <1>6 DEF Progress, FilesInOrder, ScansSkipNothing
  <1>8. ReadUpToNext(j.fid, j.pos + n)
    <2> SUFFICES ASSUME path = j.fid, j.fid \notin truncated
                 PROVE  /\ j.pos + n <= Len(data[j.fid])
                        /\ Places(j.fid, tailedFrom[j.fid], j.pos + n) \subseteq read' \cup torn'
      BY <1>3 DEF ReadUpToNext
    <2>1. j.file = j.fid /\ j.fid \in File
      BY <1>1, <1>3, BTGAssumption DEF Progress, FilesInOrder, TypeOK, Job
    <2>2. j.pos <= Len(s) /\ Places(j.fid, tailedFrom[j.fid], j.pos) \subseteq read \cup torn
      BY <1>3, <2>1 DEF Progress, ScansSkipNothing, Located, ReadUpTo
    <2>3. tailedFrom[j.fid] \in Nat
      BY <2>1 DEF TypeOK
    <2>4. Places(j.fid, tailedFrom[j.fid], j.pos + n)
            \subseteq Places(j.fid, tailedFrom[j.fid], j.pos) \cup Places(j.file, j.pos, j.pos + n)
      BY <1>1, <1>2, <2>1, <2>3 DEF Places
    <2>5. QED
      BY <1>2, <1>5, <2>1, <2>2, <2>4
  <1>9. ASSUME NEW u \in Thread, pc'[u] \in {"open", "scan", "save"}
        PROVE  PollNext(u)
    <2>1. CASE u = t
      <3>1. j.fid <= j.file /\ j.file <= created
        BY <1>3 DEF Progress, FilesInOrder
      <3>2. j.start <= j.pos + n
        <4>1. j.start <= j.pos
          BY <1>3 DEF Progress, JobsPastCursor, Located
        <4>2. QED
          BY <1>1, <1>2, <4>1
      <3>3. j.found =>
              /\ cursor # NoCursor
              /\ \/ ~Older([fid |-> j.fid, off |-> j.start], cursor)
                 \/ cursor.fid \in truncated
        BY <1>3 DEF Progress, JobsPastCursor, Located
      <3>4. QED
        BY <1>1, <1>3, <1>4, <1>8, <2>1, <3>1, <3>2, <3>3 DEF PollNext
    <2>2. CASE u # t
      BY <1>3, <1>6, <1>9, <2>2
      DEF Progress, FilesInOrder, ScansSkipNothing, JobsPastCursor, Located, PollNext
    <2>3. QED
      BY <2>1, <2>2
  <1>10. QED
    BY <1>3, <1>7, <1>9, ProgressNext DEF Progress, FilesInOrder

\* Saving: nobody else is under way, and the poll that saves is where it says.
LEMMA SaveProgress ==
  ASSUME TypeOK, OneTransaction, Progress, NEW t \in Thread, Save(t)
  PROVE  Progress'
  <1>1. /\ pc[t] = "save" /\ pc'[t] = "answer" /\ \A u \in Thread : u # t => pc'[u] = pc[u]
        /\ UNCHANGED <<path, created, data, truncated, read, torn, tailedFrom>>
        /\ cursor'.fid = job[t].fid /\ cursor'.off = job[t].pos
    BY DEF Save, Return, Goto, TypeOK, logVars, scanHistory
  <1>2. \A f, off : ReadUpTo(f, off) => ReadUpToNext(f, off)
    BY <1>1 DEF ReadUpTo, ReadUpToNext, Places
  <1>3. cursor'.fid <= created' /\ ReadUpToNext(cursor'.fid, cursor'.off)
    BY <1>1, <1>2 DEF Progress, FilesInOrder, ScansSkipNothing, Located
  <1>4. ASSUME NEW u \in Thread, pc'[u] \in {"open", "scan", "save"}
        PROVE  FALSE
    <2>1. u # t /\ InTransaction(u) /\ InTransaction(t)
      BY <1>1, <1>4 DEF InTransaction
    <2>2. QED
      BY <2>1 DEF OneTransaction
  <1>5. QED
    BY <1>1, <1>3, <1>4, ProgressNext DEF Progress, FilesInOrder

\* The daemon and logrotate: what was read of the file at the path stays read, and a file
\* that left the path does not return.
LEMMA LogProgress ==
  ASSUME TypeOK, Progress, (\E c \in Lines : Append1(c)) \/ RenameAway \/ CreateNew \/ CopyTruncate
  PROVE  Progress'
  <1> USE BTGAssumption
  <1>1. UNCHANGED <<cursor, pc, job, read, torn, tailedFrom>>
    BY DEF Append1, RenameAway, CreateNew, CopyTruncate, scanHistory
  <1>2. /\ created \in Nat /\ created' \in Nat /\ created <= created' /\ truncated \subseteq truncated'
        /\ path' \in {created', NoLog}
    <2>1. created \in Nat /\ path \in {created, NoLog}
      BY DEF TypeOK, File, Progress, FilesInOrder
    <2>2. CASE (\E c \in Lines : Append1(c)) \/ CopyTruncate
      BY <2>1, <2>2 DEF Append1, CopyTruncate
    <2>3. CASE RenameAway \/ CreateNew
      BY <2>1, <2>3 DEF RenameAway, CreateNew
    <2>4. QED
      BY <2>2, <2>3
  <1>3. ASSUME NEW f \in File, NEW off \in Nat, f <= created, ReadUpTo(f, off)
        PROVE  ReadUpToNext(f, off)
    <2> SUFFICES ASSUME path' = f, f \notin truncated'
                 PROVE  off <= Len(data'[f]) /\ Places(f, tailedFrom[f], off) \subseteq read \cup torn
      BY <1>1 DEF ReadUpToNext
    <2>1. CASE CreateNew \/ RenameAway \/ CopyTruncate
      BY <1>2, <1>3, <2>1 DEF CreateNew, RenameAway, CopyTruncate, ReadUpTo, TypeOK, File
    <2>2. CASE \E c \in Lines : Append1(c)
      <3>1. PICK c \in Chunk : Append1(c)
        BY <2>2
      <3>2. Len(data[f]) \in Nat /\ data'[f] = Append(data[f], c) /\ path = f /\ f \notin truncated
        BY <3>1 DEF Append1, TypeOK
      <3>3. Len(data'[f]) = Len(data[f]) + 1
        BY <3>2 DEF TypeOK
      <3>4. QED
        BY <1>3, <3>2, <3>3 DEF ReadUpTo
    <2>3. QED
      BY <2>1, <2>2
  <1>4. cursor' # NoCursor => cursor'.fid <= created' /\ ReadUpToNext(cursor'.fid, cursor'.off)
    <2> SUFFICES ASSUME cursor # NoCursor
                 PROVE  cursor.fid <= created' /\ ReadUpToNext(cursor.fid, cursor.off)
      BY <1>1
    <2>1. cursor.fid \in File /\ cursor.fid \in Nat /\ cursor.off \in Nat /\ cursor.fid <= created
      BY CursorFields DEF Progress, FilesInOrder
    <2>2. QED
      BY <1>2, <1>3, <2>1 DEF Progress, ScansSkipNothing
  <1>5. ASSUME NEW u \in Thread, pc'[u] \in {"open", "scan", "save"}
        PROVE  PollNext(u)
    <2>1. /\ job[u].fid \in File /\ job[u].fid \in Nat /\ job[u].pos \in Nat /\ job[u].file \in Nat
          /\ Located(u) /\ job[u].fid <= created
      BY <1>1, <1>5, JobFields DEF Progress, FilesInOrder, Located
    <2>2. ReadUpToNext(job[u].fid, job[u].pos)
      BY <1>3, <2>1 DEF Progress, ScansSkipNothing
    <2>3. QED
      BY <1>1, <1>2, <1>5, <2>1, <2>2 DEF Progress, FilesInOrder, JobsPastCursor, PollNext
  <1>6. QED
    BY <1>2, <1>4, <1>5, ProgressNext

LEMMA CheckpointStep == CheckpointInvariant /\ [Next]_vars => CheckpointInvariant'
  <1> SUFFICES ASSUME TypeOK, OneTransaction, Progress, [Next]_vars
               PROVE  TypeOK' /\ OneTransaction' /\ Progress'
    BY DEF CheckpointInvariant, Progress
  <1>1. ASSUME NEW t \in Thread, Poll(t) PROVE Progress'
    BY <1>1, QuietSteps, StaysPutKeeps, StatProgress, OpenProgress, ScanLineProgress, SaveProgress
    DEF Poll
  <1>2. ASSUME NEW t \in Thread, PollFault(t) PROVE Progress'
    BY <1>2, QuietSteps, StaysPutKeeps
  <1>3. ASSUME Crash PROVE Progress'
    <2>1. StaysPut
      BY <1>3 DEF Crash, StaysPut, Located, logVars, scanHistory
    <2>2. QED
      BY <2>1, StaysPutKeeps
  <1>4. ASSUME Tick \/ UNCHANGED vars PROVE Progress'
    <2>1. StaysPut
      BY <1>4 DEF Tick, vars, StaysPut, Located, logVars, scanHistory
    <2>2. QED
      BY <2>1, StaysPutKeeps
  <1>5. ASSUME (\E c \in Lines : Append1(c)) \/ RenameAway \/ CreateNew \/ CopyTruncate
        PROVE  Progress'
    BY <1>5, LogProgress
  <1>6. Progress'
    BY <1>1, <1>2, <1>3, <1>4, <1>5 DEF Next, Environment
  <1>7. QED
    BY <1>6, TypeStep, OneTransactionStep

\* The checkpoint transaction is sound: mutual exclusion, files in order, and every poll
\* between the checkpoint and its own place (processOnce, main.go:257-397).
THEOREM CheckpointInvariantHolds == Spec => []CheckpointInvariant
  <1>1. Init => CheckpointInvariant
    <2> SUFFICES ASSUME Init PROVE CheckpointInvariant
      OBVIOUS
    <2>1. TypeOK
      BY InitType
    <2>2. OneTransaction /\ FilesInOrder /\ ScansSkipNothing /\ JobsPastCursor
      BY DEF Init, OneTransaction, InTransaction, FilesInOrder, ScansSkipNothing, JobsPastCursor, Located
    <2>3. QED
      BY <2>1, <2>2 DEF CheckpointInvariant
  <1>2. QED
    BY <1>1, CheckpointStep, PTL DEF Spec

\* What lies behind the checkpoint was read, whatever the daemon, logrotate, crashes and
\* timeouts did in between (main.go:289-397).
THEOREM PollsSkipNothing == Spec => []NothingSkipped
  <1>1. CheckpointInvariant => NothingSkipped
    BY DEF CheckpointInvariant, ScansSkipNothing, ReadUpTo, NothingSkipped
  <1>2. QED
    BY <1>1, CheckpointInvariantHolds, PTL

\* A poll that loaded the checkpoint never moves it back (main.go:49-52).
THEOREM CheckpointIsMonotone == Spec => CheckpointNeverRegresses
  <1> DEFINE Step ==
        \A t \in Thread : pc[t] = "save" /\ pc'[t] = "answer" /\ job[t].found /\ cursor' # cursor
          => ~Older(cursor', cursor) \/ cursor.fid \in truncated
  <1>1. CheckpointInvariant /\ [Next]_vars => Step
    <2> SUFFICES ASSUME CheckpointInvariant, [Next]_vars, NEW t \in Thread,
                        pc[t] = "save", pc'[t] = "answer", job[t].found, cursor' # cursor
                 PROVE  ~Older(cursor', cursor) \/ cursor.fid \in truncated
      OBVIOUS
    <2>1. PICK u \in Thread : Save(u)
      BY DEF Next, Poll, PollFault, Environment, Call, Acquire, GiveUp, Stat, Open, NoRegularFile,
             ScanLine, Cancelled, Answer, Expire, ReadFails, SaveFails, LateAnswer, Crash,
             Append1, RenameAway, CreateNew, CopyTruncate, Tick, vars
    <2>2. u = t
      BY <2>1 DEF Save, Return, Goto, CheckpointInvariant, TypeOK
    <2>3. cursor'.fid = job[t].fid /\ cursor'.off = job[t].pos
      BY <2>1, <2>2 DEF Save
    <2>4. /\ job[t].start <= job[t].pos /\ job[t].start \in Nat /\ job[t].pos \in Nat
          /\ job[t].fid \in Nat
          /\ cursor.fid \in Nat /\ cursor.off \in Nat
          /\ \/ ~Older([fid |-> job[t].fid, off |-> job[t].start], cursor)
             \/ cursor.fid \in truncated
      BY JobFields, CursorFields DEF CheckpointInvariant, JobsPastCursor, Located
    <2>5. QED
      BY <2>3, <2>4 DEF Older
  <1>2. QED
    BY <1>1, CheckpointInvariantHolds, PTL DEF Spec, CheckpointNeverRegresses

-----------------------------------------------------------------------------
(***************************************************************************)
(* The alerts.                                                             *)
(***************************************************************************)

\* What shouldSend's answer rests on, and what it leaves in the map.
LEMMA ShouldSendFacts ==
  ASSUME NEW d \in D!DeduperState, NEW k \in Key, NEW now \in Nat
  PROVE  /\ ~D!ShouldSend(d, k, now) => d.last[k] # D!Absent /\ now - d.last[k] <= TTL
         /\ \A i \in Key :
              \/ D!AfterShouldSend(d, k, now).last[i] = d.last[i]
              \/ D!AfterShouldSend(d, k, now).last[i] = D!Absent
              \/ i = k /\ D!ShouldSend(d, k, now) /\ D!AfterShouldSend(d, k, now).last[i] = now
  <1>1. /\ D!Pruned(d, now) \in D!DeduperState
        /\ \A i \in Key : D!Pruned(d, now).last[i] \in {d.last[i], D!Absent}
    BY DEF D!Pruned, D!DeduperState, D!Absent
  <1>2. QED
    BY <1>1 DEF D!ShouldSend, D!Suppresses, D!AfterShouldSend, D!DeduperState

\* Returning takes along exactly what it is told to.
LEMMA ReturnMsgs ==
  ASSUME TypeOK, NEW t \in Thread, NEW msgs, Return(t, msgs)
  PROVE  job'[t].msgs = msgs /\ \A u \in Thread : u # t => job'[u] = job[u]
  BY DEF Return, NoJob, TypeOK

\* Scanning a line adds at most one alert to what the poll has to say.
LEMMA ScanLineMsgs ==
  ASSUME TypeOK, NEW t \in Thread, ScanLine(t)
  PROVE  /\ job[t].msgs \subseteq job'[t].msgs
         /\ \A u \in Thread : u # t => job'[u] = job[u]
  <1>1. job[t] \in Job
    BY DEF TypeOK
  <1>2. QED
    BY <1>1 DEF ScanLine, TypeOK, Job

SaidLater == \A t \in Thread : pc[t] \in {"idle", "waiting", "stat", "open"} => job[t].msgs = {}

\* No step loses sight of an alert: it moves from a poll to the agent, or to one of the
\* ways of losing it.
LEMMA LedgerGrows == TypeOK /\ SaidLater /\ [Next]_vars => Ledger \subseteq Ledger' /\ SaidLater'
  <1> SUFFICES ASSUME TypeOK, SaidLater, [Next]_vars
               PROVE  Ledger \subseteq Ledger' /\ SaidLater'
    OBVIOUS
  <1>a. NoJob.msgs = {}
    BY DEF NoJob
  <1>b. ASSUME /\ reported \subseteq reported' /\ lost \subseteq lost' /\ discarded \subseteq discarded'
               /\ \A u \in Thread : job[u].msgs \subseteq job'[u].msgs \cup reported' \cup lost' \cup discarded'
        PROVE  Ledger \subseteq Ledger'
    BY <1>b DEF Ledger, InFlight
  <1>1. ASSUME NEW t \in Thread, Call(t) \/ Acquire(t) \/ GiveUp(t) \/ Cancelled(t) \/ Expire(t)
        PROVE  Ledger \subseteq Ledger' /\ SaidLater'
    BY <1>b, <1>1 DEF Call, Acquire, GiveUp, Cancelled, Expire, Goto, SaidLater, TypeOK, alertHistory
  <1>2. ASSUME NEW t \in Thread, Stat(t) \/ Open(t)
        PROVE  Ledger \subseteq Ledger' /\ SaidLater'
    <2>1. job[t].msgs = {} /\ job[t] \in Job
      BY <1>2 DEF Stat, Open, SaidLater, TypeOK
    <2>2. job'[t].msgs = {} /\ \A u \in Thread : u # t => job'[u] = job[u]
      <3>1. CASE Stat(t)
        <4>1. PICK found, start :
                job' = [job EXCEPT ![t] = [NoJob EXCEPT !.found = found, !.fid = FileID(path),
                                                        !.start = start, !.pos = start]]
          BY <3>1 DEF Stat
        <4>2. QED
          BY <4>1 DEF NoJob, TypeOK
      <3>2. CASE Open(t)
        BY <2>1, <3>2 DEF Open, TypeOK, Job
      <3>3. QED
        BY <1>2, <3>1, <3>2
    <2>3. QED
      BY <1>2, <1>b, <2>1, <2>2 DEF Stat, Open, Goto, SaidLater, TypeOK, alertHistory
  <1>3. ASSUME NEW t \in Thread, NoRegularFile(t) \/ Save(t) \/ SaveFails(t) \/ ReadFails(t)
        PROVE  Ledger \subseteq Ledger' /\ SaidLater'
    <2>1. PICK msgs : Return(t, msgs) /\ (msgs = job[t].msgs \/ msgs = {})
                      /\ (msgs = {} => job[t].msgs \subseteq discarded')
                      /\ discarded \subseteq discarded' /\ UNCHANGED <<reported, lost>>
      <3>1. CASE NoRegularFile(t)
        BY <3>1 DEF NoRegularFile, SaidLater, alertHistory
      <3>2. CASE Save(t)
        BY <3>2 DEF Save, alertHistory
      <3>3. CASE SaveFails(t)
        BY <3>3 DEF SaveFails, alertHistory
      <3>4. CASE ReadFails(t)
        BY <3>4 DEF ReadFails
      <3>5. QED
        BY <1>3, <3>1, <3>2, <3>3, <3>4
    <2>2. job'[t].msgs = msgs /\ \A u \in Thread : u # t => job'[u] = job[u]
      BY <2>1, ReturnMsgs
    <2>3. QED
      BY <1>b, <2>1, <2>2 DEF Return, Goto, SaidLater, TypeOK
  <1>4. ASSUME NEW t \in Thread, ScanLine(t)
        PROVE  Ledger \subseteq Ledger' /\ SaidLater'
    BY <1>4, <1>b, ScanLineMsgs DEF ScanLine, Goto, SaidLater, TypeOK
  <1>5. ASSUME NEW t \in Thread, Answer(t) \/ LateAnswer(t)
        PROVE  Ledger \subseteq Ledger' /\ SaidLater'
    BY <1>5, <1>a, <1>b DEF Answer, LateAnswer, Finish, Goto, SaidLater, TypeOK
  <1>6. ASSUME Crash
        PROVE  Ledger \subseteq Ledger' /\ SaidLater'
    BY <1>6, <1>a, <1>b DEF Crash, SaidLater
  <1>7. ASSUME Environment \/ UNCHANGED vars
        PROVE  Ledger \subseteq Ledger' /\ SaidLater'
    BY <1>7, <1>b DEF Environment, Append1, RenameAway, CreateNew, CopyTruncate, Tick, vars, alertHistory,
                   SaidLater
  <1>8. QED
    BY <1>1, <1>2, <1>3, <1>4, <1>5, <1>6, <1>7 DEF Next, Poll, PollFault

\* Each stamp in the deduper's map belongs to an alert of the ledger.
StampsAccounted ==
  \A k \in Key : ded.last[k] # D!Absent =>
    ded.last[k] <= clock /\ \E s \in Ledger : s.key = k /\ s.at = ded.last[k]

LEMMA ScanLineAccounts ==
  ASSUME TypeOK, SaidLater, StampsAccounted, HeldOnlyBehindAlert, NEW t \in Thread, ScanLine(t),
         Ledger \subseteq Ledger'
  PROVE  StampsAccounted' /\ HeldOnlyBehindAlert'
  <1> DEFINE j == job[t]
             s == data[j.file]
             n == Consumed(s, j.pos)
             key == Match(s, j.pos)
             alert == [place |-> <<j.file, j.pos + n>>, key |-> key, at |-> clock]
             sends == key # NoKey /\ D!ShouldSend(ded, key, clock)
  <1>1. key \in Key \cup {NoKey} /\ clock \in Nat /\ ded \in D!DeduperState
    BY JobFields, MatchType DEF TypeOK
  <1>2. /\ clock' = clock
        /\ ded' = IF key = NoKey THEN ded ELSE D!AfterShouldSend(ded, key, clock)
        /\ held' = IF key # NoKey /\ ~sends THEN held \cup {alert} ELSE held
        /\ job' = [job EXCEPT ![t].pos = j.pos + n,
                              ![t].msgs = IF sends THEN j.msgs \cup {alert} ELSE j.msgs]
    BY DEF ScanLine
  <1>3. alert.key = key /\ alert.at = clock
    OBVIOUS
  <1> HIDE DEF key, alert, sends
  <1>4. sends => alert \in Ledger'
    <2>1. sends => alert \in job'[t].msgs
      BY <1>2 DEF TypeOK, Job
    <2>2. QED
      BY <2>1 DEF Ledger, InFlight
  <1>5. ASSUME NEW k \in Key, ded'.last[k] # D!Absent
        PROVE  ded'.last[k] <= clock /\ \E a \in Ledger' : a.key = k /\ a.at = ded'.last[k]
    <2>1. CASE ded'.last[k] = ded.last[k]
      BY <1>5, <2>1 DEF StampsAccounted
    <2>2. CASE k = key /\ sends /\ ded'.last[k] = clock
      BY <1>1, <1>3, <1>4, <2>2
    <2>3. key # NoKey => \/ ded'.last[k] = ded.last[k]
                         \/ ded'.last[k] = D!Absent
                         \/ k = key /\ D!ShouldSend(ded, key, clock) /\ ded'.last[k] = clock
      BY <1>1, <1>2, ShouldSendFacts
    <2>4. QED
      BY <1>2, <1>5, <2>1, <2>2, <2>3 DEF sends
  <1>6. StampsAccounted'
    BY <1>2, <1>5 DEF StampsAccounted
  <1>7. key # NoKey /\ ~sends => \E a \in Ledger' : Covers(a, alert)
    <2> SUFFICES ASSUME key # NoKey, ~sends PROVE \E a \in Ledger' : Covers(a, alert)
      OBVIOUS
    <2>1. key \in Key /\ ~D!ShouldSend(ded, key, clock)
      BY <1>1 DEF sends
    <2>2. ded.last[key] # D!Absent /\ clock - ded.last[key] <= TTL
      BY <1>1, <2>1, ShouldSendFacts
    <2>3. PICK a \in Ledger : a.key = key /\ a.at = ded.last[key] /\ ded.last[key] <= clock
      BY <2>1, <2>2 DEF StampsAccounted
    <2>4. QED
      BY <1>3, <2>2, <2>3 DEF Covers
  <1>8. HeldOnlyBehindAlert'
    <2>1. \A h \in held : \E a \in Ledger' : Covers(a, h)
      BY DEF HeldOnlyBehindAlert
    <2>2. \A h \in held' : \E a \in Ledger' : Covers(a, h)
      BY <1>2, <1>7, <2>1
    <2>3. QED
      BY <2>2 DEF HeldOnlyBehindAlert, Covers
  <1>9. QED
    BY <1>6, <1>8

LEMMA AlertsStep == TypeOK /\ AlertsAccounted /\ [Next]_vars => AlertsAccounted'
  <1> SUFFICES ASSUME TypeOK, SaidLater, StampsAccounted, HeldOnlyBehindAlert, [Next]_vars
               PROVE  SaidLater' /\ StampsAccounted' /\ HeldOnlyBehindAlert'
    BY DEF AlertsAccounted, SaidLater, StampsAccounted
  <1>1. Ledger \subseteq Ledger' /\ SaidLater'
    BY LedgerGrows
  <1>2. ASSUME NEW t \in Thread, ScanLine(t)
        PROVE  StampsAccounted' /\ HeldOnlyBehindAlert'
    BY <1>1, <1>2, ScanLineAccounts
  <1>3. ASSUME held' = held, clock' >= clock, \/ ded' = ded
                                              \/ \A k \in Key : ded'.last[k] = D!Absent
        PROVE  StampsAccounted' /\ HeldOnlyBehindAlert'
    <2>1. clock \in Nat /\ \A k \in Key : ded.last[k] \in Nat
      BY DEF TypeOK, D!DeduperState
    <2>2. \A k \in Key : ded'.last[k] # D!Absent =>
            ded'.last[k] <= clock' /\ \E s \in Ledger' : s.key = k /\ s.at = ded'.last[k]
      <3>1. CASE ded' = ded
        <4> SUFFICES ASSUME NEW k \in Key, ded.last[k] # D!Absent
                     PROVE  ded.last[k] <= clock' /\ \E s \in Ledger' : s.key = k /\ s.at = ded.last[k]
          BY <3>1
        <4>1. ded.last[k] <= clock /\ \E s \in Ledger : s.key = k /\ s.at = ded.last[k]
          BY DEF StampsAccounted
        <4>2. clock' \in Nat
          BY TypeStep DEF TypeOK
        <4>3. QED
          BY <1>1, <1>3, <2>1, <4>1, <4>2
      <3>2. QED
        BY <1>3, <3>1
    <2>3. StampsAccounted'
      BY <2>2 DEF StampsAccounted
    <2>4. \A h \in held' : \E s \in Ledger' : Covers(s, h)
      BY <1>1, <1>3 DEF HeldOnlyBehindAlert
    <2>5. QED
      BY <2>3, <2>4 DEF HeldOnlyBehindAlert, Covers
  <1>4. ASSUME NEW t \in Thread, (Poll(t) /\ ~ScanLine(t)) \/ PollFault(t)
        PROVE  held' = held /\ clock' = clock /\ ded' = ded
    BY <1>4 DEF Poll, PollFault, Call, Acquire, GiveUp, Stat, Open, NoRegularFile, Cancelled, Save, Answer,
                Expire, ReadFails, SaveFails, LateAnswer, alertHistory
  <1>5. ASSUME Crash
        PROVE  held' = held /\ clock' = clock /\ \A k \in Key : ded'.last[k] = D!Absent
    BY <1>5 DEF Crash, D!NewDeduper
  <1>6. ASSUME Environment \/ UNCHANGED vars
        PROVE  held' = held /\ clock' >= clock /\ ded' = ded
    BY <1>6 DEF Environment, Append1, RenameAway, CreateNew, CopyTruncate, Tick, vars, alertHistory, TypeOK
  <1>7. clock >= clock
    BY DEF TypeOK
  <1>8. QED
    BY <1>1, <1>2, <1>3, <1>4, <1>5, <1>6, <1>7 DEF Next

\* Every stamp of the deduper belongs to an alert that went somewhere, and a login is held
\* back only behind such an alert, at most a window older (main.go:77-100, 352-370).
THEOREM AlertsAreAccounted == Spec => []AlertsAccounted
  <1>1. Init => AlertsAccounted
    BY DEF Init, AlertsAccounted, HeldOnlyBehindAlert, NoJob, D!NewDeduper
  <1>2. Spec => []TypeOK
    BY CheckpointInvariantHolds, PTL DEF CheckpointInvariant
  <1>3. QED
    BY <1>1, <1>2, AlertsStep, PTL DEF Spec

\* So no login is held back behind an alert that went nowhere (main.go:352-370).
THEOREM HoldingBackIsSafe == Spec => []HeldOnlyBehindAlert
  BY AlertsAreAccounted, PTL DEF AlertsAccounted

-----------------------------------------------------------------------------
(***************************************************************************)
(* A login is reported once.                                               *)
(***************************************************************************)

Alerts == reported \cup InFlight

\* A fault, or a second file, leaves nothing to show.
LEMMA FaultsAreForEver ==
  ASSUME TypeOK, [Next]_vars, faults' = 0, created' = 1
  PROVE  faults = 0 /\ created = 1 /\ truncated' = truncated
  <1>1. faults \in Nat /\ created \in Nat
    BY DEF TypeOK, File
  <1>2. ASSUME NEW kind, Fault(kind) PROVE FALSE
    BY <1>1, <1>2 DEF Fault
  <1>3. ~CreateNew
    <2>1. CreateNew => created = 0
      BY <1>1 DEF CreateNew
    <2>2. created # 0
      BY DEF TypeOK, File
    <2>3. QED
      BY <2>1, <2>2
  <1>4. ASSUME NEW t \in Thread, Poll(t)
        PROVE  faults = 0 /\ created = 1 /\ truncated' = truncated
    <2>1. CASE Stat(t)
      BY <1>2, <2>1 DEF Stat, logVars
    <2>2. CASE ~Stat(t)
      BY <1>4, <2>2 DEF Poll, Call, Acquire, GiveUp, Open, NoRegularFile, ScanLine, Cancelled, Save,
         Answer, logVars
    <2>3. QED
      BY <2>1, <2>2
  <1>5. ASSUME NEW t \in Thread PROVE ~PollFault(t)
    BY <1>2 DEF PollFault, Expire, ReadFails, SaveFails, LateAnswer
  <1>6. ~Crash /\ ~CopyTruncate
    BY <1>2 DEF Crash, CopyTruncate
  <1>7. ASSUME (\E c \in Lines : Append1(c)) \/ RenameAway \/ Tick \/ UNCHANGED vars
        PROVE  faults = 0 /\ created = 1 /\ truncated' = truncated
    BY <1>7 DEF Append1, RenameAway, Tick, vars, logVars
  <1>8. QED
    BY <1>3, <1>4, <1>5, <1>6, <1>7 DEF Next, Environment

\* Steps that leave the checkpoint and the polls' places, and say nothing new, keep the order.
LEMMA OrderKept ==
  ASSUME ReportsInOrder, faults = 0, created = 1, truncated' = truncated, cursor' = cursor,
         Alerts' \subseteq Alerts,
         \A u \in Thread : Located(u)' => Located(u) /\ job'[u].pos = job[u].pos,
         \A u \in Thread : Located(u) /\ job[u].msgs # {} =>
           Located(u)' /\ job'[u].msgs = job[u].msgs
  PROVE  ReportsInOrder'
  <1>1. /\ truncated = {}
        /\ \A a \in Alerts : a.place \in {1} \X Nat
        /\ \A a \in Alerts :
             \/ cursor # NoCursor /\ a.place[2] <= cursor.off
             \/ \E t \in Thread : Located(t) /\ a \in job[t].msgs
        /\ \A t \in Thread : Located(t) =>
             /\ \A a \in Alerts : a.place[2] <= job[t].pos
             /\ cursor # NoCursor => cursor.off <= job[t].pos
        /\ \A a, b \in Alerts : a.place = b.place => a = b
    BY DEF ReportsInOrder, Alerts
  <1>2. \A a \in Alerts' :
          \/ cursor' # NoCursor /\ a.place[2] <= cursor'.off
          \/ \E t \in Thread : Located(t)' /\ a \in job'[t].msgs
    BY <1>1
  <1>3. \A t \in Thread : Located(t)' =>
          /\ \A a \in Alerts' : a.place[2] <= job'[t].pos
          /\ cursor' # NoCursor => cursor'.off <= job'[t].pos
    BY <1>1
  <1>4. QED
    BY <1>1, <1>2, <1>3 DEF ReportsInOrder, Alerts

\* The steps of a poll that say nothing new, and those of the environment.
LEMMA QuietOrder ==
  ASSUME TypeOK, OneTransaction, SaidLater, ReportsInOrder, [Next]_vars, faults' = 0, created' = 1,
         ~\E t \in Thread : Stat(t) \/ ScanLine(t) \/ Save(t)
  PROVE  ReportsInOrder'
  <1>0. faults = 0 /\ created = 1 /\ truncated' = truncated /\ faults \in Nat
    BY FaultsAreForEver DEF TypeOK
  <1>1. ASSUME NEW t \in Thread, Call(t) \/ Acquire(t) \/ GiveUp(t) \/ Cancelled(t)
        PROVE  ReportsInOrder'
    <2>1. job' = job /\ cursor' = cursor /\ reported' = reported
      BY <1>1 DEF Call, Acquire, GiveUp, Cancelled, alertHistory
    <2>2. \A u \in Thread : Located(u)' <=> Located(u)
      BY <1>1 DEF Call, Acquire, GiveUp, Cancelled, Located, Goto, TypeOK
    <2>3. QED
      BY <1>0, <2>1, <2>2, OrderKept DEF Alerts, InFlight
  <1>2. ASSUME NEW t \in Thread, Open(t) PROVE ReportsInOrder'
    <2>1. /\ cursor' = cursor /\ reported' = reported /\ pc[t] = "open"
          /\ job' = [job EXCEPT ![t].file = path] /\ pc' = [pc EXCEPT ![t] = "scan"]
      BY <1>2 DEF Open, alertHistory, Goto
    <2>2. \A u \in Thread : job'[u].msgs = job[u].msgs /\ job'[u].pos = job[u].pos
      BY <2>1 DEF TypeOK, Job
    <2>3. \A u \in Thread : Located(u)' <=> Located(u)
      BY <2>1 DEF Located, TypeOK
    <2>4. QED
      BY <1>0, <2>1, <2>2, <2>3, OrderKept DEF Alerts, InFlight
  <1>3. ASSUME NEW t \in Thread, NoRegularFile(t) PROVE ReportsInOrder'
    <2>1. /\ cursor' = cursor /\ reported' = reported /\ job[t].msgs = {}
          /\ Return(t, {}) /\ pc' = [pc EXCEPT ![t] = "answer"]
      BY <1>3 DEF NoRegularFile, alertHistory, SaidLater, Return, Goto
    <2>2. job'[t].msgs = {} /\ \A u \in Thread : u # t => job'[u] = job[u]
      BY <2>1, ReturnMsgs
    <2>3. \A u \in Thread : Located(u)' <=> u # t /\ Located(u)
      BY <2>1 DEF Located, TypeOK
    <2>4. QED
      BY <1>0, <2>1, <2>2, <2>3, OrderKept DEF Alerts, InFlight
  <1>4. ASSUME NEW t \in Thread, Answer(t) PROVE ReportsInOrder'
    <2>1. /\ cursor' = cursor /\ reported' = reported \cup job[t].msgs /\ pc[t] = "answer"
          /\ job' = [job EXCEPT ![t] = NoJob] /\ pc' = [pc EXCEPT ![t] = "idle"]
      BY <1>4 DEF Answer, Finish, Goto
    <2>2. \A u \in Thread : Located(u)' => u # t /\ Located(u)
      BY <2>1 DEF Located, TypeOK
    <2>3. ~Located(t) /\ \A u \in Thread : u # t /\ Located(u) => Located(u)'
      BY <2>1 DEF Located, TypeOK
    <2>4. job'[t].msgs = {} /\ \A u \in Thread : u # t => job'[u] = job[u]
      BY <2>1 DEF NoJob, TypeOK
    <2>5. Alerts' \subseteq Alerts
      BY <2>1, <2>4 DEF Alerts, InFlight
    <2>6. QED
      BY <1>0, <2>1, <2>2, <2>3, <2>4, <2>5, OrderKept
  <1>5. ASSUME NEW t \in Thread PROVE ~PollFault(t)
    BY <1>0 DEF PollFault, Expire, ReadFails, SaveFails, LateAnswer, Fault
  <1>6. ~Crash
    BY <1>0 DEF Crash, Fault
  <1>7. ASSUME Environment \/ UNCHANGED vars PROVE ReportsInOrder'
    <2>1. job' = job /\ pc' = pc /\ cursor' = cursor /\ reported' = reported
      BY <1>7 DEF Environment, Append1, RenameAway, CreateNew, CopyTruncate, Tick, vars, alertHistory
    <2>2. QED
      BY <1>0, <2>1, OrderKept DEF Alerts, InFlight, Located
  <1>8. QED
    BY <1>1, <1>2, <1>3, <1>4, <1>5, <1>6, <1>7 DEF Next, Poll

\* A poll begins at the checkpoint, past everything reported; without one nothing is.
LEMMA StatOrder ==
  ASSUME CheckpointInvariant, SaidLater, ReportsInOrder, [Next]_vars, faults' = 0, created' = 1,
         NEW t \in Thread, Stat(t)
  PROVE  ReportsInOrder'
  <1>0. TypeOK /\ faults = 0 /\ created = 1 /\ truncated' = truncated /\ faults \in Nat
    BY FaultsAreForEver DEF TypeOK, CheckpointInvariant
  <1>1. PICK found \in BOOLEAN :
          /\ \/ found = (cursor # NoCursor)
             \/ Fault("load")
          /\ job' = [job EXCEPT ![t] = [NoJob EXCEPT !.found = found, !.fid = FileID(path),
               !.start = StartOffset(found, Len(data[path]), FileID(path)),
               !.pos = StartOffset(found, Len(data[path]), FileID(path))]]
    BY DEF Stat
  <1>2. found = (cursor # NoCursor)
    BY <1>0, <1>1 DEF Fault
  <1>3. /\ cursor' = cursor /\ reported' = reported /\ pc[t] = "stat" /\ path \in File
        /\ pc' = [pc EXCEPT ![t] = "open"] /\ job[t].msgs = {}
    BY DEF Stat, Goto, alertHistory, SaidLater
  <1>4. path = 1
    BY <1>0, <1>3, BTGAssumption DEF CheckpointInvariant, FilesInOrder
  <1>5. job'[t].pos = StartOffset(found, Len(data[path]), FileID(path)) /\ job'[t].msgs = {}
        /\ \A u \in Thread : u # t => job'[u] = job[u]
    BY <1>0, <1>1 DEF NoJob, TypeOK
  <1>6. truncated = {}
    BY <1>0 DEF ReportsInOrder
  <1>7. cursor # NoCursor => job'[t].pos = cursor.off /\ cursor.off \in Nat
    <2> SUFFICES ASSUME cursor # NoCursor PROVE job'[t].pos = cursor.off /\ cursor.off \in Nat
      OBVIOUS
    <2>1. cursor.fid <= 1 /\ cursor.fid \in 1 .. MaxFiles /\ cursor.off \in Nat
      BY <1>0, CursorFields DEF CheckpointInvariant, FilesInOrder, File
    <2>2. cursor.fid = 1
      BY <2>1, BTGAssumption
    <2>3. cursor.off <= Len(data[path])
      BY <1>4, <1>6, <2>2 DEF CheckpointInvariant, ScansSkipNothing, ReadUpTo
    <2>4. QED
      BY <1>2, <1>4, <1>5, <2>1, <2>2, <2>3 DEF StartOffset, FileID
  <1>8. \A u \in Thread : ~Located(u)
    BY <1>3 DEF CheckpointInvariant, OneTransaction, InTransaction, Located
  <1>9. \A u \in Thread : Located(u)' => u = t
    BY <1>0, <1>3, <1>8 DEF Located, TypeOK
  <1>10. Alerts' = Alerts
    BY <1>3, <1>5 DEF Alerts, InFlight
  <1>11. \A a \in Alerts : cursor # NoCursor /\ a.place[2] <= cursor.off
    BY <1>0, <1>8 DEF ReportsInOrder, Alerts
  <1>12. \A u \in Thread : Located(u)' =>
           /\ \A a \in Alerts' : a.place[2] <= job'[u].pos
           /\ cursor' # NoCursor => cursor'.off <= job'[u].pos
    BY <1>3, <1>7, <1>9, <1>10, <1>11
  <1>13. \A a \in Alerts' : cursor' # NoCursor /\ a.place[2] <= cursor'.off
    BY <1>3, <1>10, <1>11
  <1>14. /\ \A a \in Alerts' : a.place \in {1} \X Nat
         /\ \A a, b \in Alerts' : a.place = b.place => a = b
    BY <1>0, <1>10 DEF ReportsInOrder, Alerts
  <1>15. QED
    BY <1>0, <1>6, <1>12, <1>13, <1>14 DEF ReportsInOrder, Alerts

\* What a line adds lies past everything before it.
LEMMA ScanLineOrder ==
  ASSUME CheckpointInvariant, ReportsInOrder, [Next]_vars, faults' = 0, created' = 1,
         NEW t \in Thread, ScanLine(t)
  PROVE  ReportsInOrder'
  <1> DEFINE j == job[t]
             s == data[j.file]
             n == Consumed(s, j.pos)
             key == Match(s, j.pos)
             alert == [place |-> <<j.file, j.pos + n>>, key |-> key, at |-> clock]
             sends == key # NoKey /\ D!ShouldSend(ded, key, clock)
  <1>0. TypeOK /\ faults = 0 /\ created = 1 /\ truncated' = truncated
    BY FaultsAreForEver DEF CheckpointInvariant
  <1>1. /\ cursor' = cursor /\ reported' = reported /\ pc[t] = "scan"
        /\ job' = [job EXCEPT ![t].pos = j.pos + n,
                              ![t].msgs = IF sends THEN j.msgs \cup {alert} ELSE j.msgs]
        /\ \A u \in Thread : u # t => pc'[u] = pc[u]
        /\ pc'[t] \in {"scan", "save"}
    BY <1>0 DEF ScanLine, Goto, TypeOK
  <1>2. j.file = 1 /\ j.pos \in Nat /\ s \in Seq(Chunk)
    <2>1. j.file <= 1 /\ j.file \in 1 .. MaxFiles
      BY <1>0, <1>1, JobFields DEF CheckpointInvariant, FilesInOrder, File
    <2>2. j.file = 1
      BY <2>1, BTGAssumption
    <2>3. QED
      BY <1>0, <2>2, JobFields
  <1>3. n \in Nat /\ (sends => n > 0)
    <2>1. n \in 0 .. 2
      BY <1>2, ConsumedBounds
    <2>2. key # NoKey => j.pos < Len(s)
      BY <1>2 DEF Match
    <2>3. j.pos < Len(s) => n > 0
      BY <1>2 DEF Consumed
    <2>4. QED
      BY <2>1, <2>2, <2>3 DEF sends
  <1>4. /\ job'[t].pos = j.pos + n /\ \A u \in Thread : u # t => job'[u] = job[u]
        /\ job'[t].msgs = IF sends THEN j.msgs \cup {alert} ELSE j.msgs
    BY <1>0, <1>1 DEF TypeOK, Job
  <1>5. alert.place = <<1, j.pos + n>>
    BY <1>2
  <1> HIDE DEF n, key, alert, sends, s
  <1>6. \A u \in Thread : Located(u) => u = t
    BY <1>1 DEF CheckpointInvariant, OneTransaction, InTransaction, Located
  <1>7. /\ Located(t) /\ Located(t)'
        /\ \A u \in Thread : Located(u)' => u = t
    BY <1>1, <1>6 DEF Located
  <1>8. Alerts' = IF sends THEN Alerts \cup {alert} ELSE Alerts
    <2>1. InFlight' = IF sends THEN InFlight \cup {alert} ELSE InFlight
      <3>1. ASSUME NEW a PROVE a \in InFlight' <=> a \in InFlight \/ (sends /\ a = alert)
        <4>1. a \in InFlight' <=> \E u \in Thread : a \in job'[u].msgs
          BY DEF InFlight
        <4>2. a \in InFlight <=> \E u \in Thread : a \in job[u].msgs
          BY DEF InFlight
        <4>3. a \in job'[t].msgs <=> a \in job[t].msgs \/ (sends /\ a = alert)
          BY <1>4
        <4>4. QED
          BY <1>4, <4>1, <4>2, <4>3
      <3>2. QED
        BY <3>1
    <2>2. QED
      BY <1>1, <2>1 DEF Alerts
  <1>9. /\ truncated = {}
        /\ \A a \in Alerts : a.place \in {1} \X Nat /\ a.place[2] <= j.pos
        /\ \A a \in Alerts : (cursor # NoCursor /\ a.place[2] <= cursor.off) \/ a \in j.msgs
        /\ cursor # NoCursor => cursor.off <= j.pos
        /\ \A a, b \in Alerts : a.place = b.place => a = b
    BY <1>0, <1>6, <1>7 DEF ReportsInOrder, Alerts
  <1>10. sends => alert.place \in {1} \X Nat /\ \A a \in Alerts : a.place # alert.place
    BY <1>2, <1>3, <1>5, <1>9
  <1>11. \A a \in Alerts' : a.place \in {1} \X Nat /\ a.place[2] <= j.pos + n
    <2>1. \A a \in Alerts : a.place[2] <= j.pos + n
      <3> SUFFICES ASSUME NEW a \in Alerts PROVE a.place[2] <= j.pos + n
        OBVIOUS
      <3>1. a.place[2] \in Nat /\ a.place[2] <= j.pos
        BY <1>9
      <3>2. QED
        BY <1>2, <1>3, <3>1
    <2>2. sends => alert.place[2] <= j.pos + n
      BY <1>2, <1>3, <1>5
    <2>3. QED
      BY <1>8, <1>9, <1>10, <2>1, <2>2
  <1>12. \A a \in Alerts' : (cursor' # NoCursor /\ a.place[2] <= cursor'.off) \/ a \in job'[t].msgs
    BY <1>1, <1>4, <1>8, <1>9
  <1>13. cursor' # NoCursor => cursor'.off <= job'[t].pos
    <2> SUFFICES ASSUME cursor # NoCursor PROVE cursor.off <= j.pos + n
      BY <1>1, <1>4
    <2>1. cursor.off \in Nat
      BY <1>0, CursorFields
    <2>2. QED
      BY <1>2, <1>3, <1>9, <2>1
  <1>14. \A a, b \in Alerts' : a.place = b.place => a = b
    BY <1>8, <1>9, <1>10
  <1>15. \A u \in Thread : Located(u)' =>
           /\ \A a \in Alerts' : a.place[2] <= job'[u].pos
           /\ cursor' # NoCursor => cursor'.off <= job'[u].pos
    BY <1>4, <1>7, <1>11, <1>13
  <1>16. QED
    BY <1>0, <1>7, <1>9, <1>11, <1>12, <1>14, <1>15 DEF ReportsInOrder, Alerts

\* The checkpoint catches up with everything the poll has said.
LEMMA SaveOrder ==
  ASSUME CheckpointInvariant, ReportsInOrder, [Next]_vars, faults' = 0, created' = 1,
         NEW t \in Thread, Save(t)
  PROVE  ReportsInOrder'
  <1>0. TypeOK /\ faults = 0 /\ created = 1 /\ truncated' = truncated
    BY FaultsAreForEver DEF CheckpointInvariant
  <1>1. /\ cursor' = [fid |-> job[t].fid, off |-> job[t].pos] /\ reported' = reported
        /\ Return(t, job[t].msgs) /\ pc[t] = "save" /\ pc' = [pc EXCEPT ![t] = "answer"]
    BY DEF Save, alertHistory, Return, Goto
  <1>2. job'[t].msgs = job[t].msgs /\ \A u \in Thread : u # t => job'[u] = job[u]
    BY <1>0, <1>1, ReturnMsgs
  <1>3. \A u \in Thread : Located(u) => u = t
    BY <1>1 DEF CheckpointInvariant, OneTransaction, InTransaction, Located
  <1>4. \A u \in Thread : ~Located(u)'
    BY <1>0, <1>1, <1>3 DEF Located, TypeOK
  <1>5. Alerts' = Alerts
    BY <1>1, <1>2 DEF Alerts, InFlight
  <1>6. cursor' \in Checkpoint
    BY <1>0, <1>1, JobFields DEF Checkpoint
  <1>7. cursor' # NoCursor
    BY <1>6, BTGAssumption
  <1>8. Located(t)
    BY <1>1 DEF Located
  <1>9. /\ truncated = {}
        /\ \A a \in Alerts : a.place \in {1} \X Nat /\ a.place[2] <= job[t].pos
        /\ \A a, b \in Alerts : a.place = b.place => a = b
    BY <1>0, <1>8 DEF ReportsInOrder, Alerts
  <1>10. \A a \in Alerts' : cursor' # NoCursor /\ a.place[2] <= cursor'.off
    BY <1>1, <1>5, <1>7, <1>9
  <1>11. QED
    BY <1>0, <1>4, <1>5, <1>9, <1>10 DEF ReportsInOrder, Alerts

\* A login is reported once, however many polls run, without faults and rotation: a poll
\* begins where the last one ended, and what it reports lies between (conf:23, main.go:291-397).
THEOREM LoginsAreReportedOnce == Spec => []ReportedOnce
  <1>1. Init => ReportsInOrder
    <2>1. NoJob.msgs = {}
      BY DEF NoJob
    <2>2. Init => Alerts = {} /\ truncated = {} /\ \A t \in Thread : ~Located(t)
      BY <2>1 DEF Init, Alerts, InFlight, Located
    <2>3. QED
      BY <2>2 DEF ReportsInOrder, Alerts
  <1>2. CheckpointInvariant /\ AlertsAccounted /\ ReportsInOrder /\ [Next]_vars => ReportsInOrder'
    <2> SUFFICES ASSUME CheckpointInvariant, SaidLater, ReportsInOrder, [Next]_vars,
                        faults' = 0, created' = 1
                 PROVE  ReportsInOrder'
      BY DEF ReportsInOrder, AlertsAccounted, SaidLater
    <2>1. TypeOK /\ OneTransaction
      BY DEF CheckpointInvariant
    <2>2. QED
      BY <2>1, QuietOrder, StatOrder, ScanLineOrder, SaveOrder
  <1>3. Spec => []ReportsInOrder
    BY <1>1, <1>2, CheckpointInvariantHolds, AlertsAreAccounted, PTL DEF Spec
  <1>4. ReportsInOrder => ReportedOnce
    BY DEF ReportsInOrder, ReportedOnce
  <1>5. QED
    BY <1>3, <1>4, PTL
=============================================================================
