--------------------------- MODULE ListeningPorts ---------------------------
(***************************************************************************)
(* The listening-port checks: which process, of which service, listens on  *)
(* which TCP port.  Windows (windows_service_listening_port/main.go) reads *)
(* the IPv4 table, the IPv6 table, the service manager and then each       *)
(* process; Linux (linux_service_listening_port/main.go) reads ss's output *)
(* and then the control group of each process.  None of these reads is of  *)
(* the same moment: sockets open and close, processes exit, and a process  *)
(* number is used again.                                                   *)
(***************************************************************************)
EXTENDS TcpTable

CONSTANTS
  Ports,
  KnownPorts,  \* the keys of manualPortMap
  PIDs,
  Kernel,      \* process 4, which listens for HTTP.sys and is named without being opened
  Images,      \* names of executables
  Excluded,    \* those of excludedProcesses
  Protected,   \* those whose process the agent may not open
  Services,    \* Windows services, or systemd units
  System,      \* the name of the kernel's process, one of Excluded
  HttpSys, Unknown, KnownService, \* "HTTP.sys (kernel)", "unknown", and what the map says
  None,        \* no image, service or process number
  MaxSockets,  \* bound, for TLC: listening sockets
  MaxChanges   \* bound, for TLC: what happens to the host during a request

\* What stands for no image or process number is none.
NoneIsNothing == None \notin Images \cup PIDs

VARIABLES
  host,   \* [sockets, process, changes]
  query,  \* the request and its locals, with what it could have seen (history)
  answer  \* what the last step answered

vars == <<host, query, answer>>

Families == {"IPv4", "IPv6"}

Sockets == [family : Families, port : Ports, pid : PIDs]

Exited == [image |-> None, service |-> None]

\* The process numbers in use and by whom; the kernel's never changes hands.
Processes ==
  {p \in [PIDs -> [image : Images, service : Services \cup {None}] \cup {Exited}] :
     Kernel \in PIDs => p[Kernel] = [image |-> System, service |-> None]}

Hosts ==
  {h \in [sockets : {s \in SUBSET Sockets : Cardinality(s) <= MaxSockets},
          process : Processes, changes : {0}] :
     \A s \in h.sockets : h.process[s.pid] # Exited}

NoHost == [sockets |-> {}, process |-> [p \in PIDs |-> Exited], changes |-> 0]

\* failed: tables that could not be read.  History: steady, the sockets open from the
\* first step on by one process, ever, those open at some moment, and changed, the process
\* numbers whose process has changed.
Idle == [pc |-> "idle", os |-> "", family |-> "", read |-> NoRead, failed |-> {},
         todo |-> {}, services |-> <<>>, out |-> {},
         steady |-> {}, ever |-> {}, changed |-> {}]

NoAnswer == [kind |-> "none", query |-> Idle]

Init ==
  /\ host = NoHost
  /\ query = Idle
  /\ answer = NoAnswer

\* Export, with a host to look at.
Begin(os) ==
  /\ query.pc = "idle" /\ answer = NoAnswer
  /\ host' \in Hosts
  /\ query' = [Idle EXCEPT !.os = os, !.pc = IF os = "windows" THEN "probe" ELSE "ss",
                           !.family = IF os = "windows" THEN "IPv4" ELSE "",
                           !.steady = host'.sockets, !.ever = host'.sockets]
  /\ UNCHANGED answer

Table == {s \in host.sockets : s.family = query.family}

AnswerError ==
  /\ answer' = [kind |-> "error", query |-> query]
  /\ query' = Idle

\* The next family's table, or the service manager; an error if neither was read.
TableDone(rows, failed) ==
  LET q == [query EXCEPT !.todo = @ \cup {[port |-> s.port, pid |-> s.pid, image |-> None] :
                                            s \in rows},
                         !.failed = @ \cup failed, !.read = NoRead]
  IN IF q.family = "IPv4"
     THEN query' = [q EXCEPT !.family = "IPv6", !.pc = "probe"] /\ UNCHANGED answer
     ELSE IF q.failed = Families THEN AnswerError
     ELSE query' = [q EXCEPT !.pc = "services"] /\ UNCHANGED answer

ProbeTable ==
  /\ query.pc = "probe"
  /\ query' = [query EXCEPT !.read = Probe(@, Table), !.pc = "fetch"]
  /\ UNCHANGED <<host, answer>>

FetchTable ==
  /\ query.pc = "fetch"
  /\ LET result == Fetch(query.read, Table) IN
       CASE result.kind = "rows" -> TableDone(result.rows, {})
         [] result.kind = "again" -> query' = [query EXCEPT !.pc = "probe"] /\ UNCHANGED answer
         [] result.kind = "error" -> TableDone({}, {query.family})
  /\ UNCHANGED host

\* Either call fails for another reason.
TableFails ==
  /\ query.pc \in {"probe", "fetch"}
  /\ TableDone({}, {query.family})
  /\ UNCHANGED host

\* buildServicePIDMap, best effort: nothing is known of services it cannot open.
BuildServicePIDMap(open) ==
  /\ query.pc = "services"
  /\ query' = [query EXCEPT !.pc = "describe",
       !.services = [p \in PIDs |-> IF p \in open THEN host.process[p].service ELSE None]]
  /\ UNCHANGED <<host, answer>>

\* ss -tnlp; an agent that is not root is shown the owners of some sockets only (shown).  The
\* owner of a socket that several processes share is the first one listed.
Ss(shown) ==
  /\ query.pc = "ss"
  /\ query' = [query EXCEPT !.pc = "describe",
       !.todo = {[port |-> s.port, pid |-> IF s \in shown THEN s.pid ELSE None,
                  image |-> IF s \in shown THEN host.process[s.pid].image ELSE Unknown] :
                   s \in host.sockets}]
  /\ UNCHANGED <<host, answer>>

\* It is missing, fails, or takes longer than ssCommandTimeout.
SsFails ==
  /\ query.pc = "ss"
  /\ AnswerError
  /\ UNCHANGED host

\* getProcessNameAndPath.
ImageOf(pid) ==
  IF pid = Kernel THEN System
  ELSE IF host.process[pid].image \in Protected THEN None ELSE host.process[pid].image

Record(port, pid, process, service, manual) ==
  [port |-> port, pid |-> pid, process |-> process, service |-> service, manual |-> manual]

AutoRecords(l) ==
  IF ImageOf(l.pid) \in Excluded \cup {None} THEN {}
  ELSE {Record(l.port, l.pid, ImageOf(l.pid), query.services[l.pid], FALSE)}

\* Mutated form of ManualRecords: of a process that can be named only.
ManualRecordsOfNamed(l) ==
  IF l.port \notin KnownPorts \/ ImageOf(l.pid) = None THEN {}
  ELSE {Record(l.port, l.pid, ImageOf(l.pid), KnownService, TRUE)}

ManualRecords(l) ==
  IF l.port \notin KnownPorts THEN {}
  ELSE {Record(l.port, l.pid,
               IF l.pid = Kernel THEN HttpSys
               ELSE IF ImageOf(l.pid) = None THEN Unknown ELSE ImageOf(l.pid),
               KnownService, TRUE)}

\* systemdUnitFromCgroup, of whichever process has the number now.
UnitRecord(l) ==
  Record(l.port, l.pid, l.image,
         IF l.pid = None THEN None ELSE host.process[l.pid].service, FALSE)

\* One socket is described.
Describe(l) ==
  /\ query.pc = "describe" /\ l \in query.todo
  /\ query' = [query EXCEPT !.todo = @ \ {l},
       !.out = @ \cup IF query.os = "windows" THEN AutoRecords(l) \cup ManualRecords(l)
                      ELSE {UnitRecord(l)}]
  /\ UNCHANGED <<host, answer>>

SameKey(d, e) == d.port = e.port /\ d.pid = e.pid /\ d.process = e.process

\* Mutated form of Unique: nothing is dropped.
NotUnique(out) == out

\* Of the records with one key the first stays, and the automatic ones come first.
Unique(out) == {e \in out : e.manual => ~\E d \in out : ~d.manual /\ SameKey(d, e)}

Finish ==
  /\ query.pc = "describe" /\ query.todo = {}
  /\ answer' = [kind |-> "list", query |-> [query EXCEPT !.out = Unique(@)]]
  /\ query' = Idle
  /\ UNCHANGED host

Return ==
  /\ answer # NoAnswer
  /\ answer' = NoAnswer /\ host' = NoHost
  /\ UNCHANGED query

\* The host changes during a request; a socket is of the process that opened it.
Change ==
  /\ query.pc # "idle" /\ host.changes < MaxChanges
  /\ \/ \E s \in Sockets \ host.sockets :
          /\ Cardinality(host.sockets) < MaxSockets /\ host.process[s.pid] # Exited
          /\ host' = [host EXCEPT !.sockets = @ \cup {s}, !.changes = @ + 1]
     \/ \E s \in host.sockets :
          host' = [host EXCEPT !.sockets = @ \ {s}, !.changes = @ + 1]
     \/ \E p \in PIDs \ {Kernel}, next \in Images \X (Services \cup {None}) :
          host' = [host EXCEPT
            !.sockets = {s \in @ : s.pid # p},
            !.process[p] = IF @ = Exited THEN [image |-> next[1], service |-> next[2]]
                           ELSE Exited,
            !.changes = @ + 1]
  /\ query' = [query EXCEPT
       !.steady = @ \cap host'.sockets, !.ever = @ \cup host'.sockets,
       !.changed = @ \cup {p \in PIDs : host'.process[p] # host.process[p]}]
  /\ UNCHANGED answer

Next ==
  \/ \E os \in {"windows", "linux"} : Begin(os)
  \/ ProbeTable \/ FetchTable \/ TableFails
  \/ \E open \in SUBSET PIDs : BuildServicePIDMap(open)
  \/ \E shown \in SUBSET host.sockets : Ss(shown)
  \/ SsFails
  \/ \E l \in query.todo : Describe(l)
  \/ Finish \/ Return \/ Change

Spec == Init /\ [][Next]_vars

-----------------------------------------------------------------------------
\* A listener the list is to have: on a port the map knows, or of a process that can be
\* named and is not excluded; on Linux, any.
IsReported(h, os, s) ==
  \/ os = "linux"
  \/ s.port \in KnownPorts
  \/ h.process[s.pid].image \notin Excluded \cup Protected

\* An entry, or a record, for a socket.
IsFor(e, s) == e.port = s.port /\ e.pid \in {s.pid, None}

\* An entry, or a record, is of a socket that was open.
IsOfSocket(q, e) ==
  e.pid # None => e.pid \in PIDs /\ \E s \in q.ever : s.port = e.port /\ s.pid = e.pid

\* A record names the process and the service of its process number, or neither.
NamesOwner(h, q, e) ==
  e.pid # None /\ e.pid \notin q.changed =>
    /\ e.process \in {h.process[e.pid].image, HttpSys, Unknown}
    /\ ~e.manual => e.service \in {h.process[e.pid].service, None}

-----------------------------------------------------------------------------
IsHost ==
  /\ DOMAIN host = {"sockets", "process", "changes"}
  /\ host.sockets \subseteq Sockets /\ host.process \in Processes
  /\ \A s \in host.sockets : host.process[s.pid] # Exited

\* The sockets whose table has been read.
IsRead(q, s) ==
  /\ s.family \notin q.failed
  /\ \/ q.pc \in {"services", "describe"}
     \/ q.family = "IPv6" /\ s.family = "IPv4"

\* The histories have what they are for; a process number does not change hands while a
\* socket stays open.
HistoriesAreRight ==
  /\ query.steady \subseteq host.sockets /\ host.sockets \subseteq query.ever
  /\ \A s \in query.steady : s.pid \notin query.changed

\* What has been read of the sockets open all along is still to be described, or is.
ReadIsKept ==
  \A s \in query.steady :
    IsRead(query, s) /\ IsReported(host, query.os, s) => \E e \in query.todo \cup query.out : IsFor(e, s)

\* The entries still to be described, and on Linux what is known of their processes.
EntriesAreTrue ==
  \A l \in query.todo :
    /\ l = [port |-> l.port, pid |-> l.pid, image |-> l.image]
    /\ IsOfSocket(query, l)
    /\ query.os = "windows" => l.pid \in PIDs
    /\ query.os = "linux" /\ l.pid # None /\ l.pid \notin query.changed =>
         l.image = host.process[l.pid].image

\* The services are those of the processes at the time they were read.
ServicesAreTrue ==
  query.os = "windows" /\ query.pc = "describe" =>
    \A p \in PIDs \ query.changed : query.services[p] \in {host.process[p].service, None}

\* The records, and where an automatic one has its service from.
RecordsSoFar ==
  \A e \in query.out :
    /\ e = Record(e.port, e.pid, e.process, e.service, e.manual) /\ e.manual \in BOOLEAN
    /\ e.manual => e.service = KnownService
    /\ IsOfSocket(query, e) /\ NamesOwner(host, query, e)
    /\ query.os = "windows" /\ ~e.manual => e.service = query.services[e.pid]
    /\ query.os = "linux" => ~e.manual

\* On Linux nothing is described twice.
DescribedOnce ==
  query.os = "linux" =>
    /\ \A d, e \in query.out : SameKey(d, e) => d = e
    /\ \A l \in query.todo, e \in query.out :
         ~(e.port = l.port /\ e.pid = l.pid /\ e.process = l.image)

ReadInOrder ==
  /\ DOMAIN query = DOMAIN Idle
  /\ query.os \in {"windows", "linux"}
  /\ query.os = "windows" =>
       query.pc \in {"probe", "fetch", "services", "describe"} /\ query.family \in Families
  /\ query.os = "linux" => query.pc \in {"ss", "describe"} /\ query.family = ""
  /\ query.pc # "describe" => query.out = {}
  /\ query.pc = "ss" => query.todo = {}

\* The inductive invariant.
PortsInvariant ==
  query.pc # "idle" =>
    /\ answer = NoAnswer
    /\ IsHost /\ ReadInOrder /\ HistoriesAreRight /\ ReadIsKept /\ EntriesAreTrue
    /\ ServicesAreTrue /\ RecordsSoFar /\ DescribedOnce

-----------------------------------------------------------------------------
\* A socket open from the first read to the last is in the list, unless the table of its
\* family could not be read, which the list does not show (main.go:305-350, 386-403).
EveryListenerIsListed ==
  answer.kind = "list" =>
    \A s \in answer.query.steady :
      s.family \notin answer.query.failed /\ IsReported(host, answer.query.os, s) =>
        \E e \in answer.query.out : IsFor(e, s)

\* Every record is of a socket that was open, and names the process and the service of its
\* owner, unless the process number changed hands in the meantime; one record per port,
\* process number and name.
RecordsAreTrue ==
  answer.kind = "list" =>
    /\ \A e \in answer.query.out : IsOfSocket(answer.query, e) /\ NamesOwner(host, answer.query, e)
    /\ \A d, e \in answer.query.out : SameKey(d, e) => d = e
=============================================================================
