-------------------------- MODULE ExchangeSnapshot --------------------------
(***************************************************************************)
(* What the Exchange collector's script puts together                      *)
(* (exchange_se/main.go:33-589): the server's parts are looked at one      *)
(* after another, for up to 100 seconds, and a part that cannot be read    *)
(* leaves its defaults in the summary and a line in Errors.  A part's      *)
(* state is the one thing its count tells apart; the deadline and the      *)
(* cache are CollectorCache's.                                             *)
(***************************************************************************)
EXTENDS Integers, Sequences, FiniteSets, FiniteSetsExt

CONSTANTS
  Null,        \* $null
  CertLimit,   \* days a certificate has to run for its state to be in order
  Queues,      \* identities of transport queues
  MaxList,     \* queues listed in full, 60 in the code
  MaxTop,      \* largest queues listed of more, 40 in the code
  MaxFailures, \* bound, for TLC: parts that cannot be read during a request
  MaxChanges   \* bound, for TLC: parts that change during a request

\* What the theorems assume of the constants.
NullIsNoNumber == Null \notin Int
QueuesAreFinite == IsFiniteSet(Queues)

VARIABLES
  host,   \* [parts, queues, changes]
  query,  \* the request and its locals, with the trouble it could have seen (history)
  answer  \* what the last step answered

vars == <<host, query, answer>>

\* The order of the script.
Parts ==
  <<"ExchangeServer", "MailboxServer", "Services", "Queues", "Certificates", "Databases",
    "DatabaseCopies", "Components", "HealthSets", "ReplicationHealth", "Vdirs",
    "BackPressure">>

PartNames == {Parts[i] : i \in DOMAIN Parts}

Alerts == {"Unhealthy", "Degraded", "Healthy"}

\* The states of a part.  Services: one that is stopped starts automatically, manually, or
\* its start type cannot be read.  Components: those not active.  HealthSets: the rows of
\* one set, in their order.  BackPressure: the worst meter, or no meters.
States(part) ==
  CASE part = "MailboxServer" -> {"alone", "dag"}
    [] part = "Services" -> {"running", "stopped", "stoppedManual", "stoppedUnknown"}
    [] part = "Certificates" -> {CertLimit, 0, Null}
    [] part = "DatabaseCopies" -> {"Healthy", "Mounted", "Failed"}
    [] part = "Components" ->
         {{}, {"ForwardSyncDaemon"}, {"HubTransport"}, {"ServerWideOffline", "Other"}}
    [] part = "HealthSets" -> {<<"Healthy">>} \cup (Alerts \X Alerts)
    [] part = "ReplicationHealth" -> {"Passed", "Failed"}
    [] part = "Vdirs" -> {"200", "500", "timeout"}
    [] part = "BackPressure" -> {0, 1, 2, Null}
    [] OTHER -> {"read"}

Healthy ==
  [part \in PartNames |->
     CASE part = "MailboxServer" -> "dag"
       [] part = "Services" -> "running"
       [] part = "Certificates" -> CertLimit
       [] part = "DatabaseCopies" -> "Healthy"
       [] part = "Components" -> {"ForwardSyncDaemon"}
       [] part = "HealthSets" -> <<"Healthy">>
       [] part = "ReplicationHealth" -> "Passed"
       [] part = "Vdirs" -> "200"
       [] part = "BackPressure" -> 0
       [] OTHER -> "read"]

\* A queue: whose, whether it holds shadow copies, whether it is retrying, and its messages.
Queue == [kind : {"Submission", "Poison", "Unreachable", "Delivery"}, shadow : BOOLEAN,
          retry : BOOLEAN, count : 1 .. 2]

NoQueues == [q \in {} |-> 0]

NoHost == [parts |-> Healthy, queues |-> NoQueues, changes |-> 0]

\* A server whose parts are in order but for one, or one with queues, which does not change.
Hosts ==
  (UNION {{[NoHost EXCEPT !.parts[part] = s] : s \in States(part)} : part \in PartNames})
  \cup {[NoHost EXCEPT !.queues = f, !.changes = MaxChanges] : f \in [Queues -> Queue]}

\* The trouble there is, said of the server.
InTrouble(h) ==
  {part \in PartNames :
     LET s == h.parts[part] IN
     CASE part = "Services" -> s = "stopped"
       [] part = "Certificates" -> s = 0
       [] part = "DatabaseCopies" -> s = "Failed"
       [] part = "Components" -> s \ {"ForwardSyncDaemon"} # {}
       [] part = "HealthSets" -> \E i \in DOMAIN s : s[i] = "Unhealthy"
       [] part = "ReplicationHealth" -> s = "Failed" /\ h.parts["MailboxServer"] = "dag"
       [] part = "Vdirs" -> s # "200"
       [] part = "BackPressure" -> s \in {1, 2}
       [] OTHER -> FALSE}

\* shown: the summary's number for each part.  History: steady, the parts in trouble from
\* the first step on, and ever, those in trouble at some moment.
Idle == [pc |-> "idle", next |-> 1, shown |-> <<>>, dag |-> FALSE, maintenance |-> FALSE,
         errors |-> {}, depths |-> <<>>, listed |-> {}, queues |-> NoQueues,
         steady |-> {}, ever |-> {}]

NoAnswer == [kind |-> "none", query |-> Idle]

Init ==
  /\ host = NoHost
  /\ query = Idle
  /\ answer = NoAnswer

\* The request, with a server to look at; the shell is loaded.
Begin ==
  /\ query.pc = "idle" /\ answer = NoAnswer
  /\ host' \in Hosts
  /\ query' = [Idle EXCEPT !.pc = "parts", !.steady = InTrouble(host'),
                           !.ever = InTrouble(host')]
  /\ UNCHANGED answer

\* Neither the snap-in nor a remote session can be had: the script throws.
ShellFails ==
  /\ query.pc = "idle" /\ answer = NoAnswer
  /\ answer' = [kind |-> "error", query |-> Idle]
  /\ UNCHANGED <<host, query>>

Raw(alert) == CASE alert = "Unhealthy" -> 0 [] alert = "Degraded" -> 1 [] OTHER -> 5

\* Mutated form of HealthOf: a later row of the same set replaces an earlier one.
HealthOfLast(rows) == Raw(rows[Len(rows)])

\* The worst row of a health set.
HealthOf(rows) == Min({Raw(rows[i]) : i \in DOMAIN rows})

\* What a part that was read adds to the summary.
Shown(part, s) ==
  CASE part = "Services" -> IF s = "stopped" THEN 1 ELSE 0
    [] part \in {"Certificates", "BackPressure"} -> s
    [] part = "DatabaseCopies" -> IF s \in {"Mounted", "Healthy"} THEN 0 ELSE 1
    [] part = "Components" -> Cardinality(s \ {"ForwardSyncDaemon"})
    [] part = "HealthSets" -> IF HealthOf(s) = 0 THEN 1 ELSE 0
    [] part = "ReplicationHealth" -> IF s = "Failed" THEN 1 ELSE 0
    [] part = "Vdirs" -> IF s = "200" THEN 0 ELSE 1
    [] OTHER -> 0

\* And one that was not.
Default(part) == IF part \in {"Certificates", "BackPressure"} THEN Null ELSE 0

Part == Parts[query.next]

Advance(q) == [q EXCEPT !.next = @ + 1]

Show(q, n) == [q EXCEPT !.shown = Append(@, n)]

\* A part other than the queues and the replication health is read.
ReadPart ==
  /\ query.pc = "parts" /\ query.next <= Len(Parts)
  /\ Part \notin {"Queues", "ReplicationHealth"}
  /\ LET s == host.parts[Part] IN
       query' = [Advance(Show(query, Shown(Part, s))) EXCEPT
         !.dag = IF Part = "MailboxServer" THEN s = "dag" ELSE @,
         !.maintenance = IF Part = "Components"
                         THEN s \cap {"ServerWideOffline", "HubTransport"} # {} ELSE @]
  /\ UNCHANGED <<host, answer>>

\* Replication is tested in a database availability group only.
ReadReplicationHealth ==
  /\ query.pc = "parts" /\ query.next <= Len(Parts) /\ Part = "ReplicationHealth"
  /\ query' = Advance(Show(query, IF query.dag THEN Shown(Part, host.parts[Part])
                                  ELSE Default(Part)))
  /\ UNCHANGED <<host, answer>>

\* The messages of some of the queues, each once: a sum of MessageCounts.
Messages(queues, ids) == Cardinality(UNION {{q} \X (1 .. queues[q].count) : q \in ids})

\* The sums over the queues: shadow copies and poisoned messages are not in the total.
Depths(queues) ==
  LET shadow == {q \in DOMAIN queues : queues[q].shadow}
      poison == {q \in DOMAIN queues \ shadow : queues[q].kind = "Poison"}
      rest == DOMAIN queues \ (shadow \cup poison)
      OfKind(kind) == {q \in rest : queues[q].kind = kind}
  IN [total |-> Messages(queues, rest), shadow |-> Messages(queues, shadow),
      poison |-> Messages(queues, poison),
      submission |-> Messages(queues, OfKind("Submission")),
      unreachable |-> Messages(queues, OfKind("Unreachable")),
      retry |-> Cardinality({q \in rest : queues[q].retry})]

\* The queues that are always listed.
Kept(queues) ==
  {q \in DOMAIN queues :
     ~queues[q].shadow /\ (queues[q].retry \/ queues[q].kind # "Delivery")}

\* The largest queues; which of equals is left open.
Top(queues) ==
  {top \in SUBSET DOMAIN queues :
     /\ Cardinality(top) = MaxTop
     /\ \A q \in top, r \in DOMAIN queues \ top : queues[q].count >= queues[r].count}

\* Mutated form of QueueLists: the largest ones only.
QueueListsOfTop(queues) ==
  IF Cardinality(DOMAIN queues) <= MaxList THEN {DOMAIN queues} ELSE Top(queues)

\* What the list of queues may be.
QueueLists(queues) ==
  IF Cardinality(DOMAIN queues) <= MaxList THEN {DOMAIN queues}
  ELSE {Kept(queues) \cup top : top \in Top(queues)}

ReadQueues ==
  /\ query.pc = "parts" /\ query.next <= Len(Parts) /\ Part = "Queues"
  /\ \E listed \in QueueLists(host.queues) :
       query' = [Advance(Show(query, 0)) EXCEPT
                  !.depths = <<Depths(host.queues)>>, !.listed = listed,
                  !.queues = host.queues]
  /\ UNCHANGED <<host, answer>>

\* A part throws: Add-CollectionError.  A probe of a protocol that throws is an answer.
PartFails ==
  /\ query.pc = "parts" /\ query.next <= Len(Parts)
  /\ Cardinality(query.errors) < MaxFailures
  /\ Part = "ReplicationHealth" => query.dag
  /\ query' = [Advance(Show(query, Default(Part))) EXCEPT
                !.errors = @ \cup {Part},
                !.depths = IF Part = "Queues" THEN <<Depths(NoQueues)>> ELSE @]
  /\ UNCHANGED <<host, answer>>

\* The summary and the result are put together.
Finish ==
  /\ query.pc = "parts" /\ query.next > Len(Parts)
  /\ answer' = [kind |-> "snapshot", query |-> query]
  /\ query' = Idle
  /\ UNCHANGED host

Return ==
  /\ answer # NoAnswer
  /\ answer' = NoAnswer /\ host' = NoHost
  /\ UNCHANGED query

\* A part changes during a request.
Change(part) ==
  /\ query.pc = "parts" /\ host.changes < MaxChanges
  /\ \E s \in States(part) \ {host.parts[part]} :
       host' = [host EXCEPT !.parts[part] = s, !.changes = @ + 1]
  /\ query' = [query EXCEPT !.steady = @ \cap InTrouble(host'),
                            !.ever = @ \cup InTrouble(host')]
  /\ UNCHANGED answer

Next ==
  \/ Begin \/ ShellFails
  \/ ReadPart \/ ReadReplicationHealth \/ ReadQueues \/ PartFails
  \/ Finish \/ Return
  \/ \E part \in PartNames : Change(part)

Spec == Init /\ [][Next]_vars

-----------------------------------------------------------------------------
\* The number a part's trouble is seen by.
Alarms(part, n) ==
  CASE part = "Certificates" -> n = 0
    [] part = "BackPressure" -> n \in {1, 2}
    [] OTHER -> n # 0

\* What the number n shown for a part tells: trouble that was there all along, or an error
\* explains why not; and no trouble that was not there.
Tells(q, part, n) ==
  /\ part \in q.steady =>
       \/ Alarms(part, n)
       \/ part \in q.errors
       \/ part = "ReplicationHealth" /\ "MailboxServer" \in q.errors
  /\ Alarms(part, n) => part \in q.ever \/ (part = "ReplicationHealth" /\ q.dag)

IsHost(h) ==
  /\ DOMAIN h = {"parts", "queues", "changes"} /\ DOMAIN h.parts = PartNames
  /\ \A part \in PartNames : h.parts[part] \in States(part)

\* What is known of a server while its parts are looked at: the histories have what stands, and
\* the parts behind are shown; without a group's name there is an error, or no such trouble.
Knows(h, q) ==
  /\ DOMAIN q = DOMAIN Idle /\ q.shown \in Seq({q.shown[i] : i \in DOMAIN q.shown})
  /\ q.next \in 1 .. Len(Parts) + 1 /\ Len(q.shown) = q.next - 1
  /\ q.steady \subseteq InTrouble(h) /\ InTrouble(h) \subseteq q.ever
  /\ \A i \in DOMAIN q.shown : Tells(q, Parts[i], q.shown[i])
  /\ "MailboxServer" \in {Parts[i] : i \in DOMAIN q.shown} /\ ~q.dag =>
       "MailboxServer" \in q.errors \/ "ReplicationHealth" \notin q.steady

\* The inductive invariant.
PartsInvariant == IsHost(host) /\ (query.pc = "parts" => answer = NoAnswer /\ Knows(host, query))

\* Trouble that is there all along is shown in the summary, or its part is named in Errors;
\* for the replication health, it may be the part that tells the group's name.  Trouble
\* that is shown was there.  A summary of zeros alone says nothing (42-51, 172-177, 419).
TroubleIsShown ==
  answer.kind = "snapshot" => \A i \in DOMAIN Parts : Tells(answer.query, Parts[i], answer.query.shown[i])

HasQueues(queues) == queues \in {NoQueues} \cup [Queues -> Queue]

\* The queues are behind, and have been read.
QueuesAreRead(q) == "Queues" \in {Parts[i] : i \in 1 .. q.next - 1} /\ "Queues" \notin q.errors

\* The inductive invariant of the queues.
QueuesInvariant ==
  query.pc = "parts" =>
    /\ HasQueues(host.queues)
    /\ QueuesAreRead(query) =>
         /\ HasQueues(query.queues) /\ query.depths = <<Depths(query.queues)>>
         /\ query.listed \in QueueLists(query.queues)

\* No message is counted twice or left out, a queue with a problem is listed however long
\* the list, and one that is left out is no longer than any that made it by its length.
QueuesAddUp ==
  answer.kind = "snapshot" /\ "Queues" \notin answer.query.errors =>
    LET q == answer.query
        d == q.depths[1]
        left == DOMAIN q.queues \ q.listed
    IN /\ d.total + d.poison + d.shadow = Messages(q.queues, DOMAIN q.queues)
       /\ d.submission + d.unreachable <= d.total
       /\ left \cap Kept(q.queues) = {}
       /\ \A r \in left : Cardinality({l \in q.listed : q.queues[l].count >= q.queues[r].count})
                            >= MaxTop
=============================================================================
