--------------------------- MODULE ConnectionMap ----------------------------
(***************************************************************************)
(* The network connection maps: a host's open ports, and its TCP           *)
(* connections, incoming if their local port is one this host listens on,  *)
(* and outgoing otherwise.  Linux (linux_network_connections/main.go)      *)
(* reads /proc/net/tcp for the listeners, /proc/net/udp, and /proc/net/tcp *)
(* again for the connections; Windows                                      *)
(* (windows_network_connections/main.go) takes all from one table.  One    *)
(* read of a /proc file is taken to be of one moment.                      *)
(***************************************************************************)
EXTENDS TcpTable

CONSTANTS
  Addresses,  \* local and remote IPv4 addresses
  Loopback,   \* those of 127.0.0.0/8
  Ports,      \* local ports
  RemotePorts,
  NoPeer,        \* the address and port a listening socket has for its remote end
  MaxSockets, \* bound, for TLC
  MaxChanges  \* bound, for TLC: sockets opened or closed during a request

VARIABLES
  host,   \* [sockets, changes]
  query,  \* the request and its locals, with what it could have seen (history)
  answer  \* what the last step answered

vars == <<host, query, answer>>

\* One of several connected states stands for those Windows does not count; a connection
\* has both ends on the loopback, or none.
Connections ==
  {s \in [state : {"established", "closing"}, addr : Addresses, port : Ports,
          remote : Addresses, rport : RemotePorts] :
     s.addr \in Loopback <=> s.remote \in Loopback}

Sockets ==
  Connections
  \cup [state : {"listen"}, addr : Addresses, port : Ports, remote : {NoPeer}, rport : {NoPeer}]
  \cup [state : {"udp"}, addr : {NoPeer}, port : Ports, remote : {NoPeer}, rport : {NoPeer}]

\* A request begins with at most two sockets.
Hosts == [sockets : {{}} \cup {{s, t} : s, t \in Sockets}, changes : {0}]

NoHost == [sockets |-> {}, changes |-> 0]

\* rows: the connections counted.  History: steady, the sockets open from the first step
\* on, and ever, those open at some moment.
Idle == [pc |-> "idle", os |-> "", nets |-> {}, read |-> NoRead, listening |-> {},
         openPorts |-> {}, incoming |-> {}, outgoing |-> {}, rows |-> {},
         steady |-> {}, ever |-> {}]

NoAnswer == [kind |-> "none", query |-> Idle]

Init ==
  /\ host = NoHost
  /\ query = Idle
  /\ answer = NoAnswer

\* parseInternalNets: every network if none is given, or none that is well formed.
ParseInternalNets(given) == IF given = {} THEN Addresses ELSE given

\* Export.
Begin(os, given) ==
  /\ query.pc = "idle" /\ answer = NoAnswer
  /\ os = "windows" => given = {}
  /\ host' \in Hosts
  /\ query' = [Idle EXCEPT !.os = os, !.pc = IF os = "windows" THEN "probe" ELSE "listeners",
                           !.nets = ParseInternalNets(given),
                           !.steady = host'.sockets, !.ever = host'.sockets]
  /\ UNCHANGED answer

AnswerError ==
  /\ answer' = [kind |-> "error", query |-> query]
  /\ query' = Idle
  /\ UNCHANGED host

TCP == {s \in host.sockets : s.state # "udp"}

PortsOf(sockets) == {s.port : s \in sockets}

\* collectListeningPortsV4, its first read.
CollectListeningPorts ==
  /\ query.pc = "listeners"
  /\ LET ports == PortsOf({s \in TCP : s.state = "listen"})
     IN query' = [query EXCEPT !.pc = "udp", !.listening = ports, !.openPorts = ports]
  /\ UNCHANGED <<host, answer>>

\* The second, whose failure is ignored: the ports up to the failure, all of them or none.
CollectUDP ==
  /\ query.pc = "udp"
  /\ \E ports \in SUBSET PortsOf(host.sockets \ TCP) :
       query' = [query EXCEPT !.pc = "connections", !.openPorts = @ \cup ports]
  /\ UNCHANGED <<host, answer>>

\* Mutated form of IsIncoming: any open port counts, of UDP too.
IsIncomingToOpenPort(q, s) == s.port \in q.openPorts

IsIncoming(q, s) == s.port \in q.listening

\* A connection is counted under a key, of which an incoming one has no remote port and
\* an outgoing one no local port.
IncomingKey == [s \in Connections |-> <<s.addr, s.port, s.remote>>]
OutgoingKey == [s \in Connections |-> <<s.addr, s.remote, s.rport>>]

\* Mutated form of Counts: one per key, however many connections have it.
CountsOnce(rows, key) == {<<key[s], 1>> : s \in rows}

Counts(rows, key) ==
  {<<key[s], Cardinality({t \in rows : key[t] = key[s]})>> : s \in rows}

\* The two arrays of the answer.
Aggregate(q, rows) ==
  LET in == {s \in rows : IsIncoming(q, s)}
  IN [q EXCEPT !.incoming = Counts(in, IncomingKey),
               !.outgoing = Counts(rows \ in, OutgoingKey), !.rows = rows]

Reply(q) ==
  /\ answer' = [kind |-> "map", query |-> q]
  /\ query' = Idle
  /\ UNCHANGED host

\* collectTcpConnectedAggV4: the third read; the networks are compared with the local
\* address.
CollectTcpConnected ==
  /\ query.pc = "connections"
  /\ Reply(Aggregate(query, {s \in host.sockets \cap Connections : s.addr \in query.nets}))

\* /proc/net/tcp cannot be read.
ReadFails ==
  /\ query.pc \in {"listeners", "connections"}
  /\ AnswerError

-----------------------------------------------------------------------------
\* Windows: getTCPTableOwnerPIDAllIPv4.
ProbeTable ==
  /\ query.pc = "probe"
  /\ query' = [query EXCEPT !.read = Probe(@, TCP), !.pc = "fetch"]
  /\ UNCHANGED <<host, answer>>

\* buildPayload, once it has the rows.
BuildPayload(rows) ==
  LET listening == PortsOf({s \in rows : s.state = "listen" /\ s.addr \notin Loopback})
      q == [query EXCEPT !.listening = listening, !.openPorts = listening]
  IN Aggregate(q, {s \in rows : s.state = "established" /\ {s.addr, s.remote} \cap Loopback = {}})

FetchTable ==
  /\ query.pc = "fetch"
  /\ LET result == Fetch(query.read, TCP) IN
       \/ result.kind = "rows" /\ Reply(BuildPayload(result.rows))
       \/ /\ result.kind = "again"
          /\ query' = [query EXCEPT !.pc = "probe"]
          /\ UNCHANGED <<host, answer>>
       \/ result.kind = "error" /\ AnswerError

\* Either call fails for another reason.
TableFails == query.pc \in {"probe", "fetch"} /\ AnswerError

Return ==
  /\ answer # NoAnswer
  /\ answer' = NoAnswer /\ host' = NoHost
  /\ UNCHANGED query

\* Sockets open and close during a request.
Change ==
  /\ query.pc # "idle" /\ host.changes < MaxChanges
  /\ \E s \in Sockets :
       /\ s \notin host.sockets => Cardinality(host.sockets) < MaxSockets
       /\ host' = [sockets |-> IF s \in host.sockets THEN host.sockets \ {s}
                               ELSE host.sockets \cup {s},
                   changes |-> host.changes + 1]
  /\ query' = [query EXCEPT !.steady = @ \cap host'.sockets, !.ever = @ \cup host'.sockets]
  /\ UNCHANGED answer

Next ==
  \/ \E os \in {"windows", "linux"}, given \in {{}, Addresses \ Loopback} : Begin(os, given)
  \/ CollectListeningPorts \/ CollectUDP \/ CollectTcpConnected \/ ReadFails
  \/ ProbeTable \/ FetchTable \/ TableFails
  \/ Return \/ Change

Spec == Init /\ [][Next]_vars

-----------------------------------------------------------------------------
\* A listener that counts: on Windows one on a loopback address does not.
Listens(os, sockets, port) ==
  \E s \in sockets :
    /\ s.state = "listen" /\ s.port = port
    /\ os = "windows" => s.addr \notin Loopback

\* A connection that is to be counted.
Qualifies(q, s) ==
  /\ s \in Connections
  /\ IF q.os = "linux" THEN s.addr \in q.nets
     ELSE s.state = "established" /\ {s.addr, s.remote} \cap Loopback = {}

\* The histories have what stands; what is known of the listeners is of a moment since then.
MapInvariant ==
  query.pc # "idle" =>
    /\ answer = NoAnswer /\ DOMAIN query = DOMAIN Idle
    /\ host.sockets \subseteq Sockets
    /\ query.steady \subseteq host.sockets /\ host.sockets \subseteq query.ever
    /\ query.pc \in {"probe", "fetch"} => query.os = "windows"
    /\ query.pc \in {"listeners", "udp", "connections"} => query.os = "linux"
    /\ query.pc \in {"udp", "connections"} => \A port \in Ports :
         /\ Listens(query.os, query.steady, port) => port \in query.listening
         /\ port \in query.listening => Listens(query.os, query.ever, port)

\* The counts are of these connections, each in one of them.
CountEach(counts, connections, key) ==
  /\ {c[1] : c \in counts} = {key[s] : s \in connections}
  /\ \A c \in counts : c[2] = Cardinality({s \in connections : key[s] = c[1]})

\* However the sockets change between the reads, what is counted was open, and what was
\* open all along, and is not filtered out, is counted, once: as incoming or as outgoing,
\* incoming only if its port was listened on at some moment, and outgoing only if it was
\* not all along, whatever UDP does with the port (main.go:150-160, 298-345).
DirectionIsRight ==
  answer.kind = "map" =>
    LET q == answer.query IN
    /\ {s \in q.steady : Qualifies(q, s)} \subseteq q.rows
    /\ q.rows \subseteq {s \in q.ever : Qualifies(q, s)}
    /\ \E in \in SUBSET q.rows :
         /\ \A s \in in : Listens(q.os, q.ever, s.port)
         /\ \A s \in q.rows \ in : ~Listens(q.os, q.steady, s.port)
         /\ CountEach(q.incoming, in, IncomingKey)
         /\ CountEach(q.outgoing, q.rows \ in, OutgoingKey)
=============================================================================
