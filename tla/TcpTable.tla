------------------------------ MODULE TcpTable ------------------------------
(***************************************************************************)
(* Reading the TCP table of a Windows host with GetExtendedTcpTable: a     *)
(* call without a buffer tells its size, a second one fills a buffer of    *)
(* that size, and while the table has grown in between the pair is         *)
(* repeated.  windows_service_listening_port and                           *)
(* windows_network_connections each have a copy of this loop; they differ  *)
(* in whether the first call's status counts.  Sizes are counted in rows.  *)
(***************************************************************************)
EXTENDS Integers, FiniteSets

CONSTANT MaxAttempts \* maxAttempts, 5 in the code

NoRead == [attempt |-> 0, size |-> 0]

\* The first call: the size the table needs now.
Probe(read, table) == [attempt |-> read.attempt + 1, size |-> Cardinality(table)]

\* Mutated form of Fetch: ERROR_INSUFFICIENT_BUFFER is not told from success, and the
\* buffer holds the rows that fit.
FetchWhatFits(read, table) ==
  [kind |-> "rows",
   rows |-> IF Cardinality(table) <= read.size THEN table
            ELSE CHOOSE fit \in SUBSET table : Cardinality(fit) = read.size]

\* The second call: every row, or another attempt, or an error after the last.
Fetch(read, table) ==
  IF Cardinality(table) <= read.size THEN [kind |-> "rows", rows |-> table]
  ELSE [kind |-> IF read.attempt < MaxAttempts THEN "again" ELSE "error", rows |-> {}]
=============================================================================
