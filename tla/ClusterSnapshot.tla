-------------------------- MODULE ClusterSnapshot ---------------------------
(***************************************************************************)
(* What the failover-cluster collector's script puts together              *)
(* (windows_failover_cluster/main.go:33-455): the quorum, the nodes, the   *)
(* groups and the resources of a cluster are read one after another, while *)
(* groups move and resources fail.  The resources are read silently:       *)
(* those that cannot be read are not there.  Which group is the core group *)
(* and whether the quorum has a witness is then worked out from what there *)
(* is.  The deadline and the cache are CollectorCache's.                   *)
(***************************************************************************)
EXTENDS Integers, FiniteSets

CONSTANTS
  Nodes,
  Groups,
  CoreGroup,  \* the group of the cluster's name; one of Groups
  Null,
  MaxChanges  \* bound, for TLC: what happens to the cluster during a request

\* What the theorems assume of the constants.
CoreIsAGroup ==
  Nodes # {} /\ CoreGroup \in Groups /\ Null \notin Groups \cup Nodes

VARIABLES
  host,   \* the cluster: [up, owner, type, named, witness, state, mode, changes]
  query,  \* the request and its locals, with what it could have seen (history)
  answer  \* what the last step answered

vars == <<host, query, answer>>

\* The kinds of witness, as resources and as the quorum's mode call them.
Witnesses == {"FileShareWitness", "CloudWitness", "DiskWitness"}
States == {"Online", "Offline", "Failed"}

\* The text of a group's type, empty where it is not to be had; a storage pool's contains
\* the word the script looks for.
Types == {"Cluster", "ClusterStoragePool", "FileServer", ""}

\* owner: the node of each group.  named: the core group still has its first name, "Cluster
\* Group".  witness: its kind, or "None".  mode: the quorum's mode, which may tell the kind,
\* that there is none, neither ("Majority"), or be empty.  A request begins with all nodes
\* up and all groups on one of them.
Clusters ==
  {c \in [up : {Nodes}, owner : {[g \in Groups |-> CHOOSE n \in Nodes : TRUE]}, type : [Groups -> Types],
          named : BOOLEAN, witness : Witnesses \cup {"None"}, state : States,
          mode : {"specific", "Majority", ""}, changes : {0}] :
     /\ \A g \in Groups : (c.type[g] = "Cluster") => g = CoreGroup
     /\ c.type[CoreGroup] \in {"Cluster", ""}
     /\ c.witness = "None" => c.state = "Online"}

NoCluster == [up |-> {}, owner |-> [g \in Groups |-> Null], type |-> [g \in Groups |-> ""],
              named |-> TRUE, witness |-> "None", state |-> "Online", mode |-> "",
              changes |-> 0]

\* quorum: the witness by its name (its kind stands for it), and the mode.  nameRead,
\* witnessRead, witnessState: what was found among the resources; witnessKept (history):
\* whether the witness was among those that could be read.  History: states, those the
\* witness was in, and owners, the nodes the core group was on.
Idle == [pc |-> "idle", quorum |-> [witness |-> "None", mode |-> ""], up |-> {},
         groups |-> NoCluster.owner, nameRead |-> FALSE, witnessRead |-> FALSE,
         witnessState |-> "", witnessKept |-> FALSE, states |-> {}, owners |-> {}]

NoAnswer == [kind |-> "none", query |-> Idle, core |-> Null, owner |-> Null, down |-> 0,
             witnessType |-> "None", present |-> FALSE, health |-> TRUE, inUse |-> FALSE]

Init ==
  /\ host = NoCluster
  /\ query = Idle
  /\ answer = NoAnswer

\* The request, with a cluster to look at.
Begin ==
  /\ query.pc = "idle" /\ answer = NoAnswer
  /\ host' \in Clusters
  /\ query' = [Idle EXCEPT !.pc = "quorum", !.states = {host'.state},
                           !.owners = {host'.owner[CoreGroup]}]
  /\ UNCHANGED answer

\* Get-ClusterQuorum.
ReadQuorum ==
  /\ query.pc = "quorum"
  /\ query' = [query EXCEPT !.pc = "nodes",
       !.quorum = [witness |-> host.witness,
                   mode |-> IF host.mode = "specific"
                            THEN IF host.witness = "None" THEN "NodeMajority" ELSE host.witness
                            ELSE host.mode]]
  /\ UNCHANGED <<host, answer>>

\* Get-ClusterNode.
ReadNodes ==
  /\ query.pc = "nodes"
  /\ query' = [query EXCEPT !.pc = "groups", !.up = host.up]
  /\ UNCHANGED <<host, answer>>

\* Get-ClusterGroup.
ReadGroups ==
  /\ query.pc = "groups"
  /\ query' = [query EXCEPT !.pc = "resources", !.groups = host.owner]
  /\ UNCHANGED <<host, answer>>

\* $witnessResource: the resource the quorum named, else one whose type is a witness's; a
\* disk's type is not.
IsFound(q, witness) == witness \in {q.quorum.witness, "FileShareWitness", "CloudWitness"} \ {"None"}

\* Get-ClusterResource -ErrorAction SilentlyContinue.
ReadResources(name, witness) ==
  /\ query.pc = "resources"
  /\ LET found == witness /\ IsFound(query, host.witness)
     IN query' = [query EXCEPT !.pc = "result", !.nameRead = name, !.witnessKept = witness,
                               !.witnessRead = found,
                               !.witnessState = IF found THEN host.state ELSE ""]
  /\ UNCHANGED <<host, answer>>

\* The module, the cluster or one of the three lists cannot be read: the script throws.
ReadFails ==
  /\ query.pc \in {"quorum", "nodes", "groups"}
  /\ answer' = [NoAnswer EXCEPT !.kind = "error"]
  /\ query' = Idle
  /\ UNCHANGED host

TypedCluster == {g \in Groups : host.type[g] \in {"Cluster", "ClusterStoragePool"}}

\* Mutated form of CoreGroups: an untyped core group is looked for by its first name only.
CoreGroupsByName(q) ==
  IF TypedCluster # {} THEN TypedCluster
  ELSE IF host.named THEN {CoreGroup} ELSE {Null}

\* $coreGroup: the first by type, else the one of the cluster name's resource, else the one
\* of that name.
CoreGroups(q) ==
  IF TypedCluster # {} THEN TypedCluster
  ELSE IF q.nameRead \/ host.named THEN {CoreGroup} ELSE {Null}

\* $witnessType: by the resource, by the mode, or by the resource's name, which need not
\* tell; a mode that is no kind is taken for one.
WitnessType(q) ==
  IF q.witnessRead THEN host.witness
  ELSE IF q.quorum.mode = "NodeMajority" THEN "None"
  ELSE IF q.quorum.mode # "" THEN q.quorum.mode
  ELSE q.quorum.witness

WitnessPresent(q) ==
  q.witnessRead \/ (WitnessType(q) # "None" /\ q.quorum.witness # "None")

\* Mutated form of WitnessHealth: a witness whose state was not read is not healthy.
WitnessHealthIfOnline(q) == WitnessPresent(q) => q.witnessState = "Online"

WitnessHealth(q) == WitnessPresent(q) => q.witnessState \in {"", "Online"}

WitnessInUse(q) == WitnessPresent(q) /\ q.witnessState \in {"", "Online"}

\* The result is put together.
Finish ==
  /\ query.pc = "result"
  /\ \E core \in CoreGroups(query) :
       answer' = [kind |-> "snapshot", query |-> query, core |-> core,
                  owner |-> IF core = Null THEN Null ELSE query.groups[core],
                  down |-> Cardinality(Nodes \ query.up),
                  witnessType |-> WitnessType(query), present |-> WitnessPresent(query),
                  health |-> WitnessHealth(query), inUse |-> WitnessInUse(query)]
  /\ query' = Idle
  /\ UNCHANGED host

Return ==
  /\ answer # NoAnswer
  /\ answer' = NoAnswer /\ host' = NoCluster
  /\ UNCHANGED query

\* During a request a node fails or comes back, a group moves, the witness changes state or
\* is replaced.
Change ==
  /\ query.pc \notin {"idle", "result"} /\ host.changes < MaxChanges
  /\ \/ \E n \in Nodes :
          host' = [host EXCEPT !.up = IF n \in @ THEN @ \ {n} ELSE @ \cup {n},
                               !.changes = @ + 1]
     \/ \E g \in Groups, n \in Nodes :
          host' = [host EXCEPT !.owner[g] = n, !.changes = @ + 1]
     \/ \E s \in States :
          /\ host.witness # "None"
          /\ host' = [host EXCEPT !.state = s, !.changes = @ + 1]
     \/ \E w \in Witnesses \cup {"None"} :
          host' = [host EXCEPT !.witness = w, !.state = "Online", !.changes = @ + 1]
  /\ query' = [query EXCEPT !.states = @ \cup {host'.state},
                            !.owners = @ \cup {host'.owner[CoreGroup]}]
  /\ UNCHANGED answer

Next ==
  \/ Begin \/ ReadQuorum \/ ReadNodes \/ ReadGroups
  \/ \E name, witness \in BOOLEAN : ReadResources(name, witness)
  \/ ReadFails \/ Finish \/ Return \/ Change

Spec == Init /\ [][Next]_vars

-----------------------------------------------------------------------------
Places == {"idle", "quorum", "nodes", "groups", "resources", "result"}

IsHost(h) ==
  /\ DOMAIN h = {"up", "owner", "type", "named", "witness", "state", "mode", "changes"}
  /\ h.up \subseteq Nodes /\ h.owner \in [Groups -> Nodes \cup {Null}]
  /\ h.witness \in Witnesses \cup {"None"} /\ h.state \in States
  /\ h.mode \in {"specific", "Majority", ""}

QueryType ==
  [pc : Places,
   quorum : [witness : Witnesses \cup {"None"},
             mode : Witnesses \cup {"NodeMajority", "Majority", ""}],
   up : SUBSET Nodes, groups : [Groups -> Nodes \cup {Null}], nameRead : BOOLEAN,
   witnessRead : BOOLEAN, witnessState : States \cup {""}, witnessKept : BOOLEAN,
   states : SUBSET States, owners : SUBSET (Nodes \cup {Null})]

\* The shapes of the state.
TypeOK ==
  /\ IsHost(host) /\ query \in QueryType
  /\ answer # NoAnswer => query.pc = "idle"

\* What a request in progress knows: the histories have what stands, and what was read was
\* so.  A witness that was never online was there all along, with the kind the quorum told.
Knows(h, q) ==
  /\ h.state \in q.states /\ h.owner[CoreGroup] \in q.owners
  /\ q.pc \in {"resources", "result"} => q.groups[CoreGroup] \in q.owners
  /\ "Online" \notin q.states =>
       /\ h.witness # "None"
       /\ q.pc # "quorum" => q.quorum.witness = h.witness
  /\ q.pc = "result" =>
       /\ q.witnessRead = (q.witnessKept /\ IsFound(q, h.witness))
       /\ q.witnessState = IF q.witnessRead THEN h.state ELSE ""

\* The inductive invariant.
ClusterInvariant == TypeOK /\ (query.pc # "idle" => Knows(host, query))

\* A witness is shown as failed only if it was, and one that was not online all along is
\* shown as failed, unless it could not be read: then it looks healthy and in use
\* (161, 395-409).
WitnessIsTrue ==
  answer.kind = "snapshot" =>
    /\ ~answer.health => answer.query.states # {"Online"}
    /\ "Online" \notin answer.query.states /\ answer.query.witnessKept =>
         ~answer.health /\ ~answer.inUse

\* The owner of the core group is that of the right group, at some moment of the request,
\* unless another group's type contains the same word; it is left out only if the group is
\* renamed, its type is not to be had and the cluster's name was not read (179-205).
CoreGroupIsRight ==
  answer.kind = "snapshot" /\ TypedCluster \subseteq {CoreGroup} =>
    \/ answer.core = CoreGroup /\ answer.owner \in answer.query.owners
    \/ /\ answer.core = Null /\ answer.owner = Null
       /\ TypedCluster = {} /\ ~host.named /\ ~answer.query.nameRead
=============================================================================
