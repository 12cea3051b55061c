-------------------------- MODULE CollectorsProofs --------------------------
(***************************************************************************)
(* What the answers of the querying plugins promise, for any host, any     *)
(* number of changes of it and any failures of what they read.             *)
(***************************************************************************)
EXTENDS Collectors, LatestUpdateProofs, Sequences, FiniteSetTheorems, TLAPS

\* A step of the composition is a step of its plugin, or a stutter of it.
LEMMA PluginStep ==
  ASSUME [PluginNext]_<<plugin, vars>>
  PROVE  /\ plugin' = plugin
         /\ plugin = "users" => [AD!Next]_(AD!vars)
         /\ plugin = "ports" => [Listening!Next]_(Listening!vars)
         /\ plugin = "map" => [Connections!Next]_(Connections!vars)
         /\ plugin = "events" => [Events!Next]_(Events!vars)
         /\ plugin = "exchange" => [Exchange!Next]_(Exchange!vars)
         /\ plugin = "cluster" => [Cluster!Next]_(Cluster!vars)
  BY DEF PluginNext, OtherNext, vars, AD!vars, Listening!vars, Connections!vars, Events!vars,
         Exchange!vars, Cluster!vars

LEMMA PluginStart ==
  ASSUME PluginInit
  PROVE  /\ plugin = "users" => AD!Init
         /\ plugin = "ports" => Listening!Init
         /\ plugin = "map" => Connections!Init
         /\ plugin = "events" => Events!Init
         /\ plugin = "exchange" => Exchange!Init
         /\ plugin = "cluster" => Cluster!Init
  BY DEF PluginInit, OtherInit

-----------------------------------------------------------------------------
\* The Active Directory queries.  ADUsersProofs is taken once more with the composition's
\* variables: its definitions are those of AD, and what it proves of them holds here.

ADP == INSTANCE ADUsersProofs WITH directory <- host

LEMMA SameAccounts ==
  /\ AD!DaysAndMarkers <=> ADP!DaysAndMarkers
  /\ AD!Kinds = ADP!Kinds /\ AD!BaseLists = ADP!BaseLists
  /\ \A kind : AD!Accounts(kind) = ADP!Accounts(kind)
  /\ \A kind, a : AD!Changes(kind, a) = ADP!Changes(kind, a)
  /\ \A kind, withNever, a : AD!Meant(kind, withNever, a) = ADP!Meant(kind, withNever, a)
  /\ \A kind, withNever, a : AD!MustList(kind, withNever, a) = ADP!MustList(kind, withNever, a)
  <1>1. AD!DaysAndMarkers <=> ADP!DaysAndMarkers
    BY DEF AD!DaysAndMarkers, ADP!DaysAndMarkers
  <1>2. AD!Kinds = ADP!Kinds /\ AD!BaseLists = ADP!BaseLists
    BY DEF AD!Kinds, ADP!Kinds, AD!BaseLists, ADP!BaseLists
  <1>3. \A kind : AD!Accounts(kind) = ADP!Accounts(kind)
    BY DEF AD!Accounts, ADP!Accounts, AD!Past, ADP!Past, AD!Soon, ADP!Soon
  <1>4. \A kind, a : AD!Changes(kind, a) = ADP!Changes(kind, a)
    BY <1>3 DEF AD!Changes, ADP!Changes
  <1>5. \A kind, withNever, a : AD!Meant(kind, withNever, a) = ADP!Meant(kind, withNever, a)
    BY DEF AD!Meant, ADP!Meant, AD!Past, ADP!Past
  <1>6. \A kind, withNever, a : AD!MustList(kind, withNever, a) = ADP!MustList(kind, withNever, a)
    BY <1>5 DEF AD!MustList, ADP!MustList
  <1>7. QED
    BY <1>1, <1>2, <1>3, <1>4, <1>5, <1>6

LEMMA SameSearches ==
  /\ AD!Idle = ADP!Idle /\ AD!NoAnswer = ADP!NoAnswer
  /\ \A dir, q : AD!Found(dir, q) = ADP!Found(dir, q) /\ AD!Searched(dir, q) = ADP!Searched(dir, q)
  /\ \A bases : AD!ResolveSearchBases(bases) = ADP!ResolveSearchBases(bases)
  /\ \A q, u, a : AD!Handle(q, u, a) = ADP!Handle(q, u, a)
  /\ \A q : AD!LastFilter(q) <=> ADP!LastFilter(q)
  <1>1. AD!Idle = ADP!Idle /\ AD!NoAnswer = ADP!NoAnswer
    BY DEF AD!Idle, ADP!Idle, AD!NoAnswer, ADP!NoAnswer
  <1>2. \A dir, q : AD!Found(dir, q) = ADP!Found(dir, q)
    BY DEF AD!Found, ADP!Found, AD!Under, ADP!Under, AD!Matches, ADP!Matches, AD!Searches,
           ADP!Searches, AD!Past, ADP!Past
  <1>3. \A dir, q : AD!Searched(dir, q) = ADP!Searched(dir, q)
    BY DEF AD!Searched, ADP!Searched, AD!Under, ADP!Under
  <1>4. \A bases : AD!ResolveSearchBases(bases) = ADP!ResolveSearchBases(bases)
    BY DEF AD!ResolveSearchBases, ADP!ResolveSearchBases
  <1>5. \A q, u, a : AD!Handle(q, u, a) = ADP!Handle(q, u, a)
    BY DEF AD!Handle, ADP!Handle, AD!Kept, ADP!Kept, AD!DN, ADP!DN, AD!DisabledSince,
           ADP!DisabledSince, AD!InWindow, ADP!InWindow, AD!Past, ADP!Past
  <1>6. \A q : AD!LastFilter(q) <=> ADP!LastFilter(q)
    BY DEF AD!LastFilter, ADP!LastFilter, AD!Searches, ADP!Searches
  <1>7. QED
    BY <1>1, <1>2, <1>3, <1>4, <1>5, <1>6

LEMMA SameActions ==
  /\ \A kind, withNever, bases : AD!Begin(kind, withNever, bases) <=> ADP!Begin(kind, withNever, bases)
  /\ \A u : (AD!Entry(u) <=> ADP!Entry(u)) /\ (AD!Change(u) <=> ADP!Change(u))
  /\ AD!NextSearch <=> ADP!NextSearch
  /\ AD!Finish <=> ADP!Finish
  /\ AD!PageFails <=> ADP!PageFails
  /\ AD!Return <=> ADP!Return
  <1>1. \A kind, withNever, bases :
          AD!Begin(kind, withNever, bases) <=> ADP!Begin(kind, withNever, bases)
    <2> SUFFICES ASSUME NEW kind, NEW withNever, NEW bases
                 PROVE  AD!Begin(kind, withNever, bases) <=> ADP!Begin(kind, withNever, bases)
      OBVIOUS
    <2>1. {u \in Users : AD!Meant(kind, withNever, host'[u])}
            = {u \in Users : ADP!Meant(kind, withNever, host'[u])}
      BY SameAccounts
    <2>2. {u \in Users : AD!MustList(kind, withNever, host'[u])}
            = {u \in Users : ADP!MustList(kind, withNever, host'[u])}
      BY SameAccounts
    <2>3. AD!Accounts(kind) = ADP!Accounts(kind)
      BY SameAccounts
    <2>4. QED
      BY <2>1, <2>2, <2>3, SameSearches DEF AD!Begin, ADP!Begin
  <1>2. \A u : AD!Entry(u) <=> ADP!Entry(u)
    BY SameSearches DEF AD!Entry, ADP!Entry
  <1>3. \A u : AD!Change(u) <=> ADP!Change(u)
    BY SameAccounts, SameSearches DEF AD!Change, ADP!Change
  <1>4. AD!NextSearch <=> ADP!NextSearch
    BY SameSearches DEF AD!NextSearch, ADP!NextSearch
  <1>5. AD!Finish <=> ADP!Finish
    BY SameSearches DEF AD!Finish, ADP!Finish
  <1>6. (AD!PageFails <=> ADP!PageFails) /\ (AD!Return <=> ADP!Return)
    BY SameSearches DEF AD!PageFails, ADP!PageFails, AD!Return, ADP!Return
  <1>7. QED
    BY <1>1, <1>2, <1>3, <1>4, <1>5, <1>6

LEMMA SameBehaviours ==
  /\ AD!Init <=> ADP!Init
  /\ [AD!Next]_(AD!vars) <=> [ADP!Next]_(ADP!vars)
  <1>1. AD!Init <=> ADP!Init
    BY SameSearches DEF AD!Init, ADP!Init
  <1>2. AD!Next <=> ADP!Next
    BY SameAccounts, SameActions DEF AD!Next, ADP!Next
  <1>3. QED
    BY <1>1, <1>2 DEF AD!vars, ADP!vars

UsersPromise == AD!NobodyIsMissed /\ AD!ListedForAReason /\ AD!ListedOnce

LEMMA SamePromises == ADP!LInv => UsersPromise
  <1>1. ADP!LInv => ADP!NobodyIsMissed /\ ADP!ListedForAReason /\ ADP!ListedOnce
    BY ADP!NamesAreUnique DEF ADP!LInv
  <1>2. QED
    BY <1>1 DEF UsersPromise, AD!NobodyIsMissed, ADP!NobodyIsMissed, AD!ListedForAReason,
       ADP!ListedForAReason, AD!ListedOnce, ADP!ListedOnce, AD!Listed, ADP!Listed

LEMMA UsersPromises == PluginSpec => [](plugin = "users" => UsersPromise)
  <1>1. PluginInit => (plugin = "users" => ADP!LInv)
    BY PluginStart, SameBehaviours, ADP!LInvInit
  <1>2. (plugin = "users" => ADP!LInv) /\ [PluginNext]_<<plugin, vars>>
          => (plugin = "users" => ADP!LInv)'
    BY PluginStep, SameBehaviours, SameAccounts, UsersAssumption, ADP!LInvNext
  <1>3. (plugin = "users" => ADP!LInv) => (plugin = "users" => UsersPromise)
    BY SamePromises
  <1>4. QED
    BY <1>1, <1>2, <1>3, PTL DEF PluginSpec

\* Whoever a query is meant for, and stays so where a base is searched from the first page
\* to the last, is in its list (searchEach and the five get functions).
THEOREM NobodyIsLeftOut == PluginSpec => []NobodyIsMissed
  <1>1. (plugin = "users" => UsersPromise) => NobodyIsMissed
    BY DEF UsersPromise, NobodyIsMissed
  <1>2. QED
    BY <1>1, UsersPromises, PTL

\* Everybody in a list met what the query is meant for at some moment of it.
THEOREM EverybodyHasAReason == PluginSpec => []ListedForAReason
  <1>1. (plugin = "users" => UsersPromise) => ListedForAReason
    BY DEF UsersPromise, ListedForAReason
  <1>2. QED
    BY <1>1, UsersPromises, PTL

\* Nobody is listed twice under one name.
THEOREM NobodyIsListedTwice == PluginSpec => []ListedOnce
  <1>1. (plugin = "users" => UsersPromise) => ListedOnce
    BY DEF UsersPromise, ListedOnce
  <1>2. QED
    BY <1>1, UsersPromises, PTL

-----------------------------------------------------------------------------
\* The failover cluster.

LEMMA ClusterShapes ==
  /\ Cluster!IsHost(Cluster!NoCluster)
  /\ Cluster!Idle \in Cluster!QueryType /\ Cluster!Idle.pc = "idle"
  <1>1. Cluster!IsHost(Cluster!NoCluster)
    BY DEF Cluster!NoCluster, Cluster!IsHost, Cluster!Types, Cluster!States
  <1>2. Cluster!NoCluster.owner \in [ClusterGroups -> Nodes \cup {Null}]
    BY DEF Cluster!NoCluster
  <1>3. Cluster!Idle \in Cluster!QueryType /\ Cluster!Idle.pc = "idle"
    BY <1>2 DEF Cluster!Idle, Cluster!QueryType, Cluster!Places
  <1>4. QED
    BY <1>1, <1>3

LEMMA ClusterInit == Cluster!Init => Cluster!ClusterInvariant
  BY ClusterShapes DEF Cluster!Init, Cluster!ClusterInvariant, Cluster!TypeOK

\* A cluster to look at.
LEMMA ClusterBegin == Cluster!ClusterInvariant /\ Cluster!Begin => Cluster!ClusterInvariant'
  <1> SUFFICES ASSUME Cluster!ClusterInvariant, Cluster!Begin PROVE Cluster!ClusterInvariant'
    OBVIOUS
  <1>1. /\ host' \in Cluster!Clusters
        /\ query' = [Cluster!Idle EXCEPT !.pc = "quorum", !.states = {host'.state},
                                         !.owners = {host'.owner[CoreGroup]}]
        /\ answer' = answer /\ answer = Cluster!NoAnswer
    BY DEF Cluster!Begin
  <1>2. (CHOOSE n \in Nodes : TRUE) \in Nodes
    BY ClusterAssumption DEF Cluster!CoreIsAGroup
  <1>3. Cluster!IsHost(host') /\ (host'.witness = "None" => host'.state = "Online")
    <2> DEFINE owners == [g \in ClusterGroups |-> CHOOSE n \in Nodes : TRUE]
    <2>1. owners \in [ClusterGroups -> Nodes \cup {Null}]
      BY <1>2
    <2>2. /\ host' \in [up : {Nodes}, owner : {owners}, type : [ClusterGroups -> Cluster!Types],
                        named : BOOLEAN, witness : Cluster!Witnesses \cup {"None"},
                        state : Cluster!States, mode : {"specific", "Majority", ""}, changes : {0}]
          /\ host'.witness = "None" => host'.state = "Online"
      BY <1>1 DEF Cluster!Clusters
    <2> HIDE DEF owners
    <2>3. QED
      BY <2>1, <2>2 DEF Cluster!IsHost
  <1>4. host'.state \in Cluster!States /\ host'.owner[CoreGroup] \in Nodes \cup {Null}
    BY <1>3, ClusterAssumption DEF Cluster!IsHost, Cluster!CoreIsAGroup
  <1>5. /\ query' \in Cluster!QueryType /\ query'.pc = "quorum"
        /\ query'.states = {host'.state} /\ query'.owners = {host'.owner[CoreGroup]}
    BY <1>1, <1>4, ClusterShapes DEF Cluster!QueryType, Cluster!Places
  <1>6. QED
    BY <1>1, <1>3, <1>5 DEF Cluster!ClusterInvariant, Cluster!TypeOK, Cluster!Knows

\* The quorum, the nodes, the groups and the resources are read.
LEMMA ClusterRead ==
  ASSUME Cluster!ClusterInvariant,
         \/ Cluster!ReadQuorum \/ Cluster!ReadNodes \/ Cluster!ReadGroups
         \/ \E name, witness \in BOOLEAN : Cluster!ReadResources(name, witness)
  PROVE  Cluster!ClusterInvariant'
  <1>1. Cluster!IsHost(host) /\ query \in Cluster!QueryType
    BY DEF Cluster!ClusterInvariant, Cluster!TypeOK
  <1>2. host' = host /\ answer' = answer /\ query.pc \in {"quorum", "nodes", "groups", "resources"}
    BY DEF Cluster!ReadQuorum, Cluster!ReadNodes, Cluster!ReadGroups, Cluster!ReadResources
  <1>3. Cluster!Knows(host, query) /\ answer = Cluster!NoAnswer
    BY <1>2 DEF Cluster!ClusterInvariant, Cluster!TypeOK
  <1>4. CASE Cluster!ReadQuorum
    <2>1. /\ query' \in Cluster!QueryType /\ query'.pc = "nodes"
          /\ query'.states = query.states /\ query'.owners = query.owners
          /\ query'.quorum.witness = host.witness
      BY <1>1, <1>4 DEF Cluster!ReadQuorum, Cluster!QueryType, Cluster!IsHost, Cluster!Places
    <2>2. QED
      BY <1>1, <1>2, <1>3, <2>1 DEF Cluster!ClusterInvariant, Cluster!TypeOK, Cluster!Knows
  <1>5. CASE Cluster!ReadNodes
    <2>1. /\ query' \in Cluster!QueryType /\ query'.pc = "groups" /\ query.pc = "nodes"
          /\ query'.states = query.states /\ query'.owners = query.owners
          /\ query'.quorum = query.quorum
      BY <1>1, <1>5 DEF Cluster!ReadNodes, Cluster!QueryType, Cluster!IsHost, Cluster!Places
    <2>2. QED
      BY <1>1, <1>2, <1>3, <2>1 DEF Cluster!ClusterInvariant, Cluster!TypeOK, Cluster!Knows
  <1>6. CASE Cluster!ReadGroups
    <2>1. /\ query' \in Cluster!QueryType /\ query'.pc = "resources" /\ query.pc = "groups"
          /\ query'.states = query.states /\ query'.owners = query.owners
          /\ query'.quorum = query.quorum /\ query'.groups = host.owner
      BY <1>1, <1>6 DEF Cluster!ReadGroups, Cluster!QueryType, Cluster!IsHost, Cluster!Places
    <2>2. QED
      BY <1>1, <1>2, <1>3, <2>1 DEF Cluster!ClusterInvariant, Cluster!TypeOK, Cluster!Knows
  <1>7. CASE \E name, witness \in BOOLEAN : Cluster!ReadResources(name, witness)
    <2>1. PICK name \in BOOLEAN, witness \in BOOLEAN : Cluster!ReadResources(name, witness)
      BY <1>7
    <2> DEFINE found == witness /\ Cluster!IsFound(query, host.witness)
    <2>2. found \in BOOLEAN /\ query.pc = "resources"
      BY <2>1 DEF Cluster!ReadResources, Cluster!IsFound
    <2>3. query' = [query EXCEPT !.pc = "result", !.nameRead = name, !.witnessKept = witness,
                                 !.witnessRead = found,
                                 !.witnessState = IF found THEN host.state ELSE ""]
      BY <2>1 DEF Cluster!ReadResources
    <2> HIDE DEF found
    <2>4. /\ query' \in Cluster!QueryType /\ query'.pc = "result"
          /\ query'.states = query.states /\ query'.owners = query.owners
          /\ query'.quorum = query.quorum /\ query'.groups = query.groups
          /\ query'.witnessRead = found /\ query'.witnessKept = witness
          /\ query'.witnessState = IF found THEN host.state ELSE ""
      BY <1>1, <2>2, <2>3 DEF Cluster!QueryType, Cluster!IsHost, Cluster!Places
    <2>5. found = (query'.witnessKept /\ Cluster!IsFound(query', host.witness))
      BY <2>4 DEF found, Cluster!IsFound
    <2>6. QED
      BY <1>1, <1>2, <1>3, <2>2, <2>4, <2>5 DEF Cluster!ClusterInvariant, Cluster!TypeOK, Cluster!Knows
  <1>8. QED
    BY <1>4, <1>5, <1>6, <1>7

\* What happens to the cluster is added to the histories.
LEMMA ClusterChange == Cluster!ClusterInvariant /\ Cluster!Change => Cluster!ClusterInvariant'
  <1> SUFFICES ASSUME Cluster!ClusterInvariant, Cluster!Change PROVE Cluster!ClusterInvariant'
    OBVIOUS
  <1>1. /\ Cluster!IsHost(host) /\ query \in Cluster!QueryType
        /\ query.pc \notin {"idle", "result"} /\ Cluster!Knows(host, query)
        /\ answer' = answer /\ answer = Cluster!NoAnswer
    BY DEF Cluster!ClusterInvariant, Cluster!TypeOK, Cluster!Change
  <1>2. /\ Cluster!IsHost(host')
        /\ \/ host'.witness = host.witness /\ host'.state = host.state
           \/ host'.witness = host.witness /\ host.witness # "None"
           \/ host'.state = "Online"
    <2>1. CASE \E n \in Nodes :
            host' = [host EXCEPT !.up = IF n \in @ THEN @ \ {n} ELSE @ \cup {n}, !.changes = @ + 1]
      <3>1. PICK up \in SUBSET Nodes : host' = [host EXCEPT !.up = up, !.changes = @ + 1]
        BY <1>1, <2>1 DEF Cluster!IsHost
      <3>2. QED
        BY <1>1, <3>1 DEF Cluster!IsHost
    <2>2. CASE \E g \in ClusterGroups, n \in Nodes :
            host' = [host EXCEPT !.owner[g] = n, !.changes = @ + 1]
      <3>1. PICK owner \in [ClusterGroups -> Nodes \cup {Null}] :
              host' = [host EXCEPT !.owner = owner, !.changes = @ + 1]
        BY <1>1, <2>2 DEF Cluster!IsHost
      <3>2. QED
        BY <1>1, <3>1 DEF Cluster!IsHost
    <2>3. CASE \E s \in Cluster!States :
            /\ host.witness # "None"
            /\ host' = [host EXCEPT !.state = s, !.changes = @ + 1]
      BY <1>1, <2>3 DEF Cluster!IsHost
    <2>4. CASE \E w \in Cluster!Witnesses \cup {"None"} :
            host' = [host EXCEPT !.witness = w, !.state = "Online", !.changes = @ + 1]
      <3>1. "Online" \in Cluster!States
        BY DEF Cluster!States
      <3>2. QED
        BY <1>1, <2>4, <3>1 DEF Cluster!IsHost
    <2>5. QED
      BY <2>1, <2>2, <2>3, <2>4 DEF Cluster!Change
  <1>3. query' = [query EXCEPT !.states = @ \cup {host'.state},
                               !.owners = @ \cup {host'.owner[CoreGroup]}]
    BY DEF Cluster!Change
  <1>4. host'.state \in Cluster!States /\ host'.owner[CoreGroup] \in Nodes \cup {Null}
    BY <1>2, ClusterAssumption DEF Cluster!IsHost, Cluster!CoreIsAGroup
  <1>5. /\ query' \in Cluster!QueryType /\ query'.pc = query.pc
        /\ query'.states = query.states \cup {host'.state}
        /\ query'.owners = query.owners \cup {host'.owner[CoreGroup]}
        /\ query'.quorum = query.quorum /\ query'.groups = query.groups
    BY <1>1, <1>3, <1>4 DEF Cluster!QueryType
  <1>6. Cluster!Knows(host', query')
    BY <1>1, <1>2, <1>5 DEF Cluster!Knows
  <1>7. QED
    BY <1>1, <1>2, <1>5, <1>6 DEF Cluster!ClusterInvariant, Cluster!TypeOK

LEMMA ClusterNext ==
  Cluster!ClusterInvariant /\ [Cluster!Next]_(Cluster!vars) => Cluster!ClusterInvariant'
  <1>1. ASSUME Cluster!ClusterInvariant, Cluster!ReadFails \/ Cluster!Finish \/ Cluster!Return
        PROVE  Cluster!ClusterInvariant'
    BY <1>1, ClusterShapes DEF Cluster!ReadFails, Cluster!Finish, Cluster!Return,
       Cluster!ClusterInvariant, Cluster!TypeOK
  <1>2. Cluster!ClusterInvariant /\ UNCHANGED Cluster!vars => Cluster!ClusterInvariant'
    BY DEF Cluster!vars, Cluster!ClusterInvariant, Cluster!TypeOK
  <1>3. QED
    BY <1>1, <1>2, ClusterBegin, ClusterRead, ClusterChange DEF Cluster!Next

\* What is put together from what is known.
LEMMA ClusterAnswers ==
  ASSUME Cluster!ClusterInvariant, Cluster!Finish
  PROVE  Cluster!WitnessIsTrue' /\ Cluster!CoreGroupIsRight'
  <1>1. PICK core \in Cluster!CoreGroups(query) :
          /\ answer'.query = query /\ answer'.core = core
          /\ answer'.owner = IF core = Null THEN Null ELSE query.groups[core]
          /\ answer'.health = Cluster!WitnessHealth(query)
          /\ answer'.inUse = Cluster!WitnessInUse(query)
    BY DEF Cluster!Finish
  <1>2. /\ host' = host /\ query.pc = "result" /\ Cluster!Knows(host, query)
        /\ Cluster!IsHost(host) /\ query \in Cluster!QueryType
    BY DEF Cluster!Finish, Cluster!ClusterInvariant, Cluster!TypeOK
  <1>3. Cluster!WitnessIsTrue'
    <2>1. host.state \in query.states /\ host.state \in {"Online", "Offline", "Failed"}
      BY <1>2 DEF Cluster!Knows, Cluster!IsHost, Cluster!States
    <2>2. query.witnessState = IF query.witnessRead THEN host.state ELSE ""
      BY <1>2 DEF Cluster!Knows
    <2>3. ~Cluster!WitnessHealth(query) => query.states # {"Online"}
      BY <2>1, <2>2 DEF Cluster!WitnessHealth
    <2>4. ASSUME "Online" \notin query.states, query.witnessKept
          PROVE  ~Cluster!WitnessHealth(query) /\ ~Cluster!WitnessInUse(query)
      <3>1. query.quorum.witness = host.witness /\ host.witness # "None"
        BY <1>2, <2>4 DEF Cluster!Knows
      <3>2. Cluster!IsFound(query, host.witness)
        BY <3>1 DEF Cluster!IsFound
      <3>3. query.witnessRead
        BY <1>2, <2>4, <3>2 DEF Cluster!Knows
      <3>4. query.witnessState \notin {"", "Online"}
        BY <2>1, <2>2, <2>4, <3>3
      <3>5. QED
        BY <3>3, <3>4 DEF Cluster!WitnessHealth, Cluster!WitnessInUse, Cluster!WitnessPresent
    <2>5. QED
      BY <1>1, <2>3, <2>4 DEF Cluster!WitnessIsTrue
  <1>4. Cluster!CoreGroupIsRight'
    <2>1. ASSUME Cluster!TypedCluster \subseteq {CoreGroup}
          PROVE  \/ core = CoreGroup
                 \/ core = Null /\ Cluster!TypedCluster = {} /\ ~host.named /\ ~query.nameRead
      BY <1>1, <2>1 DEF Cluster!CoreGroups
    <2>2. query.groups[CoreGroup] \in query.owners
      BY <1>2 DEF Cluster!Knows
    <2>3. CoreGroup # Null
      BY ClusterAssumption DEF Cluster!CoreIsAGroup
    <2>4. Cluster!TypedCluster' = Cluster!TypedCluster
      BY <1>2 DEF Cluster!TypedCluster
    <2>5. QED
      BY <1>1, <1>2, <2>1, <2>2, <2>3, <2>4 DEF Cluster!CoreGroupIsRight
  <1>5. QED
    BY <1>3, <1>4

ClusterPromise ==
  Cluster!ClusterInvariant /\ Cluster!WitnessIsTrue /\ Cluster!CoreGroupIsRight

LEMMA ClusterPromised == ClusterPromise /\ [Cluster!Next]_(Cluster!vars) => ClusterPromise'
  <1> SUFFICES ASSUME ClusterPromise, [Cluster!Next]_(Cluster!vars)
               PROVE  Cluster!WitnessIsTrue' /\ Cluster!CoreGroupIsRight'
    BY ClusterNext DEF ClusterPromise
  <1>1. CASE Cluster!Finish
    BY <1>1, ClusterAnswers DEF ClusterPromise
  <1>2. CASE answer' = Cluster!NoAnswer \/ answer' = [Cluster!NoAnswer EXCEPT !.kind = "error"]
    BY <1>2 DEF Cluster!NoAnswer, Cluster!WitnessIsTrue, Cluster!CoreGroupIsRight
  <1>3. CASE UNCHANGED <<host, answer>>
    BY <1>3 DEF ClusterPromise, Cluster!WitnessIsTrue, Cluster!CoreGroupIsRight, Cluster!TypedCluster
  <1>4. CASE Cluster!Change
    BY <1>2, <1>4 DEF Cluster!Change, ClusterPromise, Cluster!ClusterInvariant, Cluster!TypeOK
  <1>5. QED
    BY <1>1, <1>2, <1>3, <1>4 DEF Cluster!Next, Cluster!vars, Cluster!Begin, Cluster!ReadQuorum,
       Cluster!ReadNodes, Cluster!ReadGroups, Cluster!ReadResources, Cluster!ReadFails, Cluster!Return

LEMMA ClusterPromises == PluginSpec => [](plugin = "cluster" => ClusterPromise)
  <1>1. PluginInit => (plugin = "cluster" => ClusterPromise)
    <2>1. Cluster!Init => Cluster!WitnessIsTrue /\ Cluster!CoreGroupIsRight
      BY DEF Cluster!Init, Cluster!NoAnswer, Cluster!WitnessIsTrue, Cluster!CoreGroupIsRight
    <2>2. QED
      BY <2>1, PluginStart, ClusterInit DEF ClusterPromise
  <1>2. (plugin = "cluster" => ClusterPromise) /\ [PluginNext]_<<plugin, vars>>
          => (plugin = "cluster" => ClusterPromise)'
    BY PluginStep, ClusterPromised
  <1>3. QED
    BY <1>1, <1>2, PTL DEF PluginSpec

\* A witness that is not online is shown as failed, unless it could not be read; and one
\* that is shown as failed was not online all along (161, 395-409).
THEOREM WitnessesAreTrue == PluginSpec => []WitnessIsTrue
  <1>1. (plugin = "cluster" => ClusterPromise) => WitnessIsTrue
    BY DEF ClusterPromise, WitnessIsTrue
  <1>2. QED
    BY <1>1, ClusterPromises, PTL

\* The group that is taken for the core group is it, with a node it was on at some moment,
\* unless another group's type contains the word that is looked for; none is taken only if
\* the group is renamed, its type is not to be had, and its name was not read (179-205).
THEOREM CoreGroupsAreRight == PluginSpec => []CoreGroupIsRight
  <1>1. (plugin = "cluster" => ClusterPromise) => CoreGroupIsRight
    BY DEF ClusterPromise, CoreGroupIsRight
  <1>2. QED
    BY <1>1, ClusterPromises, PTL

-----------------------------------------------------------------------------
\* The Exchange server.

\* A component's LET and Cardinality are its instance's: here they are the same.
LEMMA ExchangeCardinality == \A S : Exchange!Cardinality(S) = Cardinality(S)
  BY DEF Exchange!Cardinality, Cardinality

LEMMA TheParts ==
  /\ DOMAIN Exchange!Parts = 1 .. 12 /\ Len(Exchange!Parts) = 12
  /\ Exchange!Parts[2] = "MailboxServer" /\ Exchange!Parts[4] = "Queues"
  /\ \A i \in 1 .. 12 : Exchange!Parts[i] = "ReplicationHealth" => i = 10
  /\ \A i \in 1 .. 12 : Exchange!Parts[i] = "MailboxServer" => i = 2
  /\ \A i \in 1 .. 12 : Exchange!Parts[i] = "Queues" => i = 4
  /\ \A i \in 1 .. 12 : Exchange!Parts[i] \in Exchange!PartNames
  BY DEF Exchange!Parts, Exchange!PartNames

\* The worst row tells whether any is unhealthy.
LEMMA WorstRow ==
  ASSUME NEW rows \in Exchange!States("HealthSets")
  PROVE  Exchange!HealthOf(rows) = 0 <=> \E i \in DOMAIN rows : rows[i] = "Unhealthy"
  <1> DEFINE R == {Exchange!Raw(rows[i]) : i \in DOMAIN rows}
  <1>1. \A i \in DOMAIN rows : rows[i] \in Exchange!Alerts
    BY DEF Exchange!States, Exchange!Alerts
  <1>2. DOMAIN rows # {}
    BY DEF Exchange!States
  <1>3. \A a \in Exchange!Alerts : Exchange!Raw(a) \in {0, 1, 5} /\ (Exchange!Raw(a) = 0 <=> a = "Unhealthy")
    BY DEF Exchange!Alerts, Exchange!Raw
  <1>4. R # {} /\ R \subseteq {0, 1, 5}
    BY <1>1, <1>2, <1>3
  <1>5. 0 \in R <=> \E i \in DOMAIN rows : rows[i] = "Unhealthy"
    BY <1>1, <1>3
  <1>6. Exchange!HealthOf(rows) = CHOOSE x \in R : \A y \in R : x <= y
    BY DEF Exchange!HealthOf, Exchange!Min
  <1> HIDE DEF R
  <1>7. \E x \in R : \A y \in R : x <= y
    <2>1. CASE 0 \in R
      BY <1>4, <2>1
    <2>2. CASE 0 \notin R /\ 1 \in R
      BY <1>4, <2>2
    <2>3. CASE 0 \notin R /\ 1 \notin R
      <3>1. 5 \in R /\ \A y \in R : y = 5
        BY <1>4, <2>3
      <3>2. QED
        BY <3>1
    <2>4. QED
      BY <2>1, <2>2, <2>3
  <1>8. Exchange!HealthOf(rows) \in R /\ \A y \in R : Exchange!HealthOf(rows) <= y
    BY <1>6, <1>7
  <1>9. Exchange!HealthOf(rows) = 0 <=> 0 \in R
    <2>1. PICK n \in R : n = Exchange!HealthOf(rows)
      BY <1>8
    <2>2. n \in {0, 1, 5} /\ (0 \in R => n <= 0)
      BY <1>4, <1>8, <2>1
    <2>3. QED
      BY <2>1, <2>2
  <1>10. QED
    BY <1>5, <1>9

\* Whether a part is in trouble, said of its state.
LEMMA TroubleOfPart ==
  ASSUME NEW h, NEW part \in Exchange!PartNames \ {"ReplicationHealth"}
  PROVE  LET s == h.parts[part] IN
         part \in Exchange!InTrouble(h) <=>
           CASE part = "Services" -> s = "stopped"
             [] part = "Certificates" -> s = 0
             [] part = "DatabaseCopies" -> s = "Failed"
             [] part = "Components" -> s \ {"ForwardSyncDaemon"} # {}
             [] part = "HealthSets" -> \E i \in DOMAIN s : s[i] = "Unhealthy"
             [] part = "Vdirs" -> s # "200"
             [] part = "BackPressure" -> s \in {1, 2}
             [] OTHER -> FALSE
  BY DEF Exchange!InTrouble

\* A part that was read shows what trouble it is in, and no other.
LEMMA ShownTells ==
  ASSUME NEW h, Exchange!IsHost(h), NEW part \in Exchange!PartNames \ {"Queues", "ReplicationHealth"}
  PROVE  part \in Exchange!InTrouble(h)
           <=> Exchange!Alarms(part, Exchange!Shown(part, h.parts[part]))
  <1> DEFINE s == h.parts[part]
  <1>1. s \in Exchange!States(part)
    BY DEF Exchange!IsHost
  <1>2. CASE part \notin {"Services", "Certificates", "DatabaseCopies", "Components", "HealthSets",
                          "Vdirs", "BackPressure"}
    BY <1>2, TroubleOfPart DEF Exchange!Alarms, Exchange!Shown
  <1>3. CASE part \in {"Services", "DatabaseCopies", "Vdirs"}
    BY <1>1, <1>3, TroubleOfPart DEF Exchange!Alarms, Exchange!Shown, Exchange!States
  <1>4. CASE part \in {"Certificates", "BackPressure"}
    BY <1>4, TroubleOfPart DEF Exchange!Alarms, Exchange!Shown
  <1>5. CASE part = "Components"
    <2>1. s \in {{}, {"ForwardSyncDaemon"}, {"HubTransport"}, {"ServerWideOffline", "Other"}}
      BY <1>1, <1>5 DEF Exchange!States
    <2>2. IsFiniteSet(s \ {"ForwardSyncDaemon"})
      <3>1. s \ {"ForwardSyncDaemon"} \in {{}, {"HubTransport"}, {"ServerWideOffline"} \cup {"Other"}}
        BY <2>1
      <3>2. IsFiniteSet({"HubTransport"}) /\ IsFiniteSet({"ServerWideOffline"} \cup {"Other"})
        BY FS_AddElement, FS_Singleton
      <3>3. QED
        BY <3>1, <3>2, FS_EmptySet
    <2>3. Exchange!Shown(part, s) = Cardinality(s \ {"ForwardSyncDaemon"})
      BY <1>5, ExchangeCardinality DEF Exchange!Shown
    <2>4. Exchange!Alarms(part, Exchange!Shown(part, s)) <=> Exchange!Shown(part, s) # 0
      BY <1>5 DEF Exchange!Alarms
    <2>5. part \in Exchange!InTrouble(h) <=> s \ {"ForwardSyncDaemon"} # {}
      BY <1>5, TroubleOfPart
    <2>6. QED
      BY <2>2, <2>3, <2>4, <2>5, FS_EmptySet
  <1>6. CASE part = "HealthSets"
    <2>1. Exchange!HealthOf(s) = 0 <=> \E i \in DOMAIN s : s[i] = "Unhealthy"
      BY <1>1, <1>6, WorstRow
    <2>2. Exchange!Shown(part, s) = IF Exchange!HealthOf(s) = 0 THEN 1 ELSE 0
      BY <1>6 DEF Exchange!Shown
    <2>3. Exchange!Alarms(part, Exchange!Shown(part, s)) <=> Exchange!Shown(part, s) # 0
      BY <1>6 DEF Exchange!Alarms
    <2>4. part \in Exchange!InTrouble(h) <=> \E i \in DOMAIN s : s[i] = "Unhealthy"
      BY <1>6, TroubleOfPart
    <2>5. QED
      BY <2>1, <2>2, <2>3, <2>4
  <1>7. QED
    BY <1>2, <1>3, <1>4, <1>5, <1>6

\* The defaults of a part that was not read alarm nobody.
LEMMA DefaultIsQuiet == \A part : ~Exchange!Alarms(part, Exchange!Default(part))
  <1>1. Null # 0 /\ Null # 1 /\ Null # 2
    BY ExchangeAssumption DEF Exchange!NullIsNoNumber
  <1>2. QED
    BY <1>1 DEF Exchange!Alarms, Exchange!Default

LEMMA IdleExchange ==
  /\ Exchange!Idle.pc = "idle" /\ Exchange!Idle.next = 1 /\ Exchange!Idle.shown = <<>>
  /\ DOMAIN Exchange!Idle = {"pc", "next", "shown", "dag", "maintenance", "errors", "depths",
                             "listed", "queues", "steady", "ever"}
  BY DEF Exchange!Idle

LEMMA HealthyHost == Exchange!IsHost(Exchange!NoHost)
  <1>1. Exchange!NoHost.parts = Exchange!Healthy
        /\ DOMAIN Exchange!NoHost = {"parts", "queues", "changes"}
    BY DEF Exchange!NoHost
  <1>2. DOMAIN Exchange!Healthy = Exchange!PartNames
    BY DEF Exchange!Healthy
  <1>3. \A part \in Exchange!PartNames : Exchange!Healthy[part] \in Exchange!States(part)
    <2>1. <<"Healthy">> \in {<<"Healthy">>}
      OBVIOUS
    <2>2. QED
      BY DEF Exchange!Healthy, Exchange!States
  <1>4. QED
    BY <1>1, <1>2, <1>3 DEF Exchange!IsHost

LEMMA SomeHost == \A h \in Exchange!Hosts : Exchange!IsHost(h)
  <1> SUFFICES ASSUME NEW h \in Exchange!Hosts PROVE Exchange!IsHost(h)
    OBVIOUS
  <1>1. CASE h \in UNION {{[Exchange!NoHost EXCEPT !.parts[part] = s] :
                             s \in Exchange!States(part)} : part \in Exchange!PartNames}
    <2>1. PICK part \in Exchange!PartNames :
            h \in {[Exchange!NoHost EXCEPT !.parts[part] = s] : s \in Exchange!States(part)}
      BY <1>1
    <2>2. PICK s \in Exchange!States(part) : h = [Exchange!NoHost EXCEPT !.parts[part] = s]
      BY <2>1
    <2>3. QED
      BY <2>2, HealthyHost DEF Exchange!IsHost
  <1>2. CASE h \in {[Exchange!NoHost EXCEPT !.queues = f, !.changes = MaxPartChanges] :
                      f \in [Queues -> Exchange!Queue]}
    BY <1>2, HealthyHost DEF Exchange!IsHost
  <1>3. QED
    BY <1>1, <1>2 DEF Exchange!Hosts

LEMMA SeqOfItsElements ==
  ASSUME NEW S, NEW s \in Seq(S) PROVE s \in Seq({s[i] : i \in DOMAIN s})
  <1>1. /\ s = [i \in 1 .. Len(s) |-> s[i]] /\ Len(s) \in Nat /\ DOMAIN s = 1 .. Len(s)
    OBVIOUS
  <1>2. QED
    BY <1>1

\* The next part is shown: what is said of the parts behind stays true.
LEMMA PartShown ==
  ASSUME NEW h, NEW q, NEW r, NEW n, Exchange!Knows(h, q), q.next <= Len(Exchange!Parts),
         DOMAIN r = DOMAIN q, r.next = q.next + 1, r.shown = Append(q.shown, n),
         r.steady = q.steady, r.ever = q.ever, q.errors \subseteq r.errors,
         Exchange!Parts[q.next] # "MailboxServer" => r.dag = q.dag,
         Exchange!Parts[q.next] = "MailboxServer" /\ ~r.dag =>
           "MailboxServer" \in r.errors \/ "ReplicationHealth" \notin r.steady,
         Exchange!Tells(r, Exchange!Parts[q.next], n)
  PROVE  Exchange!Knows(h, r)
  <1>2. PICK S : q.shown \in Seq(S)
    BY DEF Exchange!Knows
  <1>1. q.next \in 1 .. 12 /\ Len(q.shown) = q.next - 1
    BY TheParts DEF Exchange!Knows
  <1>3. /\ r.shown \in Seq(S \cup {n}) /\ Len(r.shown) = q.next
        /\ DOMAIN r.shown = 1 .. q.next /\ DOMAIN q.shown = 1 .. q.next - 1
        /\ r.shown[q.next] = n
        /\ \A i \in 1 .. q.next - 1 : r.shown[i] = q.shown[i]
    <2> DEFINE T == S \cup {n}
               s == q.shown
               t == r.shown
    <2>1. s \in Seq(T) /\ n \in T
      BY <1>2
    <2>2. t = Append(s, n)
      OBVIOUS
    <2>3. Len(s) = q.next - 1 /\ q.next \in Nat
      BY <1>1
    <2> HIDE DEF T, s, t
    <2>4. /\ t \in Seq(T) /\ Len(t) = Len(s) + 1 /\ t[Len(s) + 1] = n
          /\ \A i \in 1 .. Len(s) : t[i] = s[i]
      BY ONLY <2>1, <2>2
    <2>5. DOMAIN t = 1 .. Len(t) /\ DOMAIN s = 1 .. Len(s)
      BY ONLY <2>1, <2>4
    <2>6. /\ t \in Seq(T) /\ Len(t) = q.next /\ DOMAIN t = 1 .. q.next
          /\ DOMAIN s = 1 .. q.next - 1 /\ t[q.next] = n
          /\ \A i \in 1 .. q.next - 1 : t[i] = s[i]
      BY ONLY <2>3, <2>4, <2>5
    <2>7. QED
      BY <2>6 DEF T, s, t
  <1>4. ASSUME NEW i \in 1 .. q.next - 1 PROVE Exchange!Tells(r, Exchange!Parts[i], r.shown[i])
    <2>1. Exchange!Tells(q, Exchange!Parts[i], q.shown[i])
      BY <1>3 DEF Exchange!Knows
    <2>2. Exchange!Parts[i] = "ReplicationHealth" => r.dag = q.dag
      <3>1. Exchange!Parts[i] = "ReplicationHealth" => q.next # 2
        BY <1>1, TheParts
      <3>2. QED
        BY <1>1, <3>1, TheParts
    <2>3. QED
      BY <1>3, <2>1, <2>2 DEF Exchange!Tells
  <1>5. "MailboxServer" \in {Exchange!Parts[i] : i \in 1 .. q.next} /\ ~r.dag =>
          "MailboxServer" \in r.errors \/ "ReplicationHealth" \notin r.steady
    <2>1. CASE Exchange!Parts[q.next] = "MailboxServer"
      BY <2>1
    <2>2. CASE Exchange!Parts[q.next] # "MailboxServer"
      <3>1. "MailboxServer" \in {Exchange!Parts[i] : i \in 1 .. q.next}
              => "MailboxServer" \in {Exchange!Parts[i] : i \in 1 .. q.next - 1}
        BY <1>1, <2>2
      <3>2. QED
        BY <1>3, <2>2, <3>1 DEF Exchange!Knows
    <2>3. QED
      BY <2>1, <2>2
  <1>6. \A i \in DOMAIN r.shown : Exchange!Tells(r, Exchange!Parts[i], r.shown[i])
    BY <1>1, <1>3, <1>4
  <1>7. r.next \in 1 .. Len(Exchange!Parts) + 1 /\ Len(r.shown) = r.next - 1
    <2>1. PICK k \in 1 .. 12 : k = q.next
      BY <1>1
    <2>2. k + 1 \in 1 .. 13 /\ (k + 1) - 1 = k
      OBVIOUS
    <2>3. r.next = k + 1 /\ Len(r.shown) = k
      BY <1>3, <2>1
    <2>4. 1 .. Len(Exchange!Parts) + 1 = 1 .. 13
      BY TheParts
    <2>5. QED
      BY <2>2, <2>3, <2>4
  <1>8. /\ DOMAIN r = DOMAIN Exchange!Idle /\ r.shown \in Seq({r.shown[i] : i \in DOMAIN r.shown})
        /\ r.steady \subseteq Exchange!InTrouble(h) /\ Exchange!InTrouble(h) \subseteq r.ever
    <2>1. r.shown \in Seq({r.shown[i] : i \in DOMAIN r.shown})
      <3> DEFINE s == r.shown
      <3>1. s \in Seq(S \cup {n})
        BY <1>3
      <3> HIDE DEF s
      <3>2. s \in Seq({s[i] : i \in DOMAIN s})
        BY ONLY <3>1, SeqOfItsElements
      <3>3. QED
        BY <3>2 DEF s
    <2>2. DOMAIN q = DOMAIN Exchange!Idle /\ q.steady \subseteq Exchange!InTrouble(h)
      BY DEF Exchange!Knows
    <2>3. Exchange!InTrouble(h) \subseteq q.ever
      BY DEF Exchange!Knows
    <2>4. QED
      BY <2>1, <2>2, <2>3
  <1>9. "MailboxServer" \in {Exchange!Parts[i] : i \in DOMAIN r.shown} /\ ~r.dag =>
          "MailboxServer" \in r.errors \/ "ReplicationHealth" \notin r.steady
    BY <1>3, <1>5
  <1>10. QED
    BY <1>6, <1>7, <1>8, <1>9 DEF Exchange!Knows

\* A part is read.
LEMMA ExchangeReadPart ==
  ASSUME Exchange!PartsInvariant, Exchange!ReadPart \/ Exchange!ReadReplicationHealth
  PROVE  Exchange!PartsInvariant'
  <1>1. /\ query.pc = "parts" /\ query.next <= Len(Exchange!Parts) /\ host' = host
        /\ answer = Exchange!NoAnswer /\ answer' = answer /\ Exchange!IsHost(host) /\ Exchange!Knows(host, query)
    BY DEF Exchange!ReadPart, Exchange!ReadReplicationHealth, Exchange!PartsInvariant
  <1>2. query.next \in 1 .. 12 /\ Exchange!Part \in Exchange!PartNames
        /\ Exchange!Part = Exchange!Parts[query.next]
    BY <1>1, TheParts DEF Exchange!Knows, Exchange!Part
  <1>3. DOMAIN query = DOMAIN Exchange!Idle
    BY <1>1 DEF Exchange!Knows
  <1> DEFINE s == host.parts[Exchange!Part]
  <1>4. CASE Exchange!ReadPart
    <2>1. /\ Exchange!Part \notin {"Queues", "ReplicationHealth"}
          /\ query' = [Exchange!Advance(Exchange!Show(query, Exchange!Shown(Exchange!Part, s))) EXCEPT
               !.dag = IF Exchange!Part = "MailboxServer" THEN s = "dag" ELSE @,
               !.maintenance = IF Exchange!Part = "Components"
                               THEN s \cap {"ServerWideOffline", "HubTransport"} # {} ELSE @]
      BY <1>4 DEF Exchange!ReadPart
    <2>2. /\ DOMAIN query' = DOMAIN query /\ query'.next = query.next + 1
          /\ query'.shown = Append(query.shown, Exchange!Shown(Exchange!Part, s))
          /\ query'.steady = query.steady /\ query'.ever = query.ever
          /\ query'.errors = query.errors /\ query'.pc = query.pc
          /\ query'.dag = IF Exchange!Part = "MailboxServer" THEN s = "dag" ELSE query.dag
      BY <1>3, <2>1, IdleExchange DEF Exchange!Advance, Exchange!Show
    <2>3. Exchange!Part \in Exchange!InTrouble(host)
            <=> Exchange!Alarms(Exchange!Part, Exchange!Shown(Exchange!Part, s))
      BY <1>1, <1>2, <2>1, ShownTells
    <2>4. Exchange!Tells(query', Exchange!Part, Exchange!Shown(Exchange!Part, s))
      BY <1>1, <2>2, <2>3 DEF Exchange!Tells, Exchange!Knows
    <2>5. Exchange!Part = "MailboxServer" /\ ~query'.dag => "ReplicationHealth" \notin query'.steady
      <3>1. "ReplicationHealth" \in Exchange!InTrouble(host) => host.parts["MailboxServer"] = "dag"
        BY DEF Exchange!InTrouble
      <3>2. QED
        BY <1>1, <2>2, <3>1 DEF Exchange!Knows
    <2>6. Exchange!Knows(host, query')
      BY <1>1, <1>2, <2>2, <2>4, <2>5, PartShown
    <2>7. QED
      BY <1>1, <2>2, <2>6 DEF Exchange!PartsInvariant
  <1>5. CASE Exchange!ReadReplicationHealth
    <2> DEFINE n == IF query.dag THEN Exchange!Shown(Exchange!Part, s)
                    ELSE Exchange!Default(Exchange!Part)
    <2>1. /\ Exchange!Part = "ReplicationHealth"
          /\ query' = Exchange!Advance(Exchange!Show(query, n))
      BY <1>5 DEF Exchange!ReadReplicationHealth
    <2> HIDE DEF n
    <2>2. /\ DOMAIN query' = DOMAIN query /\ query'.next = query.next + 1
          /\ query'.shown = Append(query.shown, n) /\ query'.dag = query.dag
          /\ query'.steady = query.steady /\ query'.ever = query.ever
          /\ query'.errors = query.errors /\ query'.pc = query.pc
      BY <1>3, <2>1, IdleExchange DEF Exchange!Advance, Exchange!Show
    <2>3. CASE query.dag
      <3>1. n = IF s = "Failed" THEN 1 ELSE 0
        BY <2>1, <2>3 DEF n, Exchange!Shown
      <3>2. "ReplicationHealth" \in Exchange!InTrouble(host) => s = "Failed"
        BY <2>1 DEF Exchange!InTrouble
      <3>3. Exchange!Tells(query', Exchange!Part, n)
        BY <1>1, <2>1, <2>2, <2>3, <3>1, <3>2 DEF Exchange!Tells, Exchange!Knows, Exchange!Alarms
      <3>4. QED
        BY <1>1, <1>2, <2>1, <2>2, <3>3, PartShown DEF Exchange!PartsInvariant
    <2>4. CASE ~query.dag
      <3>1. ~Exchange!Alarms(Exchange!Part, n)
        BY <2>4, DefaultIsQuiet DEF n
      <3>2. "MailboxServer" \in {Exchange!Parts[i] : i \in DOMAIN query.shown}
        <4>1. query.next = 10
          BY <1>2, <2>1, TheParts
        <4>2. PICK S : query.shown \in Seq(S)
          BY <1>1 DEF Exchange!Knows
        <4>3. Len(query.shown) = 9
          BY <1>1, <4>1 DEF Exchange!Knows
        <4>4. 2 \in DOMAIN query.shown
          BY <4>2, <4>3
        <4>5. QED
          BY <4>4, TheParts
      <3>3. "MailboxServer" \in query.errors \/ "ReplicationHealth" \notin query.steady
        BY <1>1, <2>4, <3>2 DEF Exchange!Knows
      <3>4. Exchange!Tells(query', Exchange!Part, n)
        BY <2>1, <2>2, <3>1, <3>3 DEF Exchange!Tells
      <3>5. QED
        BY <1>1, <1>2, <2>1, <2>2, <3>4, PartShown DEF Exchange!PartsInvariant
    <2>5. QED
      BY <2>3, <2>4
  <1>6. QED
    BY <1>4, <1>5

\* The queues are read, or a part throws: nothing alarming is shown.
LEMMA ExchangeQuietPart ==
  ASSUME Exchange!PartsInvariant, Exchange!ReadQueues \/ Exchange!PartFails
  PROVE  Exchange!PartsInvariant'
  <1>1. /\ query.pc = "parts" /\ query.next <= Len(Exchange!Parts) /\ host' = host
        /\ answer = Exchange!NoAnswer /\ answer' = answer /\ Exchange!IsHost(host) /\ Exchange!Knows(host, query)
    BY DEF Exchange!ReadQueues, Exchange!PartFails, Exchange!PartsInvariant
  <1>2. query.next \in 1 .. 12 /\ Exchange!Part = Exchange!Parts[query.next]
    BY <1>1, TheParts DEF Exchange!Knows, Exchange!Part
  <1>3. DOMAIN query = DOMAIN Exchange!Idle
    BY <1>1 DEF Exchange!Knows
  <1>4. PICK n : \E failed \in BOOLEAN :
          /\ DOMAIN query' = DOMAIN query /\ query'.next = query.next + 1
          /\ query'.shown = Append(query.shown, n) /\ query'.dag = query.dag
          /\ query'.steady = query.steady /\ query'.ever = query.ever /\ query'.pc = query.pc
          /\ query'.errors = IF failed THEN query.errors \cup {Exchange!Part} ELSE query.errors
          /\ ~Exchange!Alarms(Exchange!Part, n)
          /\ failed \/ Exchange!Part = "Queues"
    <2>1. CASE Exchange!ReadQueues
      <3>1. Exchange!Part = "Queues" /\ ~Exchange!Alarms("Queues", 0)
        BY <2>1 DEF Exchange!ReadQueues, Exchange!Alarms
      <3>2. /\ DOMAIN query' = DOMAIN query /\ query'.next = query.next + 1
            /\ query'.shown = Append(query.shown, 0) /\ query'.dag = query.dag
            /\ query'.steady = query.steady /\ query'.ever = query.ever /\ query'.pc = query.pc
            /\ query'.errors = query.errors
        BY <1>3, <2>1, IdleExchange DEF Exchange!ReadQueues, Exchange!Advance, Exchange!Show
      <3>3. QED
        BY <3>1, <3>2, FALSE \in BOOLEAN
    <2>2. CASE Exchange!PartFails
      <3>1. /\ DOMAIN query' = DOMAIN query /\ query'.next = query.next + 1
            /\ query'.shown = Append(query.shown, Exchange!Default(Exchange!Part))
            /\ query'.dag = query.dag
            /\ query'.steady = query.steady /\ query'.ever = query.ever /\ query'.pc = query.pc
            /\ query'.errors = query.errors \cup {Exchange!Part}
        BY <1>3, <2>2, IdleExchange DEF Exchange!PartFails, Exchange!Advance, Exchange!Show
      <3>2. QED
        BY <3>1, DefaultIsQuiet, TRUE \in BOOLEAN
    <2>3. QED
      BY <2>1, <2>2
  <1>5. PICK failed \in BOOLEAN :
          /\ query'.errors = IF failed THEN query.errors \cup {Exchange!Part} ELSE query.errors
          /\ failed \/ Exchange!Part = "Queues"
    BY <1>4
  <1>6. "Queues" \notin query.steady
    <2>1. "Queues" \notin Exchange!InTrouble(host)
      BY DEF Exchange!InTrouble
    <2>2. QED
      BY <1>1, <2>1 DEF Exchange!Knows
  <1>7. Exchange!Tells(query', Exchange!Part, n)
    BY <1>4, <1>5, <1>6 DEF Exchange!Tells
  <1>8. Exchange!Knows(host, query')
    <2>1. Exchange!Part = "MailboxServer" => "MailboxServer" \in query'.errors
      BY <1>5
    <2>2. query.errors \subseteq query'.errors
      BY <1>5
    <2>3. QED
      BY <1>1, <1>2, <1>4, <1>7, <2>1, <2>2, PartShown
  <1>9. QED
    BY <1>1, <1>4, <1>8 DEF Exchange!PartsInvariant

\* The request begins, or a part changes.
LEMMA ExchangeHost ==
  ASSUME Exchange!PartsInvariant,
         Exchange!Begin \/ \E part \in Exchange!PartNames : Exchange!Change(part)
  PROVE  Exchange!PartsInvariant'
  <1>1. CASE Exchange!Begin
    <2>1. /\ Exchange!IsHost(host') /\ answer = Exchange!NoAnswer /\ answer' = answer
          /\ query' = [Exchange!Idle EXCEPT !.pc = "parts", !.steady = Exchange!InTrouble(host'),
                                            !.ever = Exchange!InTrouble(host')]
      BY <1>1, SomeHost DEF Exchange!Begin
    <2>2. /\ DOMAIN query' = DOMAIN Exchange!Idle /\ query'.next = 1 /\ query'.shown = <<>>
          /\ query'.steady = Exchange!InTrouble(host') /\ query'.ever = Exchange!InTrouble(host')
      BY <2>1, IdleExchange
    <2>3. <<>> \in Seq({<<>>[i] : i \in DOMAIN <<>>}) /\ Len(<<>>) = 0 /\ DOMAIN <<>> = {}
      OBVIOUS
    <2>4. Exchange!Knows(host', query')
      BY <2>2, <2>3, TheParts DEF Exchange!Knows
    <2>5. QED
      BY <2>1, <2>4 DEF Exchange!PartsInvariant
  <1>2. CASE \E part \in Exchange!PartNames : Exchange!Change(part)
    <2>1. PICK part \in Exchange!PartNames : Exchange!Change(part)
      BY <1>2
    <2>2. /\ query.pc = "parts" /\ answer = Exchange!NoAnswer /\ answer' = answer
          /\ Exchange!IsHost(host) /\ Exchange!Knows(host, query)
      BY <2>1 DEF Exchange!Change, Exchange!PartsInvariant
    <2>3. PICK s \in Exchange!States(part) :
            host' = [host EXCEPT !.parts[part] = s, !.changes = @ + 1]
      BY <2>1 DEF Exchange!Change
    <2>4. Exchange!IsHost(host')
      BY <2>2, <2>3 DEF Exchange!IsHost
    <2>5. query' = [query EXCEPT !.steady = @ \cap Exchange!InTrouble(host'),
                                 !.ever = @ \cup Exchange!InTrouble(host')]
      BY <2>1 DEF Exchange!Change
    <2>6. /\ DOMAIN query' = DOMAIN query /\ query'.next = query.next /\ query'.shown = query.shown
          /\ query'.dag = query.dag /\ query'.errors = query.errors
          /\ query'.steady = query.steady \cap Exchange!InTrouble(host')
          /\ query'.ever = query.ever \cup Exchange!InTrouble(host')
      BY <2>2, <2>5, IdleExchange DEF Exchange!Knows
    <2>7. ASSUME NEW i \in DOMAIN query.shown
          PROVE  Exchange!Tells(query', Exchange!Parts[i], query'.shown[i])
      BY <2>2, <2>6, <2>7 DEF Exchange!Tells, Exchange!Knows
    <2>8. Exchange!Knows(host', query')
      BY <2>2, <2>6, <2>7 DEF Exchange!Knows
    <2>9. QED
      BY <2>2, <2>4, <2>8 DEF Exchange!PartsInvariant
  <1>3. QED
    BY <1>1, <1>2

LEMMA ExchangeNext ==
  Exchange!PartsInvariant /\ [Exchange!Next]_(Exchange!vars) => Exchange!PartsInvariant'
  <1>1. ASSUME Exchange!PartsInvariant, Exchange!ShellFails \/ Exchange!Finish \/ Exchange!Return
        PROVE  Exchange!PartsInvariant'
    BY <1>1, HealthyHost, IdleExchange
       DEF Exchange!ShellFails, Exchange!Finish, Exchange!Return, Exchange!PartsInvariant
  <1>2. Exchange!PartsInvariant /\ UNCHANGED Exchange!vars => Exchange!PartsInvariant'
    BY DEF Exchange!vars, Exchange!PartsInvariant
  <1>3. QED
    BY <1>1, <1>2, ExchangeReadPart, ExchangeQuietPart, ExchangeHost DEF Exchange!Next

\* When the last part is shown, every part is.
LEMMA ExchangeAnswers ==
  Exchange!PartsInvariant /\ Exchange!Finish => Exchange!TroubleIsShown'
  <1> SUFFICES ASSUME Exchange!PartsInvariant, Exchange!Finish PROVE Exchange!TroubleIsShown'
    OBVIOUS
  <1>1. answer'.query = query /\ Exchange!Knows(host, query) /\ query.next > Len(Exchange!Parts)
    BY DEF Exchange!Finish, Exchange!PartsInvariant
  <1>2. query.next = 13 /\ Len(query.shown) = 12
    <2>1. query.next \in 1 .. 13 /\ query.next > 12 /\ Len(query.shown) = query.next - 1
      BY <1>1, TheParts DEF Exchange!Knows
    <2>2. PICK k \in 1 .. 13 : k = query.next
      BY <2>1
    <2>3. k = 13
      BY <2>1, <2>2
    <2>4. QED
      BY <2>1, <2>2, <2>3
  <1>3. PICK S : query.shown \in Seq(S)
    BY <1>1 DEF Exchange!Knows
  <1>4. DOMAIN query.shown = DOMAIN Exchange!Parts
    BY <1>2, <1>3, TheParts
  <1>5. \A i \in DOMAIN Exchange!Parts :
          Exchange!Tells(answer'.query, Exchange!Parts[i], answer'.query.shown[i])
    BY <1>1, <1>4 DEF Exchange!Knows
  <1>6. QED
    BY <1>5 DEF Exchange!TroubleIsShown, Exchange!Tells

\* The messages of some queues are finitely many, and those of disjoint ones add up.
LEMMA MessagesAddUp ==
  ASSUME NEW queues, Exchange!HasQueues(queues), NEW a, a \subseteq DOMAIN queues,
         NEW b, b \subseteq DOMAIN queues, a \cap b = {}
  PROVE  /\ Exchange!Messages(queues, a) \in Nat
         /\ Exchange!Messages(queues, a \cup b)
              = Exchange!Messages(queues, a) + Exchange!Messages(queues, b)
  <1> DEFINE m(ids) == (UNION {{q} \X (1 .. queues[q].count) : q \in ids})
  <1>1. DOMAIN queues \subseteq Queues /\ \A q \in DOMAIN queues : queues[q].count \in 1 .. 2
    BY DEF Exchange!HasQueues, Exchange!NoQueues, Exchange!Queue
  <1>2. ASSUME NEW ids, ids \subseteq DOMAIN queues PROVE IsFiniteSet(m(ids))
    <2>1. IsFiniteSet(Queues)
      BY ExchangeAssumption DEF Exchange!QueuesAreFinite, Exchange!IsFiniteSet, IsFiniteSet
    <2>2. IsFiniteSet(Queues \X (1 .. 2))
      <3>1. IsFiniteSet(1 .. 2)
        <4>1. 1 .. 2 = {1} \cup {2}
          OBVIOUS
        <4>2. IsFiniteSet({1} \cup {2})
          BY FS_AddElement, FS_Singleton
        <4>3. QED
          BY <4>1, <4>2
      <3>2. QED
        BY <2>1, <3>1, FS_Product
    <2>3. \A q \in ids : {q} \X (1 .. queues[q].count) \subseteq Queues \X (1 .. 2)
      BY <1>1, <1>2
    <2>4. m(ids) \subseteq Queues \X (1 .. 2)
      BY <2>3
    <2>5. QED
      BY <2>2, <2>4, FS_Subset
  <1>3. m(a \cup b) = m(a) \cup m(b)
    OBVIOUS
  <1>4. m(a) \cap m(b) = {}
    OBVIOUS
  <1>5. IsFiniteSet(m(a)) /\ IsFiniteSet(m(b))
    BY <1>2
  <1> HIDE DEF m
  <1>6. Cardinality(m(a)) \in Nat /\ Cardinality(m(b)) \in Nat
    BY <1>5, FS_CardinalityType
  <1>7. Cardinality(m(a) \cup m(b)) = Cardinality(m(a)) + Cardinality(m(b))
    <2>1. Cardinality(m(a) \cup m(b)) = Cardinality(m(a)) + Cardinality(m(b)) - Cardinality({})
      BY <1>4, <1>5, FS_Union
    <2>2. Cardinality({}) = 0
      BY FS_EmptySet
    <2>3. QED
      BY <1>6, <2>1, <2>2
  <1>8. \A ids : Exchange!Messages(queues, ids) = Cardinality(m(ids))
    BY ExchangeCardinality DEF Exchange!Messages, m
  <1>9. /\ Exchange!Messages(queues, a) = Cardinality(m(a))
        /\ Exchange!Messages(queues, b) = Cardinality(m(b))
        /\ Exchange!Messages(queues, a \cup b) = Cardinality(m(a) \cup m(b))
    BY <1>3, <1>8
  <1>10. QED
    BY <1>6, <1>7, <1>9

\* The sums are over disjoint sets of queues, which are all of them.
LEMMA DepthsAddUp ==
  ASSUME NEW queues, Exchange!HasQueues(queues)
  PROVE  LET d == Exchange!Depths(queues) IN
         /\ d.total + d.poison + d.shadow = Exchange!Messages(queues, DOMAIN queues)
         /\ d.submission + d.unreachable <= d.total
  <1> DEFINE all == DOMAIN queues
             shadow == {q \in all : queues[q].shadow}
             poison == {q \in all \ shadow : queues[q].kind = "Poison"}
             rest == all \ (shadow \cup poison)
             submission == {q \in rest : queues[q].kind = "Submission"}
             unreachable == {q \in rest : queues[q].kind = "Unreachable"}
             other == rest \ (submission \cup unreachable)
             M(ids) == Exchange!Messages(queues, ids)
  <1>1. LET d == Exchange!Depths(queues) IN
        /\ d.total = M(rest) /\ d.poison = M(poison) /\ d.shadow = M(shadow)
        /\ d.submission = M(submission) /\ d.unreachable = M(unreachable)
    BY DEF Exchange!Depths
  <1>2. /\ all = rest \cup (poison \cup shadow) /\ rest \cap (poison \cup shadow) = {}
        /\ poison \cap shadow = {}
        /\ rest = (submission \cup unreachable) \cup other
        /\ (submission \cup unreachable) \cap other = {} /\ submission \cap unreachable = {}
    OBVIOUS
  <1>3. /\ rest \subseteq all /\ poison \subseteq all /\ shadow \subseteq all
        /\ submission \subseteq all /\ unreachable \subseteq all /\ other \subseteq all
        /\ submission \cup unreachable \subseteq all /\ poison \cup shadow \subseteq all
    OBVIOUS
  <1> HIDE DEF shadow, poison, rest, submission, unreachable, other
  <1>4. M(all) = M(rest) + M(poison \cup shadow) /\ M(rest) \in Nat
    BY <1>2, <1>3, MessagesAddUp
  <1>5. M(poison \cup shadow) = M(poison) + M(shadow) /\ M(poison) \in Nat
    BY <1>2, <1>3, MessagesAddUp
  <1>6. M(rest) = M(submission \cup unreachable) + M(other)
    BY <1>2, <1>3, MessagesAddUp
  <1>7. M(submission \cup unreachable) = M(submission) + M(unreachable)
    BY <1>2, <1>3, MessagesAddUp
  <1>8. M(shadow) \in Nat /\ M(submission) \in Nat /\ M(unreachable) \in Nat /\ M(other) \in Nat
    <2>1. M(shadow) \in Nat
      BY <1>3, shadow \cap {} = {}, {} \subseteq all, MessagesAddUp
    <2>2. M(submission) \in Nat
      BY <1>3, submission \cap {} = {}, {} \subseteq all, MessagesAddUp
    <2>3. M(unreachable) \in Nat
      BY <1>3, unreachable \cap {} = {}, {} \subseteq all, MessagesAddUp
    <2>4. M(other) \in Nat
      BY <1>3, other \cap {} = {}, {} \subseteq all, MessagesAddUp
    <2>5. QED
      BY <2>1, <2>2, <2>3, <2>4
  <1> HIDE DEF M
  <1>9. M(rest) + M(poison) + M(shadow) = M(all) /\ M(submission) + M(unreachable) <= M(rest)
    BY <1>4, <1>5, <1>6, <1>7, <1>8
  <1>10. M(all) = Exchange!Messages(queues, DOMAIN queues)
    BY DEF M
  <1>11. QED
    BY <1>1, <1>9, <1>10

\* What is left out of the list is no problem, and no longer than the MaxTop largest.
LEMMA ListIsLong ==
  ASSUME NEW queues, Exchange!HasQueues(queues), NEW listed \in Exchange!QueueLists(queues),
         NEW r \in DOMAIN queues \ listed
  PROVE  /\ r \notin Exchange!Kept(queues)
         /\ Exchange!Cardinality({l \in listed : queues[l].count >= queues[r].count}) >= MaxTop
  <1> DEFINE longer == {l \in listed : queues[l].count >= queues[r].count}
  <1>1. listed # DOMAIN queues
    OBVIOUS
  <1>2. PICK top \in Exchange!Top(queues) : listed = Exchange!Kept(queues) \cup top
    BY <1>1 DEF Exchange!QueueLists
  <1>3. /\ top \subseteq DOMAIN queues /\ Cardinality(top) = MaxTop
        /\ \A q \in top : queues[q].count >= queues[r].count
    BY <1>2, ExchangeCardinality DEF Exchange!Top
  <1>4. top \subseteq longer
    BY <1>2, <1>3
  <1>5. IsFiniteSet(longer)
    <2>1. longer \subseteq DOMAIN queues
      BY <1>2, <1>3 DEF Exchange!Kept
    <2>2. DOMAIN queues \subseteq Queues
      BY DEF Exchange!HasQueues, Exchange!NoQueues
    <2>3. IsFiniteSet(Queues)
      BY ExchangeAssumption DEF Exchange!QueuesAreFinite, Exchange!IsFiniteSet, IsFiniteSet
    <2>4. QED
      BY <2>1, <2>2, <2>3, FS_Subset
  <1> HIDE DEF longer
  <1>6. Cardinality(top) <= Cardinality(longer) /\ Cardinality(longer) \in Nat
        /\ Cardinality(top) \in Nat
    BY <1>4, <1>5, FS_Subset, FS_CardinalityType
  <1>7. Exchange!Cardinality(longer) >= MaxTop
    BY <1>3, <1>6, ExchangeCardinality
  <1>8. QED
    BY <1>2, <1>7 DEF longer

\* The queues are read once, and kept as they were; what is read later changes nothing.
LEMMA ExchangeQueues ==
  ASSUME Exchange!PartsInvariant, Exchange!QueuesInvariant, [Exchange!Next]_(Exchange!vars)
  PROVE  Exchange!QueuesInvariant'
  <1>1. CASE Exchange!Begin
    <2>1. Exchange!HasQueues(host'.queues)
      <3>1. CASE host' \in UNION {{[Exchange!NoHost EXCEPT !.parts[part] = s] :
                             s \in Exchange!States(part)} : part \in Exchange!PartNames}
        <4>1. PICK part \in Exchange!PartNames :
            host' \in {[Exchange!NoHost EXCEPT !.parts[part] = s] : s \in Exchange!States(part)}
          BY <3>1
        <4>2. PICK s \in Exchange!States(part) : host' = [Exchange!NoHost EXCEPT !.parts[part] = s]
          BY <4>1
        <4>3. host'.queues = Exchange!NoQueues
          BY <4>2 DEF Exchange!NoHost
        <4>4. QED
          BY <4>3 DEF Exchange!HasQueues
      <3>2. CASE host' \in {[Exchange!NoHost EXCEPT !.queues = f, !.changes = MaxPartChanges] :
                               f \in [Queues -> Exchange!Queue]}
        <4>1. host'.queues \in [Queues -> Exchange!Queue]
          BY <3>2 DEF Exchange!NoHost
        <4>2. QED
          BY <4>1 DEF Exchange!HasQueues
      <3>3. QED
        BY <1>1, <3>1, <3>2 DEF Exchange!Begin, Exchange!Hosts
    <2>2. query'.next = 1
      BY <1>1, IdleExchange DEF Exchange!Begin
    <2>3. ~Exchange!QueuesAreRead(query')
      BY <2>2 DEF Exchange!QueuesAreRead
    <2>4. QED
      BY <2>1, <2>3 DEF Exchange!QueuesInvariant
  <1>2. CASE Exchange!ShellFails \/ Exchange!Finish \/ Exchange!Return
    <2>1. query'.pc # "parts"
      BY <1>2, IdleExchange DEF Exchange!ShellFails, Exchange!Finish, Exchange!Return,
         Exchange!PartsInvariant
    <2>2. QED
      BY <2>1 DEF Exchange!QueuesInvariant
  <1>3. CASE \E part \in Exchange!PartNames : Exchange!Change(part)
    <2>1. PICK part \in Exchange!PartNames : Exchange!Change(part)
      BY <1>3
    <2>2. query.pc = "parts" /\ Exchange!IsHost(host) /\ Exchange!Knows(host, query)
      BY <2>1 DEF Exchange!Change, Exchange!PartsInvariant
    <2>3. host'.queues = host.queues
      BY <2>1, <2>2 DEF Exchange!Change, Exchange!IsHost
    <2>4. query' = [query EXCEPT !.steady = @ \cap Exchange!InTrouble(host'),
                                 !.ever = @ \cup Exchange!InTrouble(host')]
      BY <2>1 DEF Exchange!Change
    <2>5. /\ query'.next = query.next /\ query'.errors = query.errors
          /\ query'.queues = query.queues /\ query'.depths = query.depths
          /\ query'.listed = query.listed
      BY <2>2, <2>4, IdleExchange DEF Exchange!Knows
    <2>6. QED
      BY <2>2, <2>3, <2>5 DEF Exchange!QueuesInvariant, Exchange!QueuesAreRead
  <1>4. CASE Exchange!ReadQueues
    <2>1. query.pc = "parts" /\ Exchange!Knows(host, query) /\ host' = host
      BY <1>4 DEF Exchange!ReadQueues, Exchange!PartsInvariant
    <2>2. PICK listed \in Exchange!QueueLists(host.queues) :
            query' = [Exchange!Advance(Exchange!Show(query, 0)) EXCEPT
                       !.depths = <<Exchange!Depths(host.queues)>>, !.listed = listed,
                       !.queues = host.queues]
      BY <1>4 DEF Exchange!ReadQueues
    <2>3. /\ query'.queues = host.queues /\ query'.depths = <<Exchange!Depths(host.queues)>>
          /\ query'.listed = listed
      BY <2>1, <2>2, IdleExchange DEF Exchange!Knows, Exchange!Advance, Exchange!Show
    <2>4. QED
      BY <2>1, <2>3 DEF Exchange!QueuesInvariant
  <1>5. CASE Exchange!ReadPart \/ Exchange!ReadReplicationHealth \/ Exchange!PartFails
    <2>1. /\ query.pc = "parts" /\ Exchange!Knows(host, query) /\ host' = host
          /\ query.next <= Len(Exchange!Parts)
      BY <1>5 DEF Exchange!ReadPart, Exchange!ReadReplicationHealth, Exchange!PartFails,
         Exchange!PartsInvariant
    <2>2. query.next \in 1 .. 12 /\ Exchange!Part = Exchange!Parts[query.next]
      BY <2>1, TheParts DEF Exchange!Knows, Exchange!Part
    <2>3. DOMAIN query = DOMAIN Exchange!Idle
      BY <2>1 DEF Exchange!Knows
    <2>4. /\ query'.next = query.next + 1 /\ query.errors \subseteq query'.errors
          /\ query'.queues = query.queues /\ query'.listed = query.listed
          /\ Exchange!Part # "Queues" => query'.depths = query.depths
          /\ Exchange!Part = "Queues" => "Queues" \in query'.errors
      <3>1. CASE Exchange!ReadPart
        BY <2>3, <3>1, IdleExchange DEF Exchange!ReadPart, Exchange!Advance, Exchange!Show
      <3>2. CASE Exchange!ReadReplicationHealth
        BY <2>3, <3>2, IdleExchange
           DEF Exchange!ReadReplicationHealth, Exchange!Advance, Exchange!Show
      <3>3. CASE Exchange!PartFails
        BY <2>3, <3>3, IdleExchange DEF Exchange!PartFails, Exchange!Advance, Exchange!Show
      <3>4. QED
        BY <1>5, <3>1, <3>2, <3>3
    <2>5. CASE Exchange!Part = "Queues"
      BY <2>1, <2>4, <2>5 DEF Exchange!QueuesInvariant, Exchange!QueuesAreRead
    <2>6. CASE Exchange!Part # "Queues"
      <3>1. Exchange!QueuesAreRead(query') => Exchange!QueuesAreRead(query)
        <4>1. \A i \in 1 .. query'.next - 1 : i = query.next \/ i \in 1 .. query.next - 1
          BY <2>2, <2>4
        <4>2. QED
          BY <2>2, <2>4, <2>6, <4>1 DEF Exchange!QueuesAreRead
      <3>2. QED
        BY <2>1, <2>4, <2>6, <3>1 DEF Exchange!QueuesInvariant
    <2>7. QED
      BY <2>5, <2>6
  <1>6. CASE UNCHANGED Exchange!vars
    BY <1>6 DEF Exchange!vars, Exchange!QueuesInvariant
  <1>7. QED
    BY <1>1, <1>2, <1>3, <1>4, <1>5, <1>6 DEF Exchange!Next

LEMMA ExchangeSums ==
  ASSUME Exchange!PartsInvariant, Exchange!QueuesInvariant, Exchange!Finish
  PROVE  Exchange!QueuesAddUp'
  <1>1. /\ answer'.query = query /\ Exchange!Knows(host, query) /\ query.pc = "parts"
        /\ query.next > Len(Exchange!Parts)
    BY DEF Exchange!Finish, Exchange!PartsInvariant
  <1>2. SUFFICES ASSUME "Queues" \notin query.errors PROVE Exchange!QueuesAddUp'
    BY <1>1 DEF Exchange!QueuesAddUp
  <1>3. Exchange!QueuesAreRead(query)
    <2>1. query.next \in 1 .. 13 /\ query.next > 12
      BY <1>1, TheParts DEF Exchange!Knows
    <2>2. 4 \in 1 .. query.next - 1
      BY <2>1
    <2>3. QED
      BY <1>2, <2>2, TheParts DEF Exchange!QueuesAreRead
  <1>4. /\ Exchange!HasQueues(query.queues) /\ query.depths[1] = Exchange!Depths(query.queues)
        /\ query.listed \in Exchange!QueueLists(query.queues)
    BY <1>1, <1>3 DEF Exchange!QueuesInvariant
  <1>5. LET d == query.depths[1] IN
        /\ d.total + d.poison + d.shadow = Exchange!Messages(query.queues, DOMAIN query.queues)
        /\ d.submission + d.unreachable <= d.total
    BY <1>4, DepthsAddUp
  <1>6. \A r \in DOMAIN query.queues \ query.listed :
          /\ r \notin Exchange!Kept(query.queues)
          /\ Exchange!Cardinality({l \in query.listed :
                query.queues[l].count >= query.queues[r].count}) >= MaxTop
    BY <1>4, ListIsLong
  <1>7. QED
    BY <1>1, <1>5, <1>6 DEF Exchange!QueuesAddUp

ExchangePromise ==
  /\ Exchange!PartsInvariant /\ Exchange!QueuesInvariant
  /\ Exchange!TroubleIsShown /\ Exchange!QueuesAddUp

LEMMA ExchangePromised == ExchangePromise /\ [Exchange!Next]_(Exchange!vars) => ExchangePromise'
  <1> SUFFICES ASSUME ExchangePromise, [Exchange!Next]_(Exchange!vars)
               PROVE  Exchange!TroubleIsShown' /\ Exchange!QueuesAddUp'
    BY ExchangeNext, ExchangeQueues DEF ExchangePromise
  <1>1. CASE Exchange!Finish
    BY <1>1, ExchangeAnswers, ExchangeSums DEF ExchangePromise
  <1>2. CASE answer' = answer
    BY <1>2 DEF ExchangePromise, Exchange!TroubleIsShown, Exchange!QueuesAddUp
  <1>3. CASE Exchange!ShellFails \/ Exchange!Return
    <2>1. answer'.kind \in {"error", "none"}
      BY <1>3 DEF Exchange!ShellFails, Exchange!Return, Exchange!NoAnswer
    <2>2. QED
      BY <2>1 DEF Exchange!TroubleIsShown, Exchange!QueuesAddUp
  <1>4. QED
    BY <1>1, <1>2, <1>3 DEF Exchange!Next, Exchange!vars, Exchange!Begin, Exchange!ReadPart,
       Exchange!ReadReplicationHealth, Exchange!ReadQueues, Exchange!PartFails, Exchange!Change

LEMMA ExchangePromises == PluginSpec => [](plugin = "exchange" => ExchangePromise)
  <1>1. PluginInit => (plugin = "exchange" => ExchangePromise)
    <2>1. Exchange!Init => ExchangePromise
      BY HealthyHost, IdleExchange DEF Exchange!Init, Exchange!NoAnswer, Exchange!PartsInvariant,
         Exchange!QueuesInvariant, Exchange!TroubleIsShown, Exchange!QueuesAddUp, ExchangePromise
    <2>2. QED
      BY <2>1, PluginStart
  <1>2. (plugin = "exchange" => ExchangePromise) /\ [PluginNext]_<<plugin, vars>>
          => (plugin = "exchange" => ExchangePromise)'
    BY PluginStep, ExchangePromised
  <1>3. QED
    BY <1>1, <1>2, PTL DEF PluginSpec

\* Trouble that is there all along is shown, or its part is named in Errors; trouble that is
\* shown was there (42-51, 172-177, 419).
THEOREM TroublesAreShown == PluginSpec => []TroubleIsShown
  <1>1. (plugin = "exchange" => ExchangePromise) => TroubleIsShown
    BY DEF ExchangePromise, TroubleIsShown
  <1>2. QED
    BY <1>1, ExchangePromises, PTL

\* No message is counted twice or left out, a queue with a problem is listed however long the
\* list, and one that is left out is no longer than any that made it by its length (228-268).
THEOREM QueuesAreSummed == PluginSpec => []QueuesAddUp
  <1>1. (plugin = "exchange" => ExchangePromise) => QueuesAddUp
    BY DEF ExchangePromise, QueuesAddUp
  <1>2. QED
    BY <1>1, ExchangePromises, PTL

-----------------------------------------------------------------------------
\* The listening ports.

\* What the steps of a request share: where it is, and what is known then.
LEMMA PortsAt ==
  ASSUME Listening!PortsInvariant, query.pc # "idle"
  PROVE  /\ answer = Listening!NoAnswer
         /\ Listening!IsHost /\ Listening!ReadInOrder /\ Listening!HistoriesAreRight
         /\ Listening!ReadIsKept /\ Listening!EntriesAreTrue
         /\ Listening!ServicesAreTrue /\ Listening!RecordsSoFar /\ Listening!DescribedOnce
  BY DEF Listening!PortsInvariant

LEMMA PortsIdle ==
  /\ DOMAIN Listening!Idle = {"pc", "os", "family", "read", "failed", "todo", "services",
                              "out", "steady", "ever", "changed"}
  /\ Listening!Idle.pc = "idle" /\ Listening!Idle.todo = {} /\ Listening!Idle.out = {}
  /\ Listening!Idle.failed = {} /\ Listening!Idle.changed = {}
  BY DEF Listening!Idle

LEMMA PortsBegin ==
  ASSUME NEW os \in {"windows", "linux"}, Listening!Begin(os)
  PROVE  Listening!PortsInvariant'
  <1>1. /\ host' \in Listening!Hosts /\ answer = Listening!NoAnswer /\ answer' = answer
        /\ query' = [Listening!Idle EXCEPT !.os = os,
             !.pc = IF os = "windows" THEN "probe" ELSE "ss",
             !.family = IF os = "windows" THEN "IPv4" ELSE "",
             !.steady = host'.sockets, !.ever = host'.sockets]
    BY DEF Listening!Begin
  <1>2. /\ DOMAIN query' = DOMAIN Listening!Idle /\ query'.os = os
        /\ query'.pc = (IF os = "windows" THEN "probe" ELSE "ss")
        /\ query'.family = (IF os = "windows" THEN "IPv4" ELSE "")
        /\ query'.steady = host'.sockets /\ query'.ever = host'.sockets
        /\ query'.todo = {} /\ query'.out = {} /\ query'.changed = {}
    BY <1>1, PortsIdle
  <1>3. Listening!IsHost'
    BY <1>1 DEF Listening!Hosts, Listening!IsHost
  <1>4. (Listening!ReadInOrder /\ Listening!HistoriesAreRight)'
    BY <1>2 DEF Listening!ReadInOrder, Listening!HistoriesAreRight, Listening!Families
  <1>5. Listening!ReadIsKept'
    BY <1>2 DEF Listening!ReadIsKept, Listening!IsRead
  <1>6. (Listening!EntriesAreTrue /\ Listening!ServicesAreTrue /\ Listening!RecordsSoFar
           /\ Listening!DescribedOnce)'
    BY <1>2 DEF Listening!EntriesAreTrue, Listening!ServicesAreTrue, Listening!RecordsSoFar,
       Listening!DescribedOnce
  <1>7. QED
    BY <1>1, <1>3, <1>4, <1>5, <1>6 DEF Listening!PortsInvariant

\* A table is done with: all its rows are entries, or it is one that could not be read.
LEMMA PortsTableDone ==
  ASSUME Listening!PortsInvariant, query.pc \in {"probe", "fetch"}, host' = host,
         NEW rows, NEW failed, Listening!TableDone(rows, failed),
         \/ rows = Listening!Table /\ failed = {}
         \/ rows = {} /\ failed = {query.family}
  PROVE  Listening!PortsInvariant'
  <1>0. /\ answer = Listening!NoAnswer
        /\ Listening!IsHost /\ Listening!ReadInOrder /\ Listening!HistoriesAreRight
        /\ Listening!ReadIsKept /\ Listening!EntriesAreTrue
        /\ Listening!ServicesAreTrue /\ Listening!RecordsSoFar /\ Listening!DescribedOnce
    BY PortsAt
  <1> DEFINE new == {[port |-> s.port, pid |-> s.pid, image |-> None] : s \in rows}
  <1>1. /\ query.os = "windows" /\ query.family \in {"IPv4", "IPv6"}
        /\ DOMAIN query = DOMAIN Listening!Idle
    BY <1>0 DEF Listening!ReadInOrder, Listening!Families
  <1>2. CASE query' = Listening!Idle
    BY <1>0, <1>2, PortsIdle DEF Listening!PortsInvariant
  <1>3. CASE query' # Listening!Idle
    <2> DEFINE q == [query EXCEPT !.todo = @ \cup new, !.failed = @ \cup failed,
                                  !.read = Listening!NoRead]
    <2>1. /\ answer' = answer
          /\ IF q.family = "IPv4" THEN query' = [q EXCEPT !.family = "IPv6", !.pc = "probe"]
                                  ELSE query' = [q EXCEPT !.pc = "services"]
      BY <1>3 DEF Listening!TableDone, Listening!AnswerError
    <2> HIDE DEF new
    <2>2. /\ DOMAIN query' = DOMAIN Listening!Idle /\ query'.os = query.os
          /\ query'.todo = query.todo \cup new /\ query'.failed = query.failed \cup failed
          /\ query'.family = "IPv6" /\ query'.out = query.out
          /\ query'.pc = (IF query.family = "IPv4" THEN "probe" ELSE "services")
          /\ query'.steady = query.steady /\ query'.ever = query.ever
          /\ query'.changed = query.changed
      <3>1. /\ DOMAIN q = DOMAIN Listening!Idle /\ q.os = query.os /\ q.out = query.out
            /\ q.todo = query.todo \cup new /\ q.failed = query.failed \cup failed
            /\ q.family = query.family /\ q.steady = query.steady /\ q.ever = query.ever
            /\ q.changed = query.changed
        BY <1>1, PortsIdle
      <3> HIDE DEF q
      <3>2. CASE query.family = "IPv4"
        <4>1. query' = [q EXCEPT !.family = "IPv6", !.pc = "probe"]
          BY <2>1, <3>1, <3>2
        <4>2. QED
          BY <3>1, <3>2, <4>1, PortsIdle
      <3>3. CASE query.family = "IPv6"
        <4>1. query' = [q EXCEPT !.pc = "services"]
          BY <2>1, <3>1, <3>3
        <4>2. QED
          BY <3>1, <3>3, <4>1, PortsIdle
      <3>4. QED
        BY <1>1, <3>2, <3>3
    <2>3. query.out = {} /\ Listening!ReadInOrder'
      BY <1>0, <1>1, <2>2 DEF Listening!ReadInOrder, Listening!Families
    <2>4. (Listening!IsHost /\ Listening!HistoriesAreRight)'
      BY <1>0, <2>2 DEF Listening!IsHost, Listening!HistoriesAreRight
    <2>5. Listening!ReadIsKept'
      <3> SUFFICES ASSUME NEW s \in query.steady, Listening!IsRead(query', s),
                          Listening!IsReported(host, query.os, s)
                   PROVE  \E e \in query'.todo \cup query'.out : Listening!IsFor(e, s)
        BY <1>0, <2>2 DEF Listening!ReadIsKept
      <3>1. s \in host.sockets /\ s.family \in {"IPv4", "IPv6"}
        BY <1>0 DEF Listening!HistoriesAreRight, Listening!IsHost, Listening!Sockets,
           Listening!Families
      <3>3. CASE s.family = query.family
        <4>1. rows = Listening!Table
          BY <1>0, <2>2, <3>3 DEF Listening!IsRead
        <4>2. [port |-> s.port, pid |-> s.pid, image |-> None] \in new
          BY <1>0, <3>1, <3>3, <4>1 DEF new, Listening!Table
        <4>3. QED
          BY <1>0, <2>2, <4>2 DEF Listening!IsFor
      <3>4. CASE s.family # query.family
        <4>1. Listening!IsRead(query, s)
          BY <1>0, <1>1, <2>2, <3>1, <3>4 DEF Listening!IsRead
        <4>2. QED
          BY <1>0, <2>2, <4>1 DEF Listening!ReadIsKept
      <3>5. QED
        BY <1>0, <3>3, <3>4
    <2>6. Listening!EntriesAreTrue'
      <3> SUFFICES ASSUME NEW l \in query.todo \cup new
                   PROVE  /\ l = [port |-> l.port, pid |-> l.pid, image |-> l.image]
                          /\ Listening!IsOfSocket(query', l) /\ l.pid \in PIDs
        BY <1>0, <1>1, <2>2 DEF Listening!EntriesAreTrue
      <3>1. CASE l \in query.todo
        BY <1>0, <1>1, <2>2, <3>1 DEF Listening!EntriesAreTrue, Listening!IsOfSocket
      <3>2. CASE l \in new
        <4>1. PICK s \in host.sockets : l = [port |-> s.port, pid |-> s.pid, image |-> None]
          BY <1>0, <3>2 DEF new, Listening!Table
        <4>2. s \in query.ever /\ s.pid \in PIDs
          BY <1>0 DEF Listening!HistoriesAreRight, Listening!IsHost, Listening!Sockets
        <4>3. QED
          BY <1>0, <2>2, <4>1, <4>2 DEF Listening!IsOfSocket
      <3>3. QED
        BY <1>0, <3>1, <3>2
    <2>7. (Listening!ServicesAreTrue /\ Listening!RecordsSoFar /\ Listening!DescribedOnce)'
      BY <1>0, <1>1, <2>2, <2>3 DEF Listening!ServicesAreTrue, Listening!RecordsSoFar,
         Listening!DescribedOnce
    <2>8. QED
      BY <1>0, <2>1, <2>3, <2>4, <2>5, <2>6, <2>7 DEF Listening!PortsInvariant
  <1>4. QED
    BY <1>0, <1>2, <1>3

\* Another attempt at the same table, or the second of its calls.
LEMMA PortsCall ==
  ASSUME Listening!PortsInvariant, query.pc \in {"probe", "fetch"}, host' = host,
         answer' = answer, NEW pc \in {"probe", "fetch"}, NEW read,
         query' = [query EXCEPT !.pc = pc, !.read = read]
  PROVE  Listening!PortsInvariant'
  <1>0. /\ answer = Listening!NoAnswer
        /\ Listening!IsHost /\ Listening!ReadInOrder /\ Listening!HistoriesAreRight
        /\ Listening!ReadIsKept /\ Listening!EntriesAreTrue
        /\ Listening!ServicesAreTrue /\ Listening!RecordsSoFar /\ Listening!DescribedOnce
    BY PortsAt
  <1>1. DOMAIN query = DOMAIN Listening!Idle /\ query.os = "windows" /\ query.out = {}
    BY <1>0 DEF Listening!ReadInOrder
  <1>2. /\ DOMAIN query' = DOMAIN Listening!Idle /\ query'.os = query.os
        /\ query'.todo = query.todo /\ query'.failed = query.failed
        /\ query'.family = query.family /\ query'.out = query.out /\ query'.pc = pc
        /\ query'.steady = query.steady /\ query'.ever = query.ever
        /\ query'.changed = query.changed
    BY <1>0, <1>1, PortsIdle
  <1>3. (Listening!IsHost /\ Listening!HistoriesAreRight /\ Listening!ReadInOrder)'
    <2>1. Listening!IsHost' /\ Listening!HistoriesAreRight'
      BY <1>0, <1>2 DEF Listening!IsHost, Listening!HistoriesAreRight
    <2>2. query.family \in Listening!Families
      BY <1>0, <1>1 DEF Listening!ReadInOrder
    <2>3. Listening!ReadInOrder'
      BY <1>1, <1>2, <2>2 DEF Listening!ReadInOrder
    <2>4. QED
      BY <2>1, <2>3
  <1>4. Listening!ReadIsKept'
    BY <1>0, <1>2 DEF Listening!ReadIsKept, Listening!IsRead, Listening!IsReported
  <1>5. Listening!EntriesAreTrue'
    BY <1>0, <1>1, <1>2 DEF Listening!EntriesAreTrue, Listening!IsOfSocket
  <1>6. (Listening!ServicesAreTrue /\ Listening!RecordsSoFar /\ Listening!DescribedOnce)'
    BY <1>0, <1>1, <1>2 DEF Listening!ServicesAreTrue, Listening!RecordsSoFar, Listening!DescribedOnce
  <1>7. QED
    BY <1>0, <1>3, <1>4, <1>5, <1>6 DEF Listening!PortsInvariant

LEMMA PortsTable ==
  ASSUME Listening!PortsInvariant,
         Listening!ProbeTable \/ Listening!FetchTable \/ Listening!TableFails
  PROVE  Listening!PortsInvariant'
  <1>1. CASE Listening!ProbeTable
    <2>1. DOMAIN query = DOMAIN Listening!Idle
      BY <1>1, PortsAt DEF Listening!ProbeTable, Listening!ReadInOrder
    <2>2. query' = [query EXCEPT !.pc = "fetch",
                                 !.read = Listening!Probe(query.read, Listening!Table)]
      BY <1>1, <2>1, PortsIdle DEF Listening!ProbeTable
    <2>3. QED
      BY <1>1, <2>2, PortsCall DEF Listening!ProbeTable
  <1>2. CASE Listening!FetchTable
    <2> DEFINE result == Listening!Fetch(query.read, Listening!Table)
    <2>1. query.pc = "fetch" /\ host' = host
      BY <1>2 DEF Listening!FetchTable
    <2>2. /\ result.kind \in {"rows", "again", "error"}
          /\ result.kind = "rows" => result.rows = Listening!Table
      BY DEF Listening!Fetch
    <2>3. CASE result.kind = "rows"
      <3>1. Listening!TableDone(Listening!Table, {})
        BY <1>2, <2>2, <2>3 DEF Listening!FetchTable
      <3>2. QED
        BY <2>1, <3>1, PortsTableDone
    <2>4. CASE result.kind = "again"
      <3>1. query' = [query EXCEPT !.pc = "probe"] /\ answer' = answer
        BY <1>2, <2>4 DEF Listening!FetchTable
      <3>2. DOMAIN query = DOMAIN Listening!Idle
        BY <2>1, PortsAt DEF Listening!ReadInOrder
      <3>3. query' = [query EXCEPT !.pc = "probe", !.read = query.read]
        BY <3>1, <3>2, PortsIdle
      <3>4. QED
        BY <2>1, <3>1, <3>3, PortsCall
    <2>5. CASE result.kind = "error"
      <3>1. Listening!TableDone({}, {query.family})
        BY <1>2, <2>5 DEF Listening!FetchTable
      <3>2. QED
        BY <2>1, <3>1, PortsTableDone
    <2>6. QED
      BY <2>2, <2>3, <2>4, <2>5
  <1>3. CASE Listening!TableFails
    BY <1>3, PortsTableDone DEF Listening!TableFails
  <1>4. QED
    BY <1>1, <1>2, <1>3

\* The services are read: those that can be opened are right at that moment.
LEMMA PortsServices ==
  ASSUME Listening!PortsInvariant, NEW open \in SUBSET PIDs, Listening!BuildServicePIDMap(open)
  PROVE  Listening!PortsInvariant'
  <1>0. /\ query.pc = "services" /\ answer = Listening!NoAnswer
        /\ Listening!IsHost /\ Listening!ReadInOrder /\ Listening!HistoriesAreRight
        /\ Listening!ReadIsKept /\ Listening!EntriesAreTrue
        /\ Listening!ServicesAreTrue /\ Listening!RecordsSoFar /\ Listening!DescribedOnce
    BY PortsAt DEF Listening!BuildServicePIDMap
  <1>1. query.os = "windows" /\ query.out = {} /\ DOMAIN query = DOMAIN Listening!Idle
    BY <1>0 DEF Listening!ReadInOrder
  <1> DEFINE services == [p \in PIDs |-> IF p \in open THEN host.process[p].service ELSE None]
  <1>2. /\ query' = [query EXCEPT !.pc = "describe", !.services = services]
        /\ host' = host /\ answer' = answer
    BY DEF Listening!BuildServicePIDMap
  <1>3. \A p \in PIDs : services[p] \in {host.process[p].service, None}
    OBVIOUS
  <1> HIDE DEF services
  <1>4. /\ DOMAIN query' = DOMAIN Listening!Idle /\ query'.os = query.os
        /\ query'.todo = query.todo /\ query'.failed = query.failed
        /\ query'.family = query.family /\ query'.out = query.out /\ query'.pc = "describe"
        /\ query'.steady = query.steady /\ query'.ever = query.ever
        /\ query'.changed = query.changed /\ query'.services = services
    BY <1>1, <1>2, PortsIdle
  <1>5. (Listening!IsHost /\ Listening!HistoriesAreRight /\ Listening!ReadInOrder)'
    BY <1>0, <1>1, <1>2, <1>4 DEF Listening!IsHost, Listening!HistoriesAreRight, Listening!ReadInOrder
  <1>6. Listening!ReadIsKept'
    BY <1>0, <1>2, <1>4 DEF Listening!ReadIsKept, Listening!IsRead, Listening!IsReported
  <1>7. Listening!EntriesAreTrue'
    BY <1>0, <1>1, <1>2, <1>4 DEF Listening!EntriesAreTrue, Listening!IsOfSocket
  <1>8. Listening!ServicesAreTrue'
    BY <1>2, <1>3, <1>4 DEF Listening!ServicesAreTrue
  <1>9. Listening!RecordsSoFar' /\ Listening!DescribedOnce'
    BY <1>1, <1>4 DEF Listening!RecordsSoFar, Listening!DescribedOnce
  <1>10. QED
    BY <1>0, <1>2, <1>5, <1>6, <1>7, <1>8, <1>9 DEF Listening!PortsInvariant

\* ss: every socket is an entry, with its owner or without any.
LEMMA PortsSs ==
  ASSUME Listening!PortsInvariant, NEW shown \in SUBSET host.sockets, Listening!Ss(shown)
  PROVE  Listening!PortsInvariant'
  <1>0. /\ query.pc = "ss" /\ answer = Listening!NoAnswer
        /\ Listening!IsHost /\ Listening!ReadInOrder /\ Listening!HistoriesAreRight
    BY PortsAt DEF Listening!Ss
  <1>1. query.os = "linux" /\ query.out = {} /\ DOMAIN query = DOMAIN Listening!Idle
    BY <1>0 DEF Listening!ReadInOrder
  <1> DEFINE entry(s) == [port |-> s.port, pid |-> IF s \in shown THEN s.pid ELSE None,
                          image |-> IF s \in shown THEN host.process[s.pid].image ELSE Unknown]
             todo == {entry(s) : s \in host.sockets}
  <1>2. /\ query' = [query EXCEPT !.pc = "describe", !.todo = todo]
        /\ host' = host /\ answer' = answer
    BY DEF Listening!Ss
  <1> HIDE DEF todo
  <1>3. /\ DOMAIN query' = DOMAIN Listening!Idle /\ query'.os = "linux"
        /\ query'.todo = todo /\ query'.family = query.family /\ query'.out = {}
        /\ query'.pc = "describe"
        /\ query'.steady = query.steady /\ query'.ever = query.ever
        /\ query'.changed = query.changed
    BY <1>1, <1>2, PortsIdle
  <1>4. (Listening!IsHost /\ Listening!HistoriesAreRight)'
    BY <1>0, <1>2, <1>3 DEF Listening!IsHost, Listening!HistoriesAreRight
  <1>5. Listening!ReadInOrder'
    BY <1>0, <1>1, <1>3 DEF Listening!ReadInOrder
  <1>6. Listening!ReadIsKept'
    <2> SUFFICES ASSUME NEW s \in query.steady
                 PROVE  \E e \in todo : Listening!IsFor(e, s)
      BY <1>3 DEF Listening!ReadIsKept
    <2>1. entry(s) \in todo
      BY <1>0 DEF todo, Listening!HistoriesAreRight
    <2>2. QED
      BY <2>1 DEF Listening!IsFor
  <1>7. Listening!EntriesAreTrue'
    <2> SUFFICES ASSUME NEW l \in todo
                 PROVE  /\ l = [port |-> l.port, pid |-> l.pid, image |-> l.image]
                        /\ Listening!IsOfSocket(query', l)
                        /\ l.pid # None => l.image = host.process[l.pid].image
      BY <1>2, <1>3 DEF Listening!EntriesAreTrue
    <2>1. PICK s \in host.sockets : l = entry(s)
      BY DEF todo
    <2>2. s \in query.ever /\ s.pid \in PIDs
      BY <1>0 DEF Listening!HistoriesAreRight, Listening!IsHost, Listening!Sockets
    <2>3. QED
      BY <1>3, <2>1, <2>2 DEF Listening!IsOfSocket
  <1>8. (Listening!ServicesAreTrue /\ Listening!RecordsSoFar /\ Listening!DescribedOnce)'
    BY <1>3 DEF Listening!ServicesAreTrue, Listening!RecordsSoFar, Listening!DescribedOnce
  <1>9. QED
    BY <1>0, <1>2, <1>4, <1>5, <1>6, <1>7, <1>8 DEF Listening!PortsInvariant

-----------------------------------------------------------------------------
\* What the description of one entry adds.
LEMMA AutoRecordIsTrue ==
  ASSUME Listening!IsHost, Listening!ServicesAreTrue, query.pc = "describe",
         query.os = "windows", NEW l, l.pid \in PIDs, Listening!IsOfSocket(query, l),
         NEW e \in Listening!AutoRecords(l)
  PROVE  /\ e = Listening!Record(l.port, l.pid, e.process, query.services[l.pid], FALSE)
         /\ Listening!NamesOwner(host, query, e)
  <1>1. e = Listening!Record(l.port, l.pid, Listening!ImageOf(l.pid), query.services[l.pid], FALSE)
        /\ Listening!ImageOf(l.pid) # None
    BY DEF Listening!AutoRecords
  <1>2. Listening!ImageOf(l.pid) = host.process[l.pid].image
    BY <1>1 DEF Listening!ImageOf, Listening!IsHost, Listening!Processes
  <1>3. /\ e.port = l.port /\ e.pid = l.pid /\ e.process = Listening!ImageOf(l.pid)
        /\ e.service = query.services[l.pid] /\ e.manual = FALSE
    BY <1>1 DEF Listening!Record
  <1>4. QED
    BY <1>1, <1>2, <1>3 DEF Listening!NamesOwner, Listening!ServicesAreTrue

LEMMA ManualRecordIsTrue ==
  ASSUME Listening!IsHost, NEW l, l.pid \in PIDs, NEW e \in Listening!ManualRecords(l)
  PROVE  /\ e = Listening!Record(l.port, l.pid, e.process, KnownService, TRUE)
         /\ Listening!NamesOwner(host, query, e)
  <1> DEFINE name == IF l.pid = Kernel THEN HttpSys
                     ELSE IF Listening!ImageOf(l.pid) = None THEN Unknown
                     ELSE Listening!ImageOf(l.pid)
  <1>1. e = Listening!Record(l.port, l.pid, name, KnownService, TRUE)
    BY DEF Listening!ManualRecords
  <1>2. name \in {host.process[l.pid].image, HttpSys, Unknown}
    BY DEF Listening!ImageOf
  <1> HIDE DEF name
  <1>3. /\ e.port = l.port /\ e.pid = l.pid /\ e.process = name
        /\ e.service = KnownService /\ e.manual = TRUE
    BY <1>1 DEF Listening!Record
  <1>4. QED
    BY <1>1, <1>2, <1>3 DEF Listening!NamesOwner

LEMMA UnitRecordIsTrue ==
  ASSUME Listening!EntriesAreTrue, query.os = "linux", NEW l \in query.todo,
         NEW e, e = Listening!UnitRecord(l)
  PROVE  /\ e = Listening!Record(l.port, l.pid, l.image, e.service, FALSE)
         /\ e.port = l.port /\ e.pid = l.pid /\ e.process = l.image /\ e.manual = FALSE
         /\ Listening!NamesOwner(host, query, e)
  <1>1. /\ e.port = l.port /\ e.pid = l.pid /\ e.process = l.image /\ e.manual = FALSE
        /\ e.service = IF l.pid = None THEN None ELSE host.process[l.pid].service
    BY DEF Listening!UnitRecord, Listening!Record
  <1>2. l.pid # None /\ l.pid \notin query.changed => l.image = host.process[l.pid].image
    BY DEF Listening!EntriesAreTrue
  <1>3. Listening!NamesOwner(host, query, e)
    BY <1>1, <1>2 DEF Listening!NamesOwner
  <1>4. QED
    BY <1>1, <1>3 DEF Listening!UnitRecord

\* A socket that is to be in the list has a record, once its entry is described.
LEMMA DescribedIsListed ==
  ASSUME Listening!IsHost, query.os = "windows", NEW s \in host.sockets,
         Listening!IsReported(host, query.os, s), NEW l, l.port = s.port, l.pid = s.pid
  PROVE  \E e \in Listening!AutoRecords(l) \cup Listening!ManualRecords(l) :
           Listening!IsFor(e, s)
  <1>1. CASE s.port \in KnownPorts
    <2>1. PICK name : Listening!Record(l.port, l.pid, name, KnownService, TRUE)
                        \in Listening!ManualRecords(l)
      BY <1>1 DEF Listening!ManualRecords
    <2>2. Listening!IsFor(Listening!Record(l.port, l.pid, name, KnownService, TRUE), s)
      BY DEF Listening!IsFor, Listening!Record
    <2>3. QED
      BY <2>1, <2>2
  <1>2. CASE s.port \notin KnownPorts
    <2>1. /\ s.pid \in PIDs /\ host.process \in Listening!Processes
          /\ host.process[s.pid] # Listening!Exited
      BY DEF Listening!IsHost, Listening!Sockets
    <2>2. host.process[s.pid].image \in Images
      BY <2>1 DEF Listening!Processes
    <2>3. host.process[s.pid].image \notin Excluded \cup Protected
      BY <1>2 DEF Listening!IsReported
    <2>4. Listening!ImageOf(l.pid) = host.process[s.pid].image
      BY <2>1, <2>3 DEF Listening!ImageOf, Listening!Processes
    <2>5. Listening!ImageOf(l.pid) \notin Excluded \cup {None}
      BY <2>2, <2>3, <2>4, ListeningAssumption DEF Listening!NoneIsNothing
    <2>6. Listening!Record(l.port, l.pid, Listening!ImageOf(l.pid), query.services[l.pid], FALSE)
            \in Listening!AutoRecords(l)
      BY <2>5 DEF Listening!AutoRecords
    <2>7. Listening!IsFor(Listening!Record(l.port, l.pid, Listening!ImageOf(l.pid),
                                           query.services[l.pid], FALSE), s)
      BY DEF Listening!IsFor, Listening!Record
    <2>8. QED
      BY <2>6, <2>7
  <1>3. QED
    BY <1>1, <1>2

\* One entry becomes the records it gives.
LEMMA PortsDescribe ==
  ASSUME Listening!PortsInvariant, NEW l \in query.todo, Listening!Describe(l)
  PROVE  Listening!PortsInvariant'
  <1>0. /\ query.pc = "describe" /\ answer = Listening!NoAnswer
        /\ Listening!IsHost /\ Listening!ReadInOrder /\ Listening!HistoriesAreRight
        /\ Listening!ReadIsKept /\ Listening!EntriesAreTrue
        /\ Listening!ServicesAreTrue /\ Listening!RecordsSoFar /\ Listening!DescribedOnce
    BY PortsAt DEF Listening!Describe
  <1> DEFINE new == IF query.os = "windows"
                    THEN Listening!AutoRecords(l) \cup Listening!ManualRecords(l)
                    ELSE {Listening!UnitRecord(l)}
  <1>1. /\ query.os \in {"windows", "linux"} /\ DOMAIN query = DOMAIN Listening!Idle
        /\ Listening!IsOfSocket(query, l) /\ (query.os = "windows" => l.pid \in PIDs)
    BY <1>0 DEF Listening!ReadInOrder, Listening!EntriesAreTrue
  <1>2. /\ query' = [query EXCEPT !.todo = @ \ {l}, !.out = @ \cup new]
        /\ host' = host /\ answer' = answer
    BY DEF Listening!Describe
  <1> HIDE DEF new
  <1>3. /\ DOMAIN query' = DOMAIN Listening!Idle /\ query'.os = query.os
        /\ query'.todo = query.todo \ {l} /\ query'.failed = query.failed
        /\ query'.family = query.family /\ query'.out = query.out \cup new
        /\ query'.pc = query.pc /\ query'.services = query.services
        /\ query'.steady = query.steady /\ query'.ever = query.ever
        /\ query'.changed = query.changed
    BY <1>1, <1>2, PortsIdle
  <1>4. (Listening!IsHost /\ Listening!HistoriesAreRight /\ Listening!ReadInOrder)'
    BY <1>0, <1>1, <1>2, <1>3 DEF Listening!IsHost, Listening!HistoriesAreRight,
       Listening!ReadInOrder
  <1>5. Listening!ReadIsKept'
    <2> SUFFICES ASSUME NEW s \in query.steady, Listening!IsRead(query', s),
                        Listening!IsReported(host, query.os, s)
                 PROVE  \E e \in query'.todo \cup query'.out : Listening!IsFor(e, s)
      BY <1>2, <1>3 DEF Listening!ReadIsKept
    <2>1. Listening!IsRead(query, s) /\ s \in host.sockets
      BY <1>0, <1>3 DEF Listening!IsRead, Listening!HistoriesAreRight
    <2>2. PICK e \in query.todo \cup query.out : Listening!IsFor(e, s)
      BY <1>0, <2>1 DEF Listening!ReadIsKept
    <2>3. CASE e # l \/ e \in query.out
      BY <1>3, <2>2, <2>3
    <2>4. CASE e = l
      <3>1. l.port = s.port /\ l.pid \in {s.pid, None}
        BY <2>2, <2>4 DEF Listening!IsFor
      <3>2. CASE query.os = "linux"
        <4>1. Listening!UnitRecord(l) \in new
          BY <3>2 DEF new
        <4>2. Listening!IsFor(Listening!UnitRecord(l), s)
          BY <3>1 DEF Listening!IsFor, Listening!UnitRecord, Listening!Record
        <4>3. QED
          BY <1>3, <4>1, <4>2
      <3>3. CASE query.os = "windows"
        <4>1. l.pid = s.pid
          BY <1>1, <3>1, <3>3, ListeningAssumption DEF Listening!NoneIsNothing
        <4>2. QED
          BY <1>0, <1>3, <2>1, <3>1, <3>3, <4>1, DescribedIsListed DEF new
      <3>4. QED
        BY <1>1, <3>2, <3>3
    <2>5. QED
      BY <2>3, <2>4
  <1>6. Listening!EntriesAreTrue'
    BY <1>0, <1>2, <1>3 DEF Listening!EntriesAreTrue, Listening!IsOfSocket
  <1>7. Listening!ServicesAreTrue'
    BY <1>0, <1>2, <1>3 DEF Listening!ServicesAreTrue
  <1>8. ASSUME NEW e \in new
        PROVE  /\ e = Listening!Record(e.port, e.pid, e.process, e.service, e.manual)
               /\ e.manual \in BOOLEAN /\ e.port = l.port /\ e.pid = l.pid
               /\ e.manual => e.service = KnownService
               /\ Listening!NamesOwner(host, query, e)
               /\ query.os = "windows" /\ ~e.manual => e.service = query.services[e.pid]
               /\ query.os = "linux" => ~e.manual /\ e.process = l.image
    <2>1. CASE query.os = "linux"
      <3>1. e = Listening!UnitRecord(l)
        BY <1>8, <2>1 DEF new
      <3>2. QED
        BY <1>0, <2>1, <3>1, UnitRecordIsTrue
    <2>2. CASE query.os = "windows" /\ e \in Listening!AutoRecords(l)
      <3>1. /\ e = Listening!Record(l.port, l.pid, e.process, query.services[l.pid], FALSE)
            /\ Listening!NamesOwner(host, query, e)
        BY <1>0, <1>1, <2>2, AutoRecordIsTrue
      <3>2. e.port = l.port /\ e.pid = l.pid /\ e.service = query.services[l.pid] /\ e.manual = FALSE
        BY <3>1 DEF Listening!Record
      <3>3. QED
        BY <2>2, <3>1, <3>2
    <2>3. CASE query.os = "windows" /\ e \in Listening!ManualRecords(l)
      <3>1. /\ e = Listening!Record(l.port, l.pid, e.process, KnownService, TRUE)
            /\ Listening!NamesOwner(host, query, e)
        BY <1>0, <1>1, <2>3, ManualRecordIsTrue
      <3>2. e.port = l.port /\ e.pid = l.pid /\ e.service = KnownService /\ e.manual = TRUE
        BY <3>1 DEF Listening!Record
      <3>3. QED
        BY <2>3, <3>1, <3>2
    <2>4. QED
      BY <1>1, <1>8, <2>1, <2>2, <2>3 DEF new
  <1>9. Listening!RecordsSoFar'
    <2> SUFFICES ASSUME NEW e \in query.out \cup new
                 PROVE  /\ e = Listening!Record(e.port, e.pid, e.process, e.service, e.manual)
                        /\ e.manual \in BOOLEAN /\ (e.manual => e.service = KnownService)
                        /\ Listening!IsOfSocket(query', e) /\ Listening!NamesOwner(host, query', e)
                        /\ query.os = "windows" /\ ~e.manual => e.service = query.services[e.pid]
                        /\ query.os = "linux" => ~e.manual
      BY <1>2, <1>3 DEF Listening!RecordsSoFar
    <2>1. CASE e \in query.out
      BY <1>0, <1>3, <2>1 DEF Listening!RecordsSoFar, Listening!IsOfSocket, Listening!NamesOwner
    <2>2. CASE e \in new
      BY <1>1, <1>3, <1>8, <2>2 DEF Listening!IsOfSocket, Listening!NamesOwner
    <2>3. QED
      BY <2>1, <2>2
  <1>10. Listening!DescribedOnce'
    <2> SUFFICES ASSUME query.os = "linux"
                 PROVE  /\ \A d, e \in query.out \cup new : Listening!SameKey(d, e) => d = e
                        /\ \A m \in query.todo \ {l}, e \in query.out \cup new :
                             ~(e.port = m.port /\ e.pid = m.pid /\ e.process = m.image)
      BY <1>3 DEF Listening!DescribedOnce
    <2> DEFINE r == Listening!UnitRecord(l)
    <2>1. new = {r}
      BY DEF new
    <2>2. r.port = l.port /\ r.pid = l.pid /\ r.process = l.image
      BY DEF Listening!UnitRecord, Listening!Record
    <2> HIDE DEF r
    <2>3. \A e \in query.out : ~Listening!SameKey(r, e) /\ ~Listening!SameKey(e, r)
      BY <1>0, <2>2 DEF Listening!DescribedOnce, Listening!SameKey
    <2>4. \A d, e \in query.out \cup new : Listening!SameKey(d, e) => d = e
      BY <1>0, <2>1, <2>3 DEF Listening!DescribedOnce
    <2>5. \A m \in query.todo \ {l} : ~(l.port = m.port /\ l.pid = m.pid /\ l.image = m.image)
      BY <1>0 DEF Listening!EntriesAreTrue
    <2>6. QED
      BY <1>0, <2>1, <2>2, <2>4, <2>5 DEF Listening!DescribedOnce
  <1>11. QED
    BY <1>0, <1>2, <1>4, <1>5, <1>6, <1>7, <1>9, <1>10 DEF Listening!PortsInvariant

\* The host changes: a process that is not marked as changed is as it was.
LEMMA PortsChange ==
  ASSUME Listening!PortsInvariant, Listening!Change
  PROVE  Listening!PortsInvariant'
  <1>0. /\ query.pc # "idle" /\ answer = Listening!NoAnswer
        /\ Listening!IsHost /\ Listening!ReadInOrder /\ Listening!HistoriesAreRight
        /\ Listening!ReadIsKept /\ Listening!EntriesAreTrue
        /\ Listening!ServicesAreTrue /\ Listening!RecordsSoFar /\ Listening!DescribedOnce
    BY PortsAt DEF Listening!Change
  <1>1. /\ DOMAIN host = {"sockets", "process", "changes"}
        /\ host.sockets \subseteq Listening!Sockets /\ host.process \in Listening!Processes
        /\ \A s \in host.sockets : host.process[s.pid] # Listening!Exited
    BY <1>0 DEF Listening!IsHost
  <1>2. /\ Listening!IsHost'
        /\ \A s \in host.sockets \cap host'.sockets : host'.process[s.pid] = host.process[s.pid]
    <2>1. CASE \E s \in Listening!Sockets \ host.sockets :
                 /\ host.process[s.pid] # Listening!Exited
                 /\ host' = [host EXCEPT !.sockets = @ \cup {s}, !.changes = @ + 1]
      <3>1. PICK s \in Listening!Sockets :
              /\ host.process[s.pid] # Listening!Exited
              /\ host' = [host EXCEPT !.sockets = @ \cup {s}, !.changes = @ + 1]
        BY <2>1
      <3>2. DOMAIN host' = DOMAIN host /\ host'.sockets = host.sockets \cup {s} /\ host'.process = host.process
        BY <1>1, <3>1
      <3>3. QED
        BY <1>1, <3>1, <3>2 DEF Listening!IsHost
    <2>2. CASE \E s \in host.sockets :
                 host' = [host EXCEPT !.sockets = @ \ {s}, !.changes = @ + 1]
      <3>1. PICK s : host' = [host EXCEPT !.sockets = @ \ {s}, !.changes = @ + 1]
        BY <2>2
      <3>2. DOMAIN host' = DOMAIN host /\ host'.sockets = host.sockets \ {s} /\ host'.process = host.process
        BY <1>1, <3>1
      <3>3. QED
        BY <1>1, <3>2 DEF Listening!IsHost
    <2>3. CASE \E p \in PIDs \ {Kernel}, next \in Images \X (Services \cup {None}) :
                 host' = [host EXCEPT
                   !.sockets = {s \in @ : s.pid # p},
                   !.process[p] = IF @ = Listening!Exited
                                  THEN [image |-> next[1], service |-> next[2]]
                                  ELSE Listening!Exited,
                   !.changes = @ + 1]
      <3>1. PICK p \in PIDs \ {Kernel} : \E next \in Images \X (Services \cup {None}) :
                 host' = [host EXCEPT
                   !.sockets = {s \in @ : s.pid # p},
                   !.process[p] = IF @ = Listening!Exited
                                  THEN [image |-> next[1], service |-> next[2]]
                                  ELSE Listening!Exited,
                   !.changes = @ + 1]
        BY <2>3
      <3>2. PICK next \in Images \X (Services \cup {None}) :
                 host' = [host EXCEPT
                   !.sockets = {s \in @ : s.pid # p},
                   !.process[p] = IF @ = Listening!Exited
                                  THEN [image |-> next[1], service |-> next[2]]
                                  ELSE Listening!Exited,
                   !.changes = @ + 1]
        BY <3>1
      <3> DEFINE process == IF host.process[p] = Listening!Exited
                            THEN [image |-> next[1], service |-> next[2]] ELSE Listening!Exited
      <3>3. process \in [image : Images, service : Services \cup {None}] \cup {Listening!Exited}
        OBVIOUS
      <3> HIDE DEF process
      <3>4. /\ DOMAIN host' = DOMAIN host /\ host'.sockets = {s \in host.sockets : s.pid # p}
            /\ host'.process = [host.process EXCEPT ![p] = process]
        BY <1>1, <3>2 DEF process
      <3>5. host'.process \in Listening!Processes
        BY <1>1, <3>3, <3>4 DEF Listening!Processes
      <3>6. \A s \in host'.sockets : s.pid \in PIDs /\ host'.process[s.pid] = host.process[s.pid]
        BY <1>1, <3>4 DEF Listening!Sockets, Listening!Processes
      <3>7. QED
        BY <1>1, <3>4, <3>5, <3>6 DEF Listening!IsHost
    <2>4. QED
      BY <2>1, <2>2, <2>3 DEF Listening!Change
  <1> DEFINE changed == {p \in PIDs : host'.process[p] # host.process[p]}
  <1>3. /\ query' = [query EXCEPT !.steady = @ \cap host'.sockets, !.ever = @ \cup host'.sockets,
                                  !.changed = @ \cup changed]
        /\ answer' = answer
    BY DEF Listening!Change
  <1>4. \A p \in PIDs \ changed : host'.process[p] = host.process[p]
    OBVIOUS
  <1>5. \A s \in host.sockets \cap host'.sockets : s.pid \notin changed
    BY <1>2
  <1> HIDE DEF changed
  <1>6. /\ DOMAIN query' = DOMAIN Listening!Idle /\ query'.os = query.os
        /\ query'.todo = query.todo /\ query'.failed = query.failed
        /\ query'.family = query.family /\ query'.out = query.out
        /\ query'.pc = query.pc /\ query'.services = query.services
        /\ query'.steady = query.steady \cap host'.sockets
        /\ query'.ever = query.ever \cup host'.sockets
        /\ query'.changed = query.changed \cup changed
    BY <1>0, <1>3, PortsIdle DEF Listening!ReadInOrder
  <1>7. Listening!HistoriesAreRight'
    BY <1>0, <1>5, <1>6 DEF Listening!HistoriesAreRight
  <1>8. Listening!ReadInOrder'
    BY <1>0, <1>6 DEF Listening!ReadInOrder
  <1>9. Listening!ReadIsKept'
    <2> SUFFICES ASSUME NEW s \in query.steady, s \in host'.sockets, Listening!IsRead(query', s),
                        Listening!IsReported(host', query.os, s)
                 PROVE  \E e \in query.todo \cup query.out : Listening!IsFor(e, s)
      BY <1>6 DEF Listening!ReadIsKept
    <2>1. s \in host.sockets
      BY <1>0 DEF Listening!HistoriesAreRight
    <2>2. host'.process[s.pid] = host.process[s.pid]
      BY <1>2, <2>1
    <2>3. Listening!IsReported(host, query.os, s) /\ Listening!IsRead(query, s)
      BY <1>6, <2>2 DEF Listening!IsReported, Listening!IsRead
    <2>4. QED
      BY <1>0, <2>3 DEF Listening!ReadIsKept
  <1>10. \A e : Listening!IsOfSocket(query, e) => Listening!IsOfSocket(query', e)
    BY <1>6 DEF Listening!IsOfSocket
  <1>11. \A e : Listening!IsOfSocket(query, e) /\ Listening!NamesOwner(host, query, e)
                  => Listening!NamesOwner(host', query', e)
    BY <1>4, <1>6 DEF Listening!IsOfSocket, Listening!NamesOwner
  <1>12. Listening!EntriesAreTrue'
    <2> SUFFICES ASSUME NEW l \in query.todo, l.pid # None, l.pid \notin query'.changed,
                        query.os = "linux"
                 PROVE  l.image = host'.process[l.pid].image
      BY <1>0, <1>6, <1>10 DEF Listening!EntriesAreTrue
    <2>1. l.pid \in PIDs /\ l.image = host.process[l.pid].image
      BY <1>0, <1>6 DEF Listening!EntriesAreTrue, Listening!IsOfSocket
    <2>2. QED
      BY <1>4, <1>6, <2>1
  <1>13. Listening!ServicesAreTrue'
    BY <1>0, <1>4, <1>6 DEF Listening!ServicesAreTrue
  <1>14. Listening!RecordsSoFar'
    BY <1>0, <1>6, <1>10, <1>11 DEF Listening!RecordsSoFar
  <1>15. Listening!DescribedOnce'
    BY <1>0, <1>6 DEF Listening!DescribedOnce
  <1>16. QED
    BY <1>0, <1>2, <1>3, <1>7, <1>8, <1>9, <1>12, <1>13, <1>14, <1>15 DEF Listening!PortsInvariant

LEMMA PortsNext ==
  Listening!PortsInvariant /\ [Listening!Next]_(Listening!vars) => Listening!PortsInvariant'
  <1>1. ASSUME Listening!PortsInvariant, Listening!SsFails \/ Listening!Finish \/ Listening!Return
        PROVE  Listening!PortsInvariant'
    <2>1. query'.pc = "idle"
      BY <1>1, PortsIdle DEF Listening!SsFails, Listening!AnswerError, Listening!Finish,
         Listening!Return, Listening!PortsInvariant
    <2>2. QED
      BY <2>1 DEF Listening!PortsInvariant
  <1>2. Listening!PortsInvariant /\ UNCHANGED Listening!vars => Listening!PortsInvariant'
    <2> SUFFICES ASSUME Listening!PortsInvariant, UNCHANGED Listening!vars
                 PROVE  Listening!PortsInvariant'
      OBVIOUS
    <2>1. host' = host /\ query' = query /\ answer' = answer
      BY DEF Listening!vars
    <2>2. Listening!IsHost => Listening!IsHost'
      BY <2>1 DEF Listening!IsHost
    <2>3. Listening!ReadInOrder => Listening!ReadInOrder'
      BY <2>1 DEF Listening!ReadInOrder
    <2>4. Listening!HistoriesAreRight => Listening!HistoriesAreRight'
      BY <2>1 DEF Listening!HistoriesAreRight
    <2>5. Listening!ReadIsKept => Listening!ReadIsKept'
      BY <2>1 DEF Listening!ReadIsKept
    <2>6. Listening!EntriesAreTrue => Listening!EntriesAreTrue'
      BY <2>1 DEF Listening!EntriesAreTrue
    <2>7. Listening!ServicesAreTrue => Listening!ServicesAreTrue'
      BY <2>1 DEF Listening!ServicesAreTrue
    <2>8. Listening!RecordsSoFar => Listening!RecordsSoFar'
      BY <2>1 DEF Listening!RecordsSoFar
    <2>9. Listening!DescribedOnce => Listening!DescribedOnce'
      BY <2>1 DEF Listening!DescribedOnce
    <2>10. QED
      BY <2>1, <2>2, <2>3, <2>4, <2>5, <2>6, <2>7, <2>8, <2>9 DEF Listening!PortsInvariant
  <1>3. QED
    BY <1>1, <1>2, PortsBegin, PortsTable, PortsServices, PortsSs, PortsDescribe, PortsChange
       DEF Listening!Next

\* When the last entry is described, every socket of a table that was read has its record.
LEMMA PortsAnswers ==
  ASSUME Listening!PortsInvariant, Listening!Finish
  PROVE  (Listening!EveryListenerIsListed /\ Listening!RecordsAreTrue)'
  <1>0. /\ query.pc = "describe" /\ query.todo = {} /\ host' = host
        /\ Listening!IsHost /\ Listening!ReadInOrder /\ Listening!HistoriesAreRight
        /\ Listening!ReadIsKept /\ Listening!RecordsSoFar /\ Listening!DescribedOnce
    BY PortsAt DEF Listening!Finish
  <1> DEFINE q == [query EXCEPT !.out = Listening!Unique(query.out)]
  <1>1. answer' = [kind |-> "list", query |-> q]
    BY DEF Listening!Finish
  <1>2. /\ DOMAIN query = DOMAIN Listening!Idle
        /\ query.os \in {"windows", "linux"}
    BY <1>0 DEF Listening!ReadInOrder
  <1>3. /\ q.out = Listening!Unique(query.out) /\ q.os = query.os /\ q.failed = query.failed
        /\ q.steady = query.steady /\ q.ever = query.ever /\ q.changed = query.changed
    BY <1>2, PortsIdle
  <1> HIDE DEF q
  <1>4. Listening!EveryListenerIsListed'
    <2> SUFFICES ASSUME NEW s \in query.steady, s.family \notin query.failed,
                        Listening!IsReported(host, query.os, s)
                 PROVE  \E e \in Listening!Unique(query.out) : Listening!IsFor(e, s)
      BY <1>0, <1>1, <1>3 DEF Listening!EveryListenerIsListed
    <2>1. PICK e \in query.out : Listening!IsFor(e, s)
      BY <1>0 DEF Listening!ReadIsKept, Listening!IsRead
    <2>2. CASE \E d \in query.out : ~d.manual /\ Listening!SameKey(d, e)
      BY <2>1, <2>2 DEF Listening!SameKey, Listening!Unique, Listening!IsFor
    <2>3. CASE ~\E d \in query.out : ~d.manual /\ Listening!SameKey(d, e)
      BY <2>1, <2>3 DEF Listening!Unique
    <2>4. QED
      BY <2>2, <2>3
  <1>5. Listening!RecordsAreTrue'
    <2>1. ASSUME NEW e \in Listening!Unique(query.out)
          PROVE  Listening!IsOfSocket(q, e) /\ Listening!NamesOwner(host, q, e)
      BY <1>0, <1>3 DEF Listening!Unique, Listening!RecordsSoFar, Listening!IsOfSocket,
         Listening!NamesOwner
    <2>2. ASSUME NEW d \in Listening!Unique(query.out), NEW e \in Listening!Unique(query.out),
                 Listening!SameKey(d, e)
          PROVE  d = e
      <3>1. /\ d \in query.out /\ e \in query.out
            /\ d.port = e.port /\ d.pid = e.pid /\ d.process = e.process
            /\ Listening!SameKey(e, d)
        BY <2>2 DEF Listening!Unique, Listening!SameKey
      <3>2. CASE query.os = "linux"
        BY <1>0, <2>2, <3>1, <3>2 DEF Listening!DescribedOnce
      <3>3. CASE query.os = "windows"
        <4>1. d.manual \in BOOLEAN /\ e.manual \in BOOLEAN /\ (d.manual <=> e.manual)
          BY <1>0, <2>2, <3>1 DEF Listening!Unique, Listening!RecordsSoFar
        <4>2. d.service = e.service
          BY <1>0, <3>1, <3>3, <4>1 DEF Listening!RecordsSoFar
        <4>3. /\ d = Listening!Record(d.port, d.pid, d.process, d.service, d.manual)
              /\ e = Listening!Record(e.port, e.pid, e.process, e.service, e.manual)
          BY <1>0, <3>1 DEF Listening!RecordsSoFar
        <4>4. d.manual = e.manual
          BY <4>1
        <4>5. QED
          BY <3>1, <4>2, <4>3, <4>4
      <3>4. QED
        BY <1>2, <3>2, <3>3
    <2>3. QED
      BY <1>0, <1>1, <1>3, <2>1, <2>2 DEF Listening!RecordsAreTrue
  <1>6. QED
    BY <1>4, <1>5

PortsPromise ==
  /\ Listening!PortsInvariant
  /\ Listening!EveryListenerIsListed /\ Listening!RecordsAreTrue
  /\ answer # Listening!NoAnswer => query.pc = "idle"

LEMMA PortsPromised == PortsPromise /\ [Listening!Next]_(Listening!vars) => PortsPromise'
  <1> SUFFICES ASSUME PortsPromise, [Listening!Next]_(Listening!vars) PROVE PortsPromise'
    OBVIOUS
  <1>1. Listening!PortsInvariant'
    BY PortsNext DEF PortsPromise
  <1>2. CASE Listening!Finish
    BY <1>1, <1>2, PortsAnswers, PortsIdle DEF PortsPromise, Listening!Finish
  <1>3. CASE answer'.kind # "list" /\ (answer' # Listening!NoAnswer => query'.pc = "idle")
    BY <1>1, <1>3 DEF PortsPromise, Listening!EveryListenerIsListed, Listening!RecordsAreTrue
  <1>4. CASE UNCHANGED Listening!vars
    BY <1>1, <1>4 DEF PortsPromise, Listening!EveryListenerIsListed, Listening!RecordsAreTrue,
       Listening!vars
  <1>5. Listening!NoAnswer.kind = "none"
    BY DEF Listening!NoAnswer
  <1>6. ASSUME NEW rows, NEW failed, Listening!TableDone(rows, failed), answer = Listening!NoAnswer
        PROVE  answer'.kind # "list" /\ (answer' # Listening!NoAnswer => query'.pc = "idle")
    BY <1>5, <1>6, PortsIdle DEF Listening!TableDone, Listening!AnswerError
  <1>7. ASSUME query.pc # "idle" PROVE answer = Listening!NoAnswer
    BY <1>7 DEF PortsPromise
  <1>8. CASE Listening!FetchTable \/ Listening!TableFails
    <2>1. answer = Listening!NoAnswer
      BY <1>7, <1>8 DEF Listening!FetchTable, Listening!TableFails
    <2>2. answer' = answer \/ \E rows, failed : Listening!TableDone(rows, failed)
      <3>1. CASE Listening!TableFails
        BY <3>1 DEF Listening!TableFails
      <3>2. CASE Listening!FetchTable
        <4> DEFINE result == Listening!Fetch(query.read, Listening!Table)
        <4>1. result.kind \in {"rows", "again", "error"}
          BY DEF Listening!Fetch
        <4>2. /\ result.kind = "rows" => Listening!TableDone(result.rows, {})
              /\ result.kind = "again" => answer' = answer
              /\ result.kind = "error" => Listening!TableDone({}, {query.family})
          BY <3>2 DEF Listening!FetchTable
        <4> HIDE DEF result
        <4>3. QED
          BY <4>1, <4>2
      <3>3. QED
        BY <1>8, <3>1, <3>2
    <2>3. QED
      BY <1>3, <1>5, <1>6, <2>1, <2>2
  <1>9. CASE Listening!SsFails \/ Listening!Return
    <2>1. answer'.kind # "list" /\ (answer' # Listening!NoAnswer => query'.pc = "idle")
      BY <1>5, <1>9, PortsIdle DEF Listening!SsFails, Listening!AnswerError, Listening!Return
    <2>2. QED
      BY <1>3, <2>1
  <1>10. CASE \/ \E os \in {"windows", "linux"} : Listening!Begin(os)
              \/ Listening!ProbeTable
              \/ \E open \in SUBSET PIDs : Listening!BuildServicePIDMap(open)
              \/ \E shown \in SUBSET host.sockets : Listening!Ss(shown)
              \/ \E l \in query.todo : Listening!Describe(l)
              \/ Listening!Change
    <2>1. answer' = answer /\ answer = Listening!NoAnswer
      BY <1>7, <1>10 DEF Listening!Begin, Listening!ProbeTable, Listening!BuildServicePIDMap,
         Listening!Ss, Listening!Describe, Listening!Change
    <2>2. QED
      BY <1>3, <1>5, <2>1
  <1>11. QED
    BY <1>2, <1>4, <1>8, <1>9, <1>10 DEF Listening!Next

LEMMA PortsPromises == PluginSpec => [](plugin = "ports" => PortsPromise)
  <1>1. PluginInit => (plugin = "ports" => PortsPromise)
    <2>1. Listening!Init => PortsPromise
      BY PortsIdle DEF Listening!Init, Listening!NoAnswer, Listening!PortsInvariant, PortsPromise,
         Listening!EveryListenerIsListed, Listening!RecordsAreTrue
    <2>2. QED
      BY <2>1, PluginStart
  <1>2. (plugin = "ports" => PortsPromise) /\ [PluginNext]_<<plugin, vars>>
          => (plugin = "ports" => PortsPromise)'
    BY PluginStep, PortsPromised
  <1>3. QED
    BY <1>1, <1>2, PTL DEF PluginSpec

\* A socket that listens all along is in the list, unless the table of its family could not
\* be read (collectListeningPorts of both systems).
THEOREM ListenersAreListed == PluginSpec => []EveryListenerIsListed
  <1>1. (plugin = "ports" => PortsPromise) => EveryListenerIsListed
    BY DEF PortsPromise, EveryListenerIsListed
  <1>2. QED
    BY <1>1, PortsPromises, PTL

\* Every record is of a socket that was open and of the process that has its number, unless
\* the number changed hands, and no two records have one port, process number and name.
THEOREM PortRecordsAreTrue == PluginSpec => []RecordsAreTrue
  <1>1. (plugin = "ports" => PortsPromise) => RecordsAreTrue
    BY DEF PortsPromise, RecordsAreTrue
  <1>2. QED
    BY <1>1, PortsPromises, PTL

-----------------------------------------------------------------------------
\* The recurring events.

LEMMA EventsCount ==
  /\ \A S : Events!Cardinality(S) = Cardinality(S)
  /\ \A S : Events!IsFiniteSet(S) <=> IsFiniteSet(S)
  BY DEF Events!Cardinality, Cardinality, Events!IsFiniteSet, IsFiniteSet

LEMMA EventsIdle ==
  /\ DOMAIN Events!Idle = {"pc", "period", "maxEvents", "minCount", "rules", "todo", "found",
                           "out", "read"}
  /\ Events!Idle.pc = "idle" /\ Events!Idle.found = {} /\ Events!Idle.read = <<>>
  BY DEF Events!Idle

\* A log has finitely many events, each of an age; so has a part of it.
LEMMA LogsAreFinite ==
  ASSUME NEW events, Events!IsLog(events), NEW places \in SUBSET DOMAIN events
  PROVE  /\ DOMAIN events \subseteq Nat /\ IsFiniteSet(places) /\ Cardinality(places) \in Nat
         /\ \A i \in DOMAIN events : events[i].age \in Nat /\ events[i].sig \in Signatures
         /\ \A s : /\ Events!Count(events, places, s) \in Nat
                   /\ Events!Count(events, places, s) > 0 <=> \E i \in places : events[i].sig = s
  <1>1. DOMAIN events = 1 .. Len(events) /\ Len(events) \in Nat
    BY DEF Events!IsLog
  <1>2. IsFiniteSet(DOMAIN events)
    BY <1>1, FS_Interval
  <1>3. IsFiniteSet(places) /\ Cardinality(places) \in Nat
    BY <1>2, FS_Subset, FS_CardinalityType
  <1>4. \A i \in DOMAIN events : events[i].age \in Nat /\ events[i].sig \in Signatures
    <2>1. events \in Seq(Events!Dated)
      BY DEF Events!IsLog
    <2>2. \A e \in Events!Dated : e.age \in Nat /\ e.sig \in Signatures
      BY EventsAssumption DEF Events!AgesAndLimits, Events!Dated
    <2>3. \A i \in DOMAIN events : events[i] \in Events!Dated
      BY <2>1
    <2>4. QED
      BY <2>2, <2>3
  <1>5. ASSUME NEW s
        PROVE  /\ Events!Count(events, places, s) \in Nat
               /\ Events!Count(events, places, s) > 0 <=> \E i \in places : events[i].sig = s
    <2> DEFINE those == {i \in places : events[i].sig = s}
    <2>1. Events!Count(events, places, s) = Cardinality(those)
      BY EventsCount DEF Events!Count
    <2>2. IsFiniteSet(those) /\ Cardinality(those) \in Nat
      BY <1>3, FS_Subset, FS_CardinalityType
    <2>3. Cardinality(those) = 0 <=> those = {}
      BY <2>2, FS_EmptySet
    <2>4. QED
      BY <2>1, <2>2, <2>3
  <1>6. QED
    BY <1>1, <1>3, <1>4, <1>5

LEMMA CountIsMonotonic ==
  ASSUME NEW events, Events!IsLog(events), NEW few, NEW many,
         few \subseteq many, many \subseteq DOMAIN events, NEW s
  PROVE  Events!Count(events, few, s) <= Events!Count(events, many, s)
  <1> DEFINE f == {i \in few : events[i].sig = s}
             m == {i \in many : events[i].sig = s}
  <1>1. IsFiniteSet(many)
    BY LogsAreFinite
  <1>2. IsFiniteSet(m) /\ f \subseteq m
    BY <1>1, FS_Subset
  <1>3. Cardinality(f) <= Cardinality(m)
    BY <1>2, FS_Subset
  <1>4. QED
    BY <1>3, EventsCount DEF Events!Count

\* -MaxEvents cuts nothing of what is no more than that.
LEMMA NewestOfFew ==
  ASSUME NEW events, Events!IsLog(events), NEW places \in SUBSET DOMAIN events,
         NEW n \in Nat, Cardinality(places) <= n
  PROVE  Events!Newest(places, n) = places
  <1> SUFFICES ASSUME NEW i \in places PROVE Cardinality({j \in places : j > i}) < n
    BY EventsCount DEF Events!Newest
  <1> DEFINE newer == {j \in places : j > i}
  <1>1. IsFiniteSet(places) /\ Cardinality(places) \in Nat /\ i \in Nat
    BY LogsAreFinite
  <1>2. newer \subseteq places /\ i \notin newer
    BY <1>1
  <1> HIDE DEF newer
  <1>3. newer # places
    BY <1>2
  <1>4. Cardinality(newer) < Cardinality(places) /\ Cardinality(newer) \in Nat
    BY <1>1, <1>2, <1>3, FS_Subset, FS_CardinalityType
  <1>5. QED
    BY <1>1, <1>4 DEF newer

\* The window, rounded down to minutes, is no longer than a period of a minute or more, and
\* has all that is no older than the period.
LEMMA WindowsAreRounded ==
  ASSUME NEW period \in Nat, NEW age \in Nat
  PROVE  /\ Events!Lookback(period) \in Nat
         /\ age * 60 <= period => age <= Events!Lookback(period)
         /\ period >= 60 /\ age <= Events!Lookback(period) => age * 60 <= period
  <1>1. PICK k \in Nat : k = period \div 60
    OBVIOUS
  <1>2. k * 60 <= period /\ period < (k + 1) * 60
    BY <1>1
  <1>3. Events!Lookback(period) = IF k <= 0 THEN DefaultLookback ELSE k
    BY <1>1 DEF Events!Lookback
  <1>4. DefaultLookback \in Nat
    BY EventsAssumption DEF Events!AgesAndLimits
  <1>5. CASE k <= 0
    <2>1. period < 60 /\ Events!Lookback(period) = DefaultLookback
      BY <1>2, <1>3, <1>5
    <2>2. QED
      BY <1>4, <2>1
  <1>6. CASE k > 0
    <2>1. Events!Lookback(period) = k
      BY <1>3, <1>6
    <2>2. QED
      BY <1>2, <2>1
  <1>7. QED
    BY <1>5, <1>6

\* The groups of a log are finitely many, one for each signature that was looked at.
LEMMA GroupsOfLog ==
  ASSUME NEW log, NEW events, Events!IsLog(events), NEW places \in SUBSET DOMAIN events
  PROVE  IsFiniteSet(Events!Groups(log, events, places))
  <1> DEFINE group(s) == [log |-> log, sig |-> s, count |-> Events!Count(events, places, s)]
             groups == Events!Groups(log, events, places)
             f == [i \in places |-> group(events[i].sig)]
  <1>1. IsFiniteSet(places)
    BY LogsAreFinite
  <1>2. f \in [places -> groups]
    BY DEF Events!Groups
  <1>3. ASSUME NEW g \in groups PROVE \E i \in places : f[i] = g
    <2>1. PICK i \in places : g = group(events[i].sig)
      BY <1>3 DEF Events!Groups
    <2>2. QED
      BY <2>1
  <1> HIDE DEF f, groups
  <1>4. f \in Surjection(places, groups)
    BY <1>2, <1>3 DEF Surjection
  <1>5. QED
    BY <1>1, <1>4, FS_Surjection DEF groups

LEMMA LookedAtPlaces ==
  ASSUME NEW q, NEW events
  PROVE  /\ Events!LookedAt(q, events) \in SUBSET Events!InWindow(events, q.period)
         /\ Events!LookedAt(q, events) \in SUBSET DOMAIN events
         /\ Events!InWindow(events, q.period) \in SUBSET DOMAIN events
  BY DEF Events!LookedAt, Events!Newest, Events!InWindow

LEMMA EventsBegin ==
  ASSUME NEW period \in Periods, NEW n \in 1 .. MaxLen, NEW minCount \in 1 .. MaxLen,
         NEW rules, Events!Begin(period, n, minCount, rules)
  PROVE  Events!EventsInvariant'
  <1>1. /\ answer = Events!NoAnswer /\ answer' = answer
        /\ query' = [Events!Idle EXCEPT !.pc = "read", !.period = period, !.maxEvents = n,
             !.minCount = minCount, !.rules = Events!ParseIgnoreRules(rules), !.todo = Logs]
    BY DEF Events!Begin
  <1>2. /\ DOMAIN query' = DOMAIN Events!Idle /\ query'.period = period /\ query'.maxEvents = n
        /\ query'.minCount = minCount /\ query'.todo = Logs /\ query'.found = {}
        /\ query'.read = <<>>
    BY <1>1, EventsIdle
  <1>3. /\ period \in Nat /\ n \in Nat \ {0} /\ minCount \in Nat \ {0}
    BY EventsAssumption DEF Events!AgesAndLimits
  <1>4. Events!ReadSoFar(query')
    <2>1. DOMAIN query'.read = {} /\ Events!IsFiniteSet({})
      BY <1>2, EventsCount, FS_EmptySet
    <2>2. QED
      BY <1>2, <1>3, <2>1 DEF Events!ReadSoFar
  <1>5. PICK logs \in [Logs -> Events!LogContents] : host' = [logs |-> logs, changes |-> 0]
    BY DEF Events!Begin
  <1>6. ASSUME NEW events \in Events!LogContents PROVE Events!IsLog(events)
    <2>1. PICK k \in 0 .. MaxLen : events \in [1 .. k -> Events!Dated]
      BY DEF Events!LogContents
    <2>2. k \in Nat
      OBVIOUS
    <2>3. events \in Seq(Events!Dated)
      BY <2>1, <2>2
    <2>4. QED
      BY <2>3 DEF Events!IsLog
  <1>7. QED
    BY <1>1, <1>2, <1>4, <1>5, <1>6 DEF Events!EventsInvariant

\* A log is read, or it is not.
LEMMA EventsRead ==
  ASSUME Events!EventsInvariant, NEW log \in Logs, Events!ReadLog(log) \/ Events!SkipLog(log)
  PROVE  Events!EventsInvariant'
  <1>1. /\ query.pc = "read" /\ log \in query.todo /\ host' = host /\ answer' = answer
        /\ answer = Events!NoAnswer /\ query.todo \subseteq Logs
        /\ DOMAIN host.logs = Logs /\ \A l \in Logs : Events!IsLog(host.logs[l])
        /\ Events!ReadSoFar(query)
    BY DEF Events!EventsInvariant, Events!ReadLog, Events!SkipLog
  <1>2. /\ DOMAIN query = DOMAIN Events!Idle
        /\ query.period \in Nat /\ query.maxEvents \in Nat \ {0} /\ query.minCount \in Nat \ {0}
        /\ query.todo \cap DOMAIN query.read = {}
        /\ \A l \in DOMAIN query.read : Events!IsLog(query.read[l])
        /\ query.found = UNION {Events!Groups(l, query.read[l], Events!LookedAt(query, query.read[l])) :
                                 l \in DOMAIN query.read}
        /\ IsFiniteSet(query.found)
    BY <1>1, EventsCount DEF Events!ReadSoFar
  <1>3. CASE Events!SkipLog(log)
    <2>1. query' = [query EXCEPT !.todo = @ \ {log}]
      BY <1>3 DEF Events!SkipLog
    <2>2. /\ DOMAIN query' = DOMAIN query /\ query'.period = query.period
          /\ query'.maxEvents = query.maxEvents /\ query'.minCount = query.minCount
          /\ query'.todo = query.todo \ {log} /\ query'.found = query.found
          /\ query'.read = query.read
      BY <1>2, <2>1, EventsIdle
    <2>3. \A events : Events!LookedAt(query', events) = Events!LookedAt(query, events)
      BY <2>2 DEF Events!LookedAt
    <2>4. Events!ReadSoFar(query')
      BY <1>2, <2>2, <2>3, EventsCount DEF Events!ReadSoFar
    <2>5. QED
      BY <1>1, <2>2, <2>4 DEF Events!EventsInvariant
  <1>4. CASE Events!ReadLog(log)
    <2> DEFINE events == host.logs[log]
               new == Events!Groups(log, events, Events!LookedAt(query, events))
               read == [l \in DOMAIN query.read \cup {log} |->
                          IF l = log THEN events ELSE query.read[l]]
               G(l) == Events!Groups(l, query.read[l], Events!LookedAt(query, query.read[l]))
               H(l) == Events!Groups(l, read[l], Events!LookedAt(query, read[l]))
    <2>1. query' = [query EXCEPT !.todo = @ \ {log}, !.found = @ \cup new, !.read = read]
      BY <1>4 DEF Events!ReadLog
    <2>2. /\ DOMAIN read = DOMAIN query.read \cup {log} /\ read[log] = events
          /\ \A l \in DOMAIN query.read : l # log /\ read[l] = query.read[l]
      BY <1>1, <1>2
    <2> HIDE DEF read, new
    <2>3. /\ DOMAIN query' = DOMAIN query /\ query'.period = query.period
          /\ query'.maxEvents = query.maxEvents /\ query'.minCount = query.minCount
          /\ query'.todo = query.todo \ {log} /\ query'.found = query.found \cup new
          /\ query'.read = read
      BY <1>2, <2>1, EventsIdle
    <2>4. \A x : Events!LookedAt(query', x) = Events!LookedAt(query, x)
      BY <2>3 DEF Events!LookedAt
    <2>5. Events!IsLog(events) /\ \A l \in DOMAIN read : Events!IsLog(read[l])
      BY <1>1, <1>2, <2>2
    <2>6. IsFiniteSet(new)
      BY <2>5, GroupsOfLog, LookedAtPlaces DEF new
    <2>7. query.found \cup new = UNION {H(l) : l \in DOMAIN read}
      <3>1. H(log) = new
        BY <2>2 DEF new
      <3>2. \A l \in DOMAIN query.read : H(l) = G(l)
        BY <2>2
      <3>3. query.found = UNION {G(l) : l \in DOMAIN query.read}
        BY <1>2
      <3> HIDE DEF G, H
      <3>4. QED
        BY <2>2, <3>1, <3>2, <3>3
    <2>8. Events!ReadSoFar(query')
      <3>1. IsFiniteSet(query'.found)
        <4>1. IsFiniteSet(query.found)
          BY <1>2
        <4>2. IsFiniteSet(query.found \cup new)
          BY <2>6, <4>1, FS_Union
        <4>3. QED
          BY <2>3, <4>2
      <3>2. query'.todo \cap DOMAIN query'.read = {}
        BY <1>2, <2>2, <2>3
      <3>3. query'.found = UNION {Events!Groups(l, query'.read[l],
                                    Events!LookedAt(query', query'.read[l])) : l \in DOMAIN query'.read}
        BY <2>3, <2>4, <2>7
      <3>4. QED
        BY <1>2, <2>3, <2>5, <3>1, <3>2, <3>3, EventsCount DEF Events!ReadSoFar
    <2>9. QED
      BY <1>1, <2>3, <2>8 DEF Events!EventsInvariant
  <1>5. QED
    BY <1>3, <1>4

\* An event is written.
LEMMA EventsWrite ==
  ASSUME Events!EventsInvariant, NEW log \in Logs, NEW s \in Signatures, Events!Write(log, s)
  PROVE  Events!EventsInvariant'
  <1>1. /\ query.pc = "read" /\ query' = query /\ answer' = answer
        /\ answer = Events!NoAnswer /\ query.todo \subseteq Logs
        /\ DOMAIN host.logs = Logs /\ \A l \in Logs : Events!IsLog(host.logs[l])
        /\ Events!ReadSoFar(query)
    BY DEF Events!EventsInvariant, Events!Write
  <1> DEFINE event == [sig |-> s, age |-> 0]
             events == Append(host.logs[log], event)
             kept == IF Len(events) > MaxLen THEN Tail(events) ELSE events
  <1>2. host' = [logs |-> [host.logs EXCEPT ![log] = kept], changes |-> host.changes + 1]
    BY DEF Events!Write
  <1>3. event \in Events!Dated
    BY DEF Events!Dated
  <1>4. host.logs[log] \in Seq(Events!Dated)
    BY <1>1 DEF Events!IsLog
  <1> HIDE DEF event
  <1>5. events \in Seq(Events!Dated) /\ Len(events) = Len(host.logs[log]) + 1
    BY <1>3, <1>4
  <1>6. Len(host.logs[log]) \in Nat
    BY <1>4
  <1> HIDE DEF events
  <1>7. kept \in Seq(Events!Dated)
    <2>1. events # <<>>
      BY <1>5, <1>6
    <2>2. Tail(events) \in Seq(Events!Dated)
      BY <1>5, <2>1
    <2>3. QED
      BY <1>5, <2>2
  <1>8. Events!IsLog(kept)
    BY <1>7 DEF Events!IsLog
  <1> HIDE DEF kept
  <1>9. DOMAIN host'.logs = Logs /\ \A l \in Logs : Events!IsLog(host'.logs[l])
    BY <1>1, <1>2, <1>8
  <1>10. QED
    BY <1>1, <1>9 DEF Events!EventsInvariant

LEMMA EventsNext ==
  Events!EventsInvariant /\ [Events!Next]_(Events!vars) => Events!EventsInvariant'
  <1>1. ASSUME Events!EventsInvariant,
               Events!Finish \/ Events!CollectorFails \/ Events!Return
        PROVE  Events!EventsInvariant'
    <2>1. query'.pc = "idle"
      BY <1>1, EventsIdle DEF Events!Finish, Events!CollectorFails, Events!Return,
         Events!EventsInvariant
    <2>2. QED
      BY <2>1 DEF Events!EventsInvariant
  <1>2. Events!EventsInvariant /\ UNCHANGED Events!vars => Events!EventsInvariant'
    BY DEF Events!vars, Events!EventsInvariant
  <1>3. QED
    BY <1>1, <1>2, EventsBegin, EventsRead, EventsWrite DEF Events!Next

-----------------------------------------------------------------------------
\* What the limit on groups leaves.
LEMMA MostFrequentGroups ==
  ASSUME NEW groups, IsFiniteSet(groups), NEW out \in Events!MostFrequent(groups)
  PROVE  /\ out \subseteq groups /\ Cardinality(out) <= MaxGroups
         /\ out = groups
            \/ (Cardinality(out) = MaxGroups /\ \A k \in out, g \in groups \ out : k.count >= g.count)
  <1>1. /\ out \in SUBSET groups
        /\ Cardinality(out) = (IF Cardinality(groups) > MaxGroups THEN MaxGroups
                              ELSE Cardinality(groups))
        /\ \A k \in out, g \in groups \ out : k.count >= g.count
    BY EventsCount DEF Events!MostFrequent
  <1>2. Cardinality(groups) \in Nat /\ MaxGroups \in Nat
    BY EventsAssumption, FS_CardinalityType DEF Events!AgesAndLimits
  <1>3. CASE Cardinality(groups) > MaxGroups
    BY <1>1, <1>2, <1>3
  <1>4. CASE ~(Cardinality(groups) > MaxGroups)
    <2>1. Cardinality(groups) = Cardinality(out) /\ Cardinality(out) <= MaxGroups
      BY <1>1, <1>2, <1>4
    <2>2. groups = out
      BY <1>1, <2>1, FS_Subset
    <2>3. QED
      BY <2>1, <2>2
  <1>5. QED
    BY <1>3, <1>4

\* What is recent is in the window; of a period of a minute or more, the window has nothing
\* else.
LEMMA RecentIsInWindow ==
  ASSUME NEW q, q.period \in Nat, NEW log \in DOMAIN q.read, Events!IsLog(q.read[log])
  PROVE  /\ Events!Recent(q, log) \in SUBSET Events!InWindow(q.read[log], q.period)
         /\ q.period >= 60 => Events!InWindow(q.read[log], q.period) \in SUBSET Events!Recent(q, log)
  <1> DEFINE events == q.read[log]
  <1>1. \A i \in DOMAIN events : events[i].age \in Nat
    BY LogsAreFinite
  <1>2. ASSUME NEW i \in DOMAIN events
        PROVE  /\ events[i].age * 60 <= q.period => events[i].age <= Events!Lookback(q.period)
               /\ q.period >= 60 /\ events[i].age <= Events!Lookback(q.period)
                    => events[i].age * 60 <= q.period
    BY <1>1, WindowsAreRounded
  <1>3. QED
    BY <1>2 DEF Events!Recent, Events!InWindow

LEMMA EventsAnswers ==
  ASSUME Events!EventsInvariant, Events!Finish
  PROVE  (Events!RecurringIsListed /\ Events!ListedRecurs)'
  <1>1. query.pc = "read" /\ Events!ReadSoFar(query)
    BY DEF Events!Finish, Events!EventsInvariant
  <1>2. /\ DOMAIN query = DOMAIN Events!Idle
        /\ query.period \in Nat /\ query.maxEvents \in Nat \ {0} /\ query.minCount \in Nat \ {0}
        /\ \A l \in DOMAIN query.read : Events!IsLog(query.read[l])
        /\ query.found = UNION {Events!Groups(l, query.read[l], Events!LookedAt(query, query.read[l])) :
                                 l \in DOMAIN query.read}
        /\ IsFiniteSet(query.found)
    BY <1>1, EventsCount DEF Events!ReadSoFar
  <1>3. PICK out \in Events!Selections(query) :
          answer' = [kind |-> "list", query |-> [query EXCEPT !.out = out, !.found = {}]]
    BY DEF Events!Finish
  <1> DEFINE q == answer'.query
             groups == {g \in query.found : g.count >= query.minCount
                                            /\ ~Events!IsIgnored(g.sig, query.rules)}
  <1>4. /\ q.out = out /\ q.read = query.read /\ q.period = query.period /\ q.rules = query.rules
        /\ q.maxEvents = query.maxEvents /\ q.minCount = query.minCount
    BY <1>2, <1>3, EventsIdle
  <1>5. /\ out \subseteq groups /\ Cardinality(out) <= MaxGroups
        /\ out = groups
            \/ (Cardinality(out) = MaxGroups /\ \A k \in out, g \in groups \ out : k.count >= g.count)
    <2>1. IsFiniteSet(groups)
      BY <1>2, FS_Subset
    <2>2. out \in Events!MostFrequent(groups)
      BY DEF Events!Selections
    <2>3. QED
      BY <2>1, <2>2, MostFrequentGroups
  <1>6. ASSUME NEW log \in DOMAIN query.read, NEW s
        PROVE  /\ Events!Recent(q, log) \in SUBSET Events!InWindow(query.read[log], query.period)
               /\ query.period >= 60 => Events!InWindow(query.read[log], query.period)
                                           \in SUBSET Events!Recent(q, log)
               /\ Events!Occurrences(q, log, s)
                    = Events!Count(query.read[log], Events!Recent(q, log), s)
    BY <1>2, <1>4, RecentIsInWindow DEF Events!Occurrences
  <1>7. \A g \in query.found : \E l \in DOMAIN query.read : \E s :
          g = [log |-> l, sig |-> s,
               count |-> Events!Count(query.read[l], Events!LookedAt(query, query.read[l]), s)]
    BY <1>2 DEF Events!Groups
  <1> HIDE DEF q
  <1>8. Events!RecurringIsListed'
    <2> SUFFICES ASSUME NEW log \in DOMAIN query.read, NEW s \in Signatures,
                        Events!Occurrences(q, log, s) >= query.minCount,
                        ~Events!IsIgnored(s, query.rules),
                        Cardinality(Events!InWindow(query.read[log], query.period)) <= query.maxEvents
                 PROVE  \/ \E g \in out : g.log = log /\ g.sig = s
                                         /\ g.count >= Events!Occurrences(q, log, s)
                        \/ /\ Cardinality(out) = MaxGroups
                           /\ \A g \in out : g.count >= Events!Occurrences(q, log, s)
      BY <1>3, <1>4, EventsCount DEF Events!RecurringIsListed, q
    <2> DEFINE events == query.read[log]
               window == Events!InWindow(events, query.period)
               n == Events!Count(events, window, s)
               g == [log |-> log, sig |-> s, count |-> n]
    <2>1. Events!IsLog(events) /\ window \in SUBSET DOMAIN events
      BY <1>2, LookedAtPlaces
    <2>2. Events!LookedAt(query, events) = window
      BY <1>2, <2>1, NewestOfFew DEF Events!LookedAt
    <2>3. n \in Nat /\ n >= Events!Occurrences(q, log, s) /\ Events!Occurrences(q, log, s) \in Nat
      <3>1. Events!Recent(q, log) \in SUBSET DOMAIN events
        BY <1>6, <2>1
      <3>2. Events!Count(events, Events!Recent(q, log), s) \in Nat /\ n \in Nat
        BY <2>1, <3>1, LogsAreFinite
      <3>3. Events!Count(events, Events!Recent(q, log), s) <= n
        BY <1>6, <2>1, CountIsMonotonic
      <3>4. QED
        BY <1>6, <3>2, <3>3
    <2>4. \E i \in window : events[i].sig = s
      <3>1. n > 0
        BY <1>2, <2>3
      <3>2. QED
        BY <2>1, <3>1, LogsAreFinite
    <2>5. g \in Events!Groups(log, events, Events!LookedAt(query, events))
      BY <2>2, <2>4 DEF Events!Groups
    <2>6. g \in query.found
      BY <1>2, <2>5
    <2>7. g.log = log /\ g.sig = s /\ g.count = n
      OBVIOUS
    <2> HIDE DEF g, n
    <2>8. g \in groups
      BY <1>2, <2>3, <2>6, <2>7
    <2>9. CASE g \in out
      BY <2>3, <2>7, <2>9
    <2>10. CASE g \notin out
      <3>1. Cardinality(out) = MaxGroups /\ \A k \in out : k.count >= n
        BY <1>5, <2>7, <2>8, <2>10
      <3>2. \A k \in out : k.count \in Nat
        <4>1. SUFFICES ASSUME NEW k \in out PROVE k.count \in Nat
          OBVIOUS
        <4>2. PICK l \in DOMAIN query.read : \E t : k = [log |-> l, sig |-> t,
                count |-> Events!Count(query.read[l], Events!LookedAt(query, query.read[l]), t)]
          BY <1>5, <1>7
        <4>3. \A t : Events!Count(query.read[l], Events!LookedAt(query, query.read[l]), t) \in Nat
          BY <1>2, LogsAreFinite, LookedAtPlaces
        <4>4. QED
          BY <4>2, <4>3
      <3>3. QED
        BY <2>3, <3>1, <3>2
    <2>11. QED
      BY <2>9, <2>10
  <1>9. Events!ListedRecurs'
    <2>1. ASSUME NEW g \in out
          PROVE  /\ g.count >= query.minCount /\ ~Events!IsIgnored(g.sig, query.rules)
                 /\ g.log \in DOMAIN query.read
                 /\ query.period >= 60 => g.count <= Events!Occurrences(q, g.log, g.sig)
      <3>1. /\ g \in query.found /\ g.count >= query.minCount
            /\ ~Events!IsIgnored(g.sig, query.rules)
        BY <1>5
      <3>2. PICK l \in DOMAIN query.read : \E s : g = [log |-> l, sig |-> s,
              count |-> Events!Count(query.read[l], Events!LookedAt(query, query.read[l]), s)]
        BY <1>7, <3>1
      <3> DEFINE looked == Events!LookedAt(query, query.read[l])
      <3>3. g.log = l /\ g.count = Events!Count(query.read[l], looked, g.sig)
        BY <3>2
      <3>4. Events!IsLog(query.read[l]) /\ looked \in SUBSET Events!InWindow(query.read[l], query.period)
        BY <1>2, LookedAtPlaces
      <3> HIDE DEF looked
      <3>5. ASSUME query.period >= 60 PROVE g.count <= Events!Occurrences(q, l, g.sig)
        <4>1. looked \subseteq Events!Recent(q, l) /\ Events!Recent(q, l) \subseteq DOMAIN query.read[l]
          BY <1>6, <3>4, <3>5, LookedAtPlaces
        <4>2. Events!Count(query.read[l], looked, g.sig)
                <= Events!Count(query.read[l], Events!Recent(q, l), g.sig)
          BY <3>4, <4>1, CountIsMonotonic
        <4>3. QED
          BY <1>6, <3>3, <4>2
      <3>6. QED
        BY <3>1, <3>3, <3>5
    <2>2. \A g, h \in out : g.log = h.log /\ g.sig = h.sig => g = h
      <3> SUFFICES ASSUME NEW g \in out, NEW h \in out, g.log = h.log, g.sig = h.sig PROVE g = h
        OBVIOUS
      <3>1. PICK l \in DOMAIN query.read : \E s : g = [log |-> l, sig |-> s,
              count |-> Events!Count(query.read[l], Events!LookedAt(query, query.read[l]), s)]
        BY <1>5, <1>7
      <3>2. PICK m \in DOMAIN query.read : \E s : h = [log |-> m, sig |-> s,
              count |-> Events!Count(query.read[m], Events!LookedAt(query, query.read[m]), s)]
        BY <1>5, <1>7
      <3>3. l = m
        BY <3>1, <3>2
      <3>4. QED
        BY <3>1, <3>2, <3>3
    <2>3. QED
      BY <1>3, <1>4, <1>5, <2>1, <2>2, EventsCount DEF Events!ListedRecurs, q
  <1>10. QED
    BY <1>8, <1>9

EventsPromise ==
  /\ Events!EventsInvariant
  /\ Events!RecurringIsListed /\ Events!ListedRecurs

LEMMA EventsPromised == EventsPromise /\ [Events!Next]_(Events!vars) => EventsPromise'
  <1> SUFFICES ASSUME EventsPromise, [Events!Next]_(Events!vars)
               PROVE  (Events!RecurringIsListed /\ Events!ListedRecurs)'
    BY EventsNext DEF EventsPromise
  <1>1. CASE Events!Finish
    BY <1>1, EventsAnswers DEF EventsPromise
  <1>2. CASE answer' = answer
    BY <1>2 DEF EventsPromise, Events!RecurringIsListed, Events!ListedRecurs
  <1>3. CASE Events!CollectorFails \/ Events!Return
    <2>1. answer'.kind \in {"error", "none"}
      BY <1>3 DEF Events!CollectorFails, Events!Return, Events!NoAnswer
    <2>2. QED
      BY <2>1 DEF Events!RecurringIsListed, Events!ListedRecurs
  <1>4. QED
    BY <1>1, <1>2, <1>3 DEF Events!Next, Events!vars, Events!Begin, Events!ReadLog,
       Events!SkipLog, Events!Write

LEMMA EventsPromises == PluginSpec => [](plugin = "events" => EventsPromise)
  <1>1. PluginInit => (plugin = "events" => EventsPromise)
    <2>1. Events!Init => EventsPromise
      BY EventsIdle DEF Events!Init, Events!NoAnswer, Events!EventsInvariant,
         Events!RecurringIsListed, Events!ListedRecurs, EventsPromise
    <2>2. QED
      BY <2>1, PluginStart
  <1>2. (plugin = "events" => EventsPromise) /\ [PluginNext]_<<plugin, vars>>
          => (plugin = "events" => EventsPromise)'
    BY PluginStep, EventsPromised
  <1>3. QED
    BY <1>1, <1>2, PTL DEF PluginSpec

\* An error that recurs in the period is listed, unless it is ignored, the log has more
\* events than are looked at, or others as frequent take all the room (FindRecurringEvents).
THEOREM RecurringErrorsAreListed == PluginSpec => []RecurringIsListed
  <1>1. (plugin = "events" => EventsPromise) => RecurringIsListed
    BY DEF EventsPromise, RecurringIsListed
  <1>2. QED
    BY <1>1, EventsPromises, PTL

\* A listed error recurs as often as is said in the period, if that is a minute or more, and
\* has one entry per log.
THEOREM ListedErrorsRecur == PluginSpec => []ListedRecurs
  <1>1. (plugin = "events" => EventsPromise) => ListedRecurs
    BY DEF EventsPromise, ListedRecurs
  <1>2. QED
    BY <1>1, EventsPromises, PTL

-----------------------------------------------------------------------------
\* The network connections.

LEMMA MapIdle ==
  /\ DOMAIN Connections!Idle = {"pc", "os", "nets", "read", "listening", "openPorts", "incoming",
                                "outgoing", "rows", "steady", "ever"}
  /\ Connections!Idle.pc = "idle"
  BY DEF Connections!Idle

\* Aggregate counts every row, once, in the direction of its port.
LEMMA AggregateCounts ==
  ASSUME NEW q, DOMAIN q = DOMAIN Connections!Idle, NEW rows \in SUBSET Connections!Connections
  PROVE  LET r == Connections!Aggregate(q, rows)
             in == {s \in rows : s.port \in q.listening}
         IN /\ DOMAIN r = DOMAIN q /\ r.rows = rows /\ r.os = q.os /\ r.nets = q.nets
            /\ r.steady = q.steady /\ r.ever = q.ever
            /\ Connections!CountEach(r.incoming, in, Connections!IncomingKey)
            /\ Connections!CountEach(r.outgoing, rows \ in, Connections!OutgoingKey)
  <1> DEFINE r == Connections!Aggregate(q, rows)
             in == {s \in rows : s.port \in q.listening}
  <1>1. r = [q EXCEPT !.incoming = Connections!Counts(in, Connections!IncomingKey),
                      !.outgoing = Connections!Counts(rows \ in, Connections!OutgoingKey),
                      !.rows = rows]
    BY DEF Connections!Aggregate, Connections!IsIncoming
  <1>2. ASSUME NEW those, NEW key
        PROVE  Connections!CountEach(Connections!Counts(those, key), those, key)
    <2> DEFINE counts == Connections!Counts(those, key)
               number(k) == Connections!Cardinality({t \in those : key[t] = k})
    <2>1. counts = {<<key[s], number(key[s])>> : s \in those}
      BY DEF Connections!Counts
    <2> HIDE DEF number, counts
    <2>2. {c[1] : c \in counts} = {key[s] : s \in those}
      <3>1. \A c \in counts : c[1] \in {key[s] : s \in those}
        BY <2>1
      <3>2. ASSUME NEW s \in those PROVE key[s] \in {c[1] : c \in counts}
        <4>1. <<key[s], number(key[s])>> \in counts
          BY <2>1
        <4>2. <<key[s], number(key[s])>>[1] = key[s]
          OBVIOUS
        <4>3. QED
          BY <4>1, <4>2
      <3>3. QED
        BY <3>1, <3>2
    <2>3. \A c \in counts : c[2] = number(c[1])
      BY <2>1
    <2>4. QED
      BY <2>2, <2>3 DEF Connections!CountEach, number, counts
  <1> HIDE DEF in
  <1>3. /\ r.incoming = Connections!Counts(in, Connections!IncomingKey)
        /\ r.outgoing = Connections!Counts(rows \ in, Connections!OutgoingKey)
        /\ DOMAIN r = DOMAIN q /\ r.rows = rows /\ r.os = q.os /\ r.nets = q.nets
        /\ r.steady = q.steady /\ r.ever = q.ever
    BY <1>1, MapIdle
  <1>4. QED
    BY <1>2, <1>3 DEF in

LEMMA MapBegin ==
  ASSUME NEW os \in {"windows", "linux"}, NEW given, Connections!Begin(os, given)
  PROVE  Connections!MapInvariant'
  <1>1. /\ host' \in Connections!Hosts /\ answer = Connections!NoAnswer /\ answer' = answer
        /\ query' = [Connections!Idle EXCEPT !.os = os,
             !.pc = IF os = "windows" THEN "probe" ELSE "listeners",
             !.nets = Connections!ParseInternalNets(given),
             !.steady = host'.sockets, !.ever = host'.sockets]
    BY DEF Connections!Begin
  <1>2. /\ DOMAIN query' = DOMAIN Connections!Idle /\ query'.os = os
        /\ query'.pc = (IF os = "windows" THEN "probe" ELSE "listeners")
        /\ query'.steady = host'.sockets /\ query'.ever = host'.sockets
    BY <1>1, MapIdle
  <1>3. host'.sockets \subseteq Connections!Sockets
    BY <1>1 DEF Connections!Hosts
  <1>4. QED
    BY <1>1, <1>2, <1>3 DEF Connections!MapInvariant

\* The listeners are read from /proc/net/tcp: they are those of this moment.
LEMMA MapListeners ==
  ASSUME Connections!MapInvariant,
         Connections!CollectListeningPorts \/ Connections!CollectUDP \/ Connections!ProbeTable
  PROVE  Connections!MapInvariant'
  <1>1. /\ query.pc # "idle" /\ host' = host /\ answer' = answer
        /\ answer = Connections!NoAnswer /\ DOMAIN query = DOMAIN Connections!Idle
        /\ host.sockets \subseteq Connections!Sockets
        /\ query.steady \subseteq host.sockets /\ host.sockets \subseteq query.ever
    BY DEF Connections!MapInvariant, Connections!CollectListeningPorts, Connections!CollectUDP,
       Connections!ProbeTable
  <1>2. CASE Connections!CollectListeningPorts
    <2> DEFINE ports == Connections!PortsOf({s \in Connections!TCP : s.state = "listen"})
    <2>1. /\ query' = [query EXCEPT !.pc = "udp", !.listening = ports, !.openPorts = ports]
          /\ query.os = "linux"
      BY <1>2 DEF Connections!CollectListeningPorts, Connections!MapInvariant
    <2>2. \A port : port \in ports <=> Connections!Listens("linux", host.sockets, port)
      BY DEF Connections!PortsOf, Connections!TCP, Connections!Listens
    <2>3. \A port : /\ Connections!Listens("linux", query.steady, port) => port \in ports
                    /\ port \in ports => Connections!Listens("linux", query.ever, port)
      BY <1>1, <2>2 DEF Connections!Listens
    <2> HIDE DEF ports
    <2>4. /\ DOMAIN query' = DOMAIN query /\ query'.pc = "udp" /\ query'.os = "linux"
          /\ query'.listening = ports /\ query'.steady = query.steady /\ query'.ever = query.ever
      BY <1>1, <2>1, MapIdle
    <2>5. QED
      BY <1>1, <2>3, <2>4 DEF Connections!MapInvariant
  <1>3. CASE Connections!CollectUDP
    <2>1. PICK ports : query' = [query EXCEPT !.pc = "connections", !.openPorts = @ \cup ports]
      BY <1>3 DEF Connections!CollectUDP
    <2>2. query.pc = "udp"
      BY <1>3 DEF Connections!CollectUDP
    <2>3. /\ DOMAIN query' = DOMAIN query /\ query'.pc = "connections" /\ query'.os = query.os
          /\ query'.listening = query.listening
          /\ query'.steady = query.steady /\ query'.ever = query.ever
      BY <1>1, <2>1, MapIdle
    <2>4. QED
      BY <1>1, <2>2, <2>3 DEF Connections!MapInvariant
  <1>4. CASE Connections!ProbeTable
    <2>1. query.pc = "probe" /\ query' = [query EXCEPT !.pc = "fetch",
            !.read = Connections!Probe(query.read, Connections!TCP)]
      BY <1>1, <1>4, MapIdle DEF Connections!ProbeTable
    <2>2. /\ DOMAIN query' = DOMAIN query /\ query'.pc = "fetch" /\ query'.os = query.os
          /\ query'.listening = query.listening
          /\ query'.steady = query.steady /\ query'.ever = query.ever
      BY <1>1, <2>1, MapIdle
    <2>3. QED
      BY <1>1, <2>1, <2>2 DEF Connections!MapInvariant
  <1>5. QED
    BY <1>2, <1>3, <1>4

\* A socket opens or closes.
LEMMA MapChange ==
  ASSUME Connections!MapInvariant, Connections!Change
  PROVE  Connections!MapInvariant'
  <1>1. /\ query.pc # "idle" /\ answer' = answer
        /\ answer = Connections!NoAnswer /\ DOMAIN query = DOMAIN Connections!Idle
        /\ host.sockets \subseteq Connections!Sockets
        /\ query.steady \subseteq host.sockets /\ host.sockets \subseteq query.ever
    BY DEF Connections!MapInvariant, Connections!Change
  <1>2. host'.sockets \subseteq Connections!Sockets
    BY <1>1 DEF Connections!Change
  <1>3. query' = [query EXCEPT !.steady = @ \cap host'.sockets, !.ever = @ \cup host'.sockets]
    BY DEF Connections!Change
  <1>4. /\ DOMAIN query' = DOMAIN query /\ query'.pc = query.pc /\ query'.os = query.os
        /\ query'.listening = query.listening
        /\ query'.steady = query.steady \cap host'.sockets
        /\ query'.ever = query.ever \cup host'.sockets
    BY <1>1, <1>3, MapIdle
  <1>5. \A os, port :
          /\ Connections!Listens(os, query'.steady, port) => Connections!Listens(os, query.steady, port)
          /\ Connections!Listens(os, query.ever, port) => Connections!Listens(os, query'.ever, port)
    BY <1>4 DEF Connections!Listens
  <1>6. QED
    BY <1>1, <1>2, <1>4, <1>5 DEF Connections!MapInvariant

LEMMA MapNext ==
  Connections!MapInvariant /\ [Connections!Next]_(Connections!vars) => Connections!MapInvariant'
  <1> SUFFICES ASSUME Connections!MapInvariant, [Connections!Next]_(Connections!vars)
               PROVE  Connections!MapInvariant'
    OBVIOUS
  <1>1. CASE query' = Connections!Idle
    BY <1>1, MapIdle DEF Connections!MapInvariant
  <1>2. CASE Connections!FetchTable
    <2>1. \/ query' = Connections!Idle
          \/ /\ query.pc = "fetch" /\ query' = [query EXCEPT !.pc = "probe"]
             /\ UNCHANGED <<host, answer>>
      BY <1>2 DEF Connections!FetchTable, Connections!Reply, Connections!AnswerError
    <2>2. CASE /\ query.pc = "fetch" /\ query' = [query EXCEPT !.pc = "probe"]
               /\ UNCHANGED <<host, answer>>
      <3>1. DOMAIN query = DOMAIN Connections!Idle
        BY <2>2 DEF Connections!MapInvariant
      <3>2. /\ DOMAIN query' = DOMAIN query /\ query'.pc = "probe" /\ query'.os = query.os
            /\ query'.steady = query.steady /\ query'.ever = query.ever
        BY <2>2, <3>1, MapIdle
      <3>3. QED
        BY <2>2, <3>2 DEF Connections!MapInvariant
    <2>3. QED
      BY <1>1, <2>1, <2>2
  <1>3. CASE Connections!CollectTcpConnected \/ Connections!ReadFails \/ Connections!TableFails
    BY <1>1, <1>3 DEF Connections!CollectTcpConnected, Connections!Reply, Connections!ReadFails,
       Connections!TableFails, Connections!AnswerError
  <1>4. CASE Connections!Return
    <2>1. query' = query /\ answer # Connections!NoAnswer
      BY <1>4 DEF Connections!Return
    <2>2. query'.pc = "idle"
      BY <2>1 DEF Connections!MapInvariant
    <2>3. QED
      BY <2>2 DEF Connections!MapInvariant
  <1>5. CASE UNCHANGED Connections!vars
    BY <1>5 DEF Connections!vars, Connections!MapInvariant
  <1>6. QED
    BY <1>2, <1>3, <1>4, <1>5, MapBegin, MapListeners, MapChange DEF Connections!Next

-----------------------------------------------------------------------------
\* What is answered, of the connections of one moment and listeners of the same moment or an
\* earlier one.
LEMMA MapIsRight ==
  ASSUME Connections!MapInvariant, query.pc # "idle", NEW q, DOMAIN q = DOMAIN Connections!Idle,
         q.os = query.os, q.nets = query.nets, q.steady = query.steady, q.ever = query.ever,
         \A s \in Connections!Sockets :
           /\ Connections!Listens(q.os, q.steady, s.port) => s.port \in q.listening
           /\ s.port \in q.listening => Connections!Listens(q.os, q.ever, s.port),
         NEW rows, rows = {s \in host.sockets : Connections!Qualifies(q, s)},
         answer' = [kind |-> "map", query |-> Connections!Aggregate(q, rows)]
  PROVE  Connections!DirectionIsRight'
  <1> DEFINE r == Connections!Aggregate(q, rows)
             in == {s \in rows : s.port \in q.listening}
  <1>1. rows \in SUBSET Connections!Connections
    BY DEF Connections!Qualifies
  <1>2. /\ r.rows = rows /\ r.os = q.os /\ r.nets = q.nets /\ r.steady = q.steady /\ r.ever = q.ever
        /\ Connections!CountEach(r.incoming, in, Connections!IncomingKey)
        /\ Connections!CountEach(r.outgoing, rows \ in, Connections!OutgoingKey)
    BY <1>1, AggregateCounts
  <1>3. /\ query.steady \subseteq host.sockets /\ host.sockets \subseteq query.ever
        /\ host.sockets \subseteq Connections!Sockets
    BY DEF Connections!MapInvariant
  <1> HIDE DEF r
  <1>4. \A s : Connections!Qualifies(r, s) <=> Connections!Qualifies(q, s)
    BY <1>2 DEF Connections!Qualifies
  <1>5. /\ {s \in r.steady : Connections!Qualifies(r, s)} \subseteq r.rows
        /\ r.rows \subseteq {s \in r.ever : Connections!Qualifies(r, s)}
    BY <1>2, <1>3, <1>4
  <1>6. /\ in \in SUBSET r.rows
        /\ \A s \in in : Connections!Listens(r.os, r.ever, s.port)
        /\ \A s \in r.rows \ in : ~Connections!Listens(r.os, r.steady, s.port)
    BY <1>2, <1>3
  <1> HIDE DEF in
  <1>7. answer'.query = r
    BY DEF r
  <1>8. QED
    BY <1>2, <1>5, <1>6, <1>7 DEF Connections!DirectionIsRight

LEMMA LinuxMapIsRight ==
  ASSUME Connections!MapInvariant, Connections!CollectTcpConnected
  PROVE  Connections!DirectionIsRight'
  <1> DEFINE rows == {s \in host.sockets \cap Connections!Connections : s.addr \in query.nets}
  <1>1. /\ query.pc = "connections" /\ query.os = "linux" /\ DOMAIN query = DOMAIN Connections!Idle
        /\ answer' = [kind |-> "map", query |-> Connections!Aggregate(query, rows)]
    BY DEF Connections!MapInvariant, Connections!CollectTcpConnected, Connections!Reply
  <1>2. rows = {s \in host.sockets : Connections!Qualifies(query, s)}
    BY <1>1 DEF Connections!Qualifies
  <1>3. \A s \in Connections!Sockets : s.port \in SocketPorts
    BY DEF Connections!Sockets, Connections!Connections
  <1>4. \A s \in Connections!Sockets :
           /\ Connections!Listens(query.os, query.steady, s.port) => s.port \in query.listening
           /\ s.port \in query.listening => Connections!Listens(query.os, query.ever, s.port)
    BY <1>1, <1>3 DEF Connections!MapInvariant
  <1> HIDE DEF rows
  <1>5. QED
    BY <1>1, <1>2, <1>4, MapIsRight

LEMMA WindowsMapIsRight ==
  ASSUME Connections!MapInvariant, query.pc = "fetch",
         Connections!Reply(Connections!BuildPayload(Connections!TCP))
  PROVE  Connections!DirectionIsRight'
  <1> DEFINE listening == Connections!PortsOf({s \in Connections!TCP :
                                                 s.state = "listen" /\ s.addr \notin Loopback})
             q == [query EXCEPT !.listening = listening, !.openPorts = listening]
             rows == {s \in Connections!TCP :
                        s.state = "established" /\ {s.addr, s.remote} \cap Loopback = {}}
  <1>1. /\ query.os = "windows" /\ DOMAIN query = DOMAIN Connections!Idle
        /\ query.steady \subseteq host.sockets /\ host.sockets \subseteq query.ever
        /\ host.sockets \subseteq Connections!Sockets
    BY DEF Connections!MapInvariant
  <1>2. answer' = [kind |-> "map", query |-> Connections!Aggregate(q, rows)]
    BY DEF Connections!Reply, Connections!BuildPayload
  <1>3. \A port : port \in listening <=> Connections!Listens("windows", host.sockets, port)
    BY DEF Connections!PortsOf, Connections!TCP, Connections!Listens
  <1>4. \A port : /\ Connections!Listens("windows", query.steady, port) => port \in listening
                  /\ port \in listening => Connections!Listens("windows", query.ever, port)
    BY <1>1, <1>3 DEF Connections!Listens
  <1> HIDE DEF listening
  <1>5. /\ DOMAIN q = DOMAIN Connections!Idle /\ q.os = "windows" /\ q.nets = query.nets
        /\ q.steady = query.steady /\ q.ever = query.ever /\ q.listening = listening
    BY <1>1, MapIdle
  <1> HIDE DEF q
  <1>6. rows = {s \in host.sockets : Connections!Qualifies(q, s)}
    BY <1>1, <1>5 DEF Connections!TCP, Connections!Qualifies, Connections!Sockets
  <1> HIDE DEF rows
  <1>7. QED
    BY <1>1, <1>2, <1>4, <1>5, <1>6, MapIsRight

MapPromise == Connections!MapInvariant /\ Connections!DirectionIsRight

LEMMA MapPromised == MapPromise /\ [Connections!Next]_(Connections!vars) => MapPromise'
  <1> SUFFICES ASSUME MapPromise, [Connections!Next]_(Connections!vars)
               PROVE  Connections!DirectionIsRight'
    BY MapNext DEF MapPromise
  <1>1. CASE Connections!CollectTcpConnected
    BY <1>1, LinuxMapIsRight DEF MapPromise
  <1>2. CASE answer' = answer
    BY <1>2 DEF MapPromise, Connections!DirectionIsRight
  <1>3. CASE answer'.kind # "map"
    BY <1>3 DEF Connections!DirectionIsRight
  <1>4. CASE Connections!FetchTable
    <2> DEFINE result == Connections!Fetch(query.read, Connections!TCP)
    <2>1. result.kind = "rows" => result.rows = Connections!TCP
      BY DEF Connections!Fetch
    <2>2. /\ query.pc = "fetch"
          /\ \/ result.kind = "rows" /\ Connections!Reply(Connections!BuildPayload(result.rows))
             \/ answer' = answer
             \/ Connections!AnswerError
      BY <1>4 DEF Connections!FetchTable
    <2> HIDE DEF result
    <2>3. CASE result.kind = "rows" /\ Connections!Reply(Connections!BuildPayload(result.rows))
      BY <2>1, <2>2, <2>3, WindowsMapIsRight DEF MapPromise
    <2>4. CASE Connections!AnswerError
      BY <1>3, <2>4 DEF Connections!AnswerError
    <2>5. QED
      BY <1>2, <2>2, <2>3, <2>4
  <1>5. CASE Connections!ReadFails \/ Connections!TableFails \/ Connections!Return
    BY <1>3, <1>5 DEF Connections!ReadFails, Connections!TableFails, Connections!AnswerError,
       Connections!Return, Connections!NoAnswer
  <1>6. QED
    BY <1>1, <1>2, <1>4, <1>5 DEF Connections!Next, Connections!vars, Connections!Begin,
       Connections!CollectListeningPorts, Connections!CollectUDP, Connections!ProbeTable,
       Connections!Change

LEMMA MapPromises == PluginSpec => [](plugin = "map" => MapPromise)
  <1>1. PluginInit => (plugin = "map" => MapPromise)
    <2>1. Connections!Init => MapPromise
      BY MapIdle DEF Connections!Init, Connections!NoAnswer, Connections!MapInvariant,
         Connections!DirectionIsRight, MapPromise
    <2>2. QED
      BY <2>1, PluginStart
  <1>2. (plugin = "map" => MapPromise) /\ [PluginNext]_<<plugin, vars>>
          => (plugin = "map" => MapPromise)'
    BY PluginStep, MapPromised
  <1>3. QED
    BY <1>1, <1>2, PTL DEF PluginSpec

\* What is counted was open, what was open all along is counted, once, and a connection is
\* incoming only if its port was listened on at some moment, outgoing only if it was not all
\* along (collectTcpConnectedAggV4 and buildPayload).
THEOREM DirectionsAreRight == PluginSpec => []DirectionIsRight
  <1>1. (plugin = "map" => MapPromise) => DirectionIsRight
    BY DEF MapPromise, DirectionIsRight
  <1>2. QED
    BY <1>1, MapPromises, PTL

-----------------------------------------------------------------------------
\* The latest update.  Its properties are of an answer of kind "value".

\* No answer of another plugin is a value: those are lists, maps, snapshots and errors.
GivesNoValue == plugin # "update" => answer.kind # "value"

LEMMA NobodyElseGivesOne == PluginSpec => []GivesNoValue
  <1>1. PluginInit => GivesNoValue
    BY DEF PluginInit, OtherInit, GivesNoValue, AD!Init, AD!NoAnswer, Listening!Init,
       Listening!NoAnswer, Connections!Init, Connections!NoAnswer, Events!Init, Events!NoAnswer,
       Exchange!Init, Exchange!NoAnswer, Cluster!Init, Cluster!NoAnswer
  <1>2. GivesNoValue /\ [PluginNext]_<<plugin, vars>> => GivesNoValue'
    <2> SUFFICES ASSUME GivesNoValue, PluginNext, plugin # "update" PROVE answer'.kind # "value"
      BY DEF GivesNoValue, PluginNext, vars
    <2>0. answer.kind # "value" /\ OtherNext
      BY DEF GivesNoValue, PluginNext
    <2>1. CASE AD!Next
      <3>1. AD!Finish => answer'.kind # "value"
        BY DEF AD!Finish
      <3>2. AD!PageFails => answer'.kind # "value"
        BY DEF AD!PageFails
      <3>3. AD!Return => answer'.kind # "value"
        BY DEF AD!Return, AD!NoAnswer
      <3>4. (\E kind, withNever, bases : AD!Begin(kind, withNever, bases)) => answer' = answer
        BY DEF AD!Begin
      <3>5. (\E u : AD!Entry(u)) => answer' = answer
        BY DEF AD!Entry
      <3>6. AD!NextSearch => answer' = answer
        BY DEF AD!NextSearch
      <3>7. (\E u : AD!Change(u)) => answer' = answer
        BY DEF AD!Change
      <3>8. QED
        BY <2>0, <2>1, <3>1, <3>2, <3>3, <3>4, <3>5, <3>6, <3>7 DEF AD!Next
    <2>2. CASE Listening!Next
      <3>1. Listening!SsFails => answer'.kind # "value"
        BY DEF Listening!SsFails, Listening!AnswerError
      <3>2. Listening!Finish => answer'.kind # "value"
        BY DEF Listening!Finish
      <3>3. Listening!Return => answer'.kind # "value"
        BY DEF Listening!Return, Listening!NoAnswer
      <3>4. ASSUME NEW rows, NEW failed, Listening!TableDone(rows, failed)
            PROVE  answer' = answer \/ answer'.kind # "value"
        BY <3>4 DEF Listening!TableDone, Listening!AnswerError
      <3>5. Listening!TableFails => answer' = answer \/ answer'.kind # "value"
        BY <3>4 DEF Listening!TableFails
      <3>6. Listening!FetchTable => answer' = answer \/ answer'.kind # "value"
        <4> DEFINE result == Listening!Fetch(query.read, Listening!Table)
        <4> SUFFICES ASSUME Listening!FetchTable PROVE answer' = answer \/ answer'.kind # "value"
          OBVIOUS
        <4>1. result.kind \in {"rows", "again", "error"}
          BY DEF Listening!Fetch
        <4>2. /\ result.kind = "rows" => Listening!TableDone(result.rows, {})
              /\ result.kind = "again" => answer' = answer
              /\ result.kind = "error" => Listening!TableDone({}, {query.family})
          BY DEF Listening!FetchTable
        <4> HIDE DEF result
        <4>3. QED
          BY <3>4, <4>1, <4>2
      <3>7. (\E os : Listening!Begin(os)) => answer' = answer
        BY DEF Listening!Begin
      <3>8. Listening!ProbeTable => answer' = answer
        BY DEF Listening!ProbeTable
      <3>9. (\E open : Listening!BuildServicePIDMap(open)) => answer' = answer
        BY DEF Listening!BuildServicePIDMap
      <3>10. (\E shown : Listening!Ss(shown)) => answer' = answer
        BY DEF Listening!Ss
      <3>11. (\E l : Listening!Describe(l)) => answer' = answer
        BY DEF Listening!Describe
      <3>12. Listening!Change => answer' = answer
        BY DEF Listening!Change
      <3>13. QED
        BY <2>0, <2>2, <3>1, <3>2, <3>3, <3>5, <3>6, <3>7, <3>8, <3>9, <3>10, <3>11, <3>12
           DEF Listening!Next
    <2>3. CASE Connections!Next
      <3>1. Connections!CollectTcpConnected => answer'.kind # "value"
        BY DEF Connections!CollectTcpConnected, Connections!Reply
      <3>2. Connections!ReadFails => answer'.kind # "value"
        BY DEF Connections!ReadFails, Connections!AnswerError
      <3>3. Connections!TableFails => answer'.kind # "value"
        BY DEF Connections!TableFails, Connections!AnswerError
      <3>4. Connections!Return => answer'.kind # "value"
        BY DEF Connections!Return, Connections!NoAnswer
      <3>5. Connections!FetchTable => answer' = answer \/ answer'.kind # "value"
        BY DEF Connections!FetchTable, Connections!Reply, Connections!AnswerError
      <3>6. (\E os, given : Connections!Begin(os, given)) => answer' = answer
        BY DEF Connections!Begin
      <3>7. Connections!CollectListeningPorts => answer' = answer
        BY DEF Connections!CollectListeningPorts
      <3>8. Connections!CollectUDP => answer' = answer
        BY DEF Connections!CollectUDP
      <3>9. Connections!ProbeTable => answer' = answer
        BY DEF Connections!ProbeTable
      <3>10. Connections!Change => answer' = answer
        BY DEF Connections!Change
      <3>11. QED
        BY <2>0, <2>3, <3>1, <3>2, <3>3, <3>4, <3>5, <3>6, <3>7, <3>8, <3>9, <3>10
           DEF Connections!Next
    <2>4. CASE Events!Next
      <3>1. Events!Finish => answer'.kind # "value"
        BY DEF Events!Finish
      <3>2. Events!CollectorFails => answer'.kind # "value"
        BY DEF Events!CollectorFails
      <3>3. Events!Return => answer'.kind # "value"
        BY DEF Events!Return, Events!NoAnswer
      <3>4. (\E period, n, minCount, rules : Events!Begin(period, n, minCount, rules)) =>
              answer' = answer
        BY DEF Events!Begin
      <3>5. (\E log : Events!ReadLog(log)) => answer' = answer
        BY DEF Events!ReadLog
      <3>6. (\E log : Events!SkipLog(log)) => answer' = answer
        BY DEF Events!SkipLog
      <3>7. (\E log, s : Events!Write(log, s)) => answer' = answer
        BY DEF Events!Write
      <3>8. QED
        BY <2>0, <2>4, <3>1, <3>2, <3>3, <3>4, <3>5, <3>6, <3>7 DEF Events!Next
    <2>5. CASE Exchange!Next
      <3>1. Exchange!ShellFails => answer'.kind # "value"
        BY DEF Exchange!ShellFails
      <3>2. Exchange!Finish => answer'.kind # "value"
        BY DEF Exchange!Finish
      <3>3. Exchange!Return => answer'.kind # "value"
        BY DEF Exchange!Return, Exchange!NoAnswer
      <3>4. Exchange!Begin => answer' = answer
        BY DEF Exchange!Begin
      <3>5. Exchange!ReadPart => answer' = answer
        BY DEF Exchange!ReadPart
      <3>6. Exchange!ReadReplicationHealth => answer' = answer
        BY DEF Exchange!ReadReplicationHealth
      <3>7. Exchange!ReadQueues => answer' = answer
        BY DEF Exchange!ReadQueues
      <3>8. Exchange!PartFails => answer' = answer
        BY DEF Exchange!PartFails
      <3>9. (\E part : Exchange!Change(part)) => answer' = answer
        BY DEF Exchange!Change
      <3>10. QED
        BY <2>0, <2>5, <3>1, <3>2, <3>3, <3>4, <3>5, <3>6, <3>7, <3>8, <3>9 DEF Exchange!Next
    <2>6. CASE Cluster!Next
      <3>1. Cluster!ReadFails => answer'.kind # "value"
        BY DEF Cluster!ReadFails, Cluster!NoAnswer
      <3>2. Cluster!Finish => answer'.kind # "value"
        BY DEF Cluster!Finish
      <3>3. Cluster!Return => answer'.kind # "value"
        BY DEF Cluster!Return, Cluster!NoAnswer
      <3>4. Cluster!Begin => answer' = answer
        BY DEF Cluster!Begin
      <3>5. Cluster!ReadQuorum => answer' = answer
        BY DEF Cluster!ReadQuorum
      <3>6. Cluster!ReadNodes => answer' = answer
        BY DEF Cluster!ReadNodes
      <3>7. Cluster!ReadGroups => answer' = answer
        BY DEF Cluster!ReadGroups
      <3>8. (\E name, witness : Cluster!ReadResources(name, witness)) => answer' = answer
        BY DEF Cluster!ReadResources
      <3>9. Cluster!Change => answer' = answer
        BY DEF Cluster!Change
      <3>10. QED
        BY <2>0, <2>6, <3>1, <3>2, <3>3, <3>4, <3>5, <3>6, <3>7, <3>8, <3>9 DEF Cluster!Next
    <2>7. QED
      BY <2>0, <2>1, <2>2, <2>3, <2>4, <2>5, <2>6 DEF OtherNext
  <1>3. QED
    BY <1>1, <1>2, PTL DEF PluginSpec

\* The invariant of the latest-update check, with the others beside it.
LEMMA UpdateInvariant == PluginSpec => [](plugin = "update" => IInv)
  <1>1. PluginInit => (plugin = "update" => IInv)
    BY InvInit DEF PluginInit, OtherInit
  <1>2. (plugin = "update" => IInv) /\ [PluginNext]_<<plugin, vars>> => (plugin = "update" => IInv)'
    <2> SUFFICES ASSUME plugin = "update", IInv, [PluginNext]_<<plugin, vars>> PROVE IInv'
      BY DEF PluginNext
    <2>1. [Next]_vars
      BY DEF PluginNext, OtherNext
    <2>2. QED
      BY <2>1, InvNext
  <1>3. QED
    BY <1>1, <1>2, PTL DEF PluginSpec

\* The four properties of the latest-update check, as the composition has them: "installed" and
\* "missing" are said with a reason ("missing" of the current and the previous month), for the
\* month that was asked for, and the previous month as it was found (LatestUpdateProofs).
THEOREM UpdateAnswersAreRight ==
  PluginSpec => [](/\ InstalledIsJustified /\ MissingIsDue
                   /\ PreviousIsReportedAsIs /\ AnswersForItsMonth)
  <1>1. (plugin = "update" => IInv) /\ GivesNoValue =>
          /\ InstalledIsJustified /\ MissingIsDue
          /\ PreviousIsReportedAsIs /\ AnswersForItsMonth
    <2>1. CASE plugin = "update"
      BY <2>1, InvAnswers
    <2>2. CASE plugin # "update"
      BY <2>2 DEF GivesNoValue, InstalledIsJustified, MissingIsDue, PreviousIsReportedAsIs,
         AnswersForItsMonth
    <2>3. QED
      BY <2>1, <2>2
  <1>2. QED
    BY <1>1, NobodyElseGivesOne, UpdateInvariant, PTL

=============================================================================
