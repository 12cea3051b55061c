------------------------------ MODULE ADUsers -------------------------------
(***************************************************************************)
(* The five Active Directory user queries                                  *)
(* (windows_ad_user_monitoring/main.go).  A query searches one base after  *)
(* another, page by page, for minutes on a large domain, while accounts    *)
(* log on, are locked, disabled, changed and moved between units.  An      *)
(* entry is read whole; a page of several entries is several entries with  *)
(* nothing in between.  Times are in days from the "now" the query read:   *)
(* 0 is now.  sAMAccountName and distinguishedName are always readable.    *)
(***************************************************************************)
EXTENDS Integers, Sequences

CONSTANTS
  Users,
  Units,   \* organisational units
  Domain,  \* the default naming context: the whole directory
  Gone,    \* where a deleted account is
  Never,   \* an expiry that does not come: 0 or the largest Integer8, which mean the same
  Absent,  \* no lastLogonTimestamp
  Zero,    \* a lastLogonTimestamp of 0
  Days,    \* the days parameter
  MaxBases \* bound, for TLC: search bases in a request

\* What the theorems assume of the constants.  A change during a query is of today, which
\* Days = 0 would count as long ago.
DaysAndMarkers ==
  /\ Days \in Nat \ {0}
  /\ Never \notin Int /\ Absent \notin Int /\ Zero \notin Int /\ Absent # Zero

VARIABLES
  directory,  \* the attributes of each account, those its query reads
  query,      \* the request and its locals, with what it should have seen (history)
  answer      \* what the last step answered

vars == <<directory, query, answer>>

Kinds == {"LockedOutUsers", "DisabledUsers", "PasswordExpiringUsers",
          "UsersAboutToBeDisabled", "InactiveUsers"}

Past == -(Days + 1) .. 0
Soon == -1 .. Days + 1

\* The accounts a query can meet.  Lapsed: lockoutTime is set and the lockout is over.
\* Stamps of a disabled account: when it was disabled, when its userAccountControl was last
\* written, when anything in it was; the second is readable or not.
Accounts(kind) ==
  CASE kind = "LockedOutUsers" ->
         [unit : Units, lock : {"free", "lapsed", "locked"}]
    [] kind = "DisabledUsers" ->
         {a \in [unit : Units, enabled : BOOLEAN, disabled : Past, uac : Past,
                 changed : Past, metadata : BOOLEAN] :
            a.disabled <= a.uac /\ a.uac <= a.changed}
    [] kind = "PasswordExpiringUsers" ->
         [unit : Units, enabled : BOOLEAN, policy : {"expires", "dontExpire", "mustChange"},
          expires : Soon \cup {Never}]
    [] kind = "UsersAboutToBeDisabled" ->
         [unit : Units, enabled : BOOLEAN, expires : Soon \cup {Never}]
    [] kind = "InactiveUsers" ->
         {a \in [unit : Units, enabled : BOOLEAN, logon : Past \cup {Absent, Zero},
                 created : Past] :
            a.logon \in Past => a.created <= a.logon}

\* What can happen to an account while it is searched for: it changes, in the ways its
\* stamps allow, is moved, or is deleted.
Changes(kind, a) ==
  LET moved == IF kind = "DisabledUsers" THEN [a EXCEPT !.changed = 0] ELSE a
  IN {[moved EXCEPT !.unit = unit] : unit \in Units \cup {Gone}} \cup
     CASE kind = "DisabledUsers" ->
            {[a EXCEPT !.changed = 0], [a EXCEPT !.uac = 0, !.changed = 0],
             [a EXCEPT !.enabled = ~a.enabled, !.disabled = 0, !.uac = 0, !.changed = 0]}
       [] kind = "InactiveUsers" ->
            {[a EXCEPT !.logon = 0], [a EXCEPT !.enabled = ~a.enabled]}
       [] OTHER -> {b \in Accounts(kind) : b.unit = a.unit}

Under(a, base) == a.unit # Gone /\ (base = Domain \/ a.unit = base)

\* The distinguished name: where an account is, and which it is.
DN(u, a) == <<a.unit, u>>

\* The LDAP filter of a search, evaluated by the directory server.
Matches(search, a) ==
  CASE search = "LockedOutUsers" -> a.lock # "free"
    [] search = "DisabledUsers" -> ~a.enabled
    [] search = "PasswordExpiringUsers" -> a.enabled /\ a.policy = "expires"
    [] search = "UsersAboutToBeDisabled" ->
         a.enabled /\ a.expires # Never /\ 0 <= a.expires /\ a.expires <= Days
    [] search = "InactiveUsers" ->
         a.enabled /\ (a.logon = Zero \/ (a.logon \in Past /\ a.logon <= -Days))
    [] search = "NeverLoggedOn" -> a.enabled /\ a.logon = Absent /\ a.created <= -Days

\* Mutated form of DisabledSince: the last change of anything in the account.
WhenChanged(a) == a.changed

\* The last change of userAccountControl, whichever of its bits changed; whenChanged for
\* who may not read the replication metadata.
DisabledSince(a) == IF a.metadata THEN a.uac ELSE a.changed

InWindow(day) == day # Never /\ 0 <= day /\ day <= Days

\* Mutated form of Kept: a lockout that has lapsed still counts, and an expired password.
KeptAsFiltered(kind, a) ==
  CASE kind = "DisabledUsers" -> DisabledSince(a) <= -Days
    [] kind \in {"LockedOutUsers", "PasswordExpiringUsers"} -> TRUE
    [] kind = "UsersAboutToBeDisabled" -> InWindow(a.expires)
    [] kind = "InactiveUsers" ->
         IF a.logon \in Past THEN a.logon <= -Days ELSE a.created <= -Days

\* The checks the callback makes on an entry.
Kept(kind, a) ==
  CASE kind = "LockedOutUsers" -> a.lock = "locked"
    [] kind = "DisabledUsers" -> DisabledSince(a) <= -Days
    [] kind = "PasswordExpiringUsers" ->
         a.enabled /\ a.policy # "dontExpire" /\ InWindow(a.expires)
    [] kind = "UsersAboutToBeDisabled" -> InWindow(a.expires)
    [] kind = "InactiveUsers" ->
         /\ a.enabled
         /\ IF a.logon \in Past THEN a.logon <= -Days ELSE a.created <= -Days

-----------------------------------------------------------------------------
(***************************************************************************)
(* What each query is for, said of the account and not of its attributes'  *)
(* encodings.  A lastLogonTimestamp of 0 counts as never logged on even    *)
(* without includeNeverLoggedOn.                                           *)
(***************************************************************************)
Meant(kind, withNever, a) ==
  CASE kind = "LockedOutUsers" -> a.lock = "locked"
    [] kind = "DisabledUsers" -> ~a.enabled /\ a.disabled <= -Days
    [] kind = "PasswordExpiringUsers" ->
         a.enabled /\ a.policy = "expires" /\ a.expires \in 0 .. Days
    [] kind = "UsersAboutToBeDisabled" -> a.enabled /\ a.expires \in 0 .. Days
    [] kind = "InactiveUsers" ->
         /\ a.enabled
         /\ \/ a.logon \in Past /\ a.logon <= -Days
            \/ a.logon \notin Past /\ a.created <= -Days /\ (withNever \/ a.logon = Zero)

\* A user the query must list: one it is meant for, and, of the disabled, one whose account
\* has not been written since: every write to userAccountControl restarts the count, and
\* every write to anything for who may not read the replication metadata.
MustList(kind, withNever, a) ==
  /\ Meant(kind, withNever, a)
  /\ kind = "DisabledUsers" => a.uac <= -Days /\ (a.metadata \/ a.changed <= -Days)
-----------------------------------------------------------------------------
BaseLists == UNION {[1 .. n -> Units \cup {Domain}] : n \in 0 .. MaxBases}

\* resolveSearchBases: the whole domain when no base is given.
ResolveSearchBases(bases) == IF bases = <<>> THEN <<Domain>> ELSE bases

\* The filters searched for in each base.
Searches(kind, withNever) ==
  IF kind = "InactiveUsers" /\ withNever THEN <<kind, "NeverLoggedOn">> ELSE <<kind>>

Idle == [pc |-> "idle", kind |-> "", withNever |-> FALSE, bases |-> <<>>, base |-> 1,
         filter |-> 1, seen |-> {}, out |-> <<>>, owed |-> {},
         steady |-> {}, ever |-> {}, moved |-> {}]

NoAnswer == [kind |-> "none", query |-> Idle]

Init ==
  /\ directory = [u \in Users |-> {}]
  /\ query = Idle
  /\ answer = NoAnswer

\* The users a search matches now, given the directory.
Found(dir, q) ==
  LET search == Searches(q.kind, q.withNever)[q.filter] IN
  {u \in Users : Under(dir[u], q.bases[q.base]) /\ Matches(search, dir[u])}

Searched(dir, q) ==
  {u \in Users : \E i \in DOMAIN q.bases : Under(dir[u], q.bases[i])}

\* Export and the head of a get function: dialled, bound, bases resolved, "now" read, the
\* first search begun.
Begin(kind, withNever, bases) ==
  /\ query.pc = "idle" /\ answer = NoAnswer
  /\ withNever => kind = "InactiveUsers"
  /\ directory' \in [Users -> Accounts(kind)]
  /\ LET q == [Idle EXCEPT !.pc = "search", !.kind = kind, !.withNever = withNever,
                           !.bases = ResolveSearchBases(bases)]
         meant == {u \in Users : Meant(kind, withNever, directory'[u])}
         must == {u \in Users : MustList(kind, withNever, directory'[u])}
     IN query' = [q EXCEPT !.owed = Found(directory', q), !.ever = meant,
                           !.steady = must \cap Searched(directory', q)]
  /\ UNCHANGED answer

\* Mutated form of Handle: names are not remembered.
HandleUnseen(q, u, a) ==
  [q EXCEPT !.out = IF Kept(q.kind, a) THEN Append(@, [user |-> u, dn |-> DN(u, a)]) ELSE @]

\* The callback: a lapsed lockout is dropped unseen; of the others, the first entry of each
\* name is marked seen and listed if its checks allow.
Handle(q, u, a) ==
  IF \/ q.kind = "LockedOutUsers" /\ ~Kept(q.kind, a)
     \/ DN(u, a) \in q.seen
  THEN q
  ELSE [q EXCEPT !.seen = @ \cup {DN(u, a)},
                 !.out = IF Kept(q.kind, a)
                         THEN Append(@, [user |-> u, dn |-> DN(u, a)]) ELSE @]

\* The next entry of the current page, or of the next one (searchEach); an entry may be
\* returned twice if the index it is found by has it twice.
Entry(u) ==
  /\ query.pc = "search" /\ u \in Found(directory, query)
  /\ query' = [Handle(query, u, directory[u]) EXCEPT !.owed = @ \ {u}]
  /\ UNCHANGED <<directory, answer>>

LastFilter(q) == q.filter = Len(Searches(q.kind, q.withNever))

\* There are no more results once every entry that matched all along has been returned;
\* then the base's next filter, or the next base.
NextSearch ==
  /\ query.pc = "search" /\ query.owed = {}
  /\ ~(LastFilter(query) /\ query.base = Len(query.bases))
  /\ LET q == IF LastFilter(query) THEN [query EXCEPT !.base = @ + 1, !.filter = 1]
              ELSE [query EXCEPT !.filter = @ + 1]
     IN query' = [q EXCEPT !.owed = Found(directory, q)]
  /\ UNCHANGED <<directory, answer>>

\* The last search is over: the list is answered.
Finish ==
  /\ query.pc = "search" /\ query.owed = {}
  /\ LastFilter(query) /\ query.base = Len(query.bases)
  /\ answer' = [kind |-> "list", query |-> query]
  /\ query' = Idle
  /\ UNCHANGED directory

\* The connection, the lookup of the default base, a search or a page fails or times out,
\* and with it the query: what was found is dropped.
PageFails ==
  /\ query.pc = "search"
  /\ answer' = [kind |-> "error", query |-> Idle]
  /\ query' = Idle
  /\ UNCHANGED directory

\* The answer has been taken; the next request finds another directory.
Return ==
  /\ answer # NoAnswer
  /\ answer' = NoAnswer
  /\ directory' = [u \in Users |-> {}]
  /\ UNCHANGED query

\* An account changes during the query.
Change(u) ==
  /\ query.pc = "search" /\ directory[u].unit # Gone
  /\ \E a \in Changes(query.kind, directory[u]) :
       /\ directory' = [directory EXCEPT ![u] = a]
       /\ query' = [query EXCEPT
            !.owed = @ \cap Found(directory', query),
            !.steady = IF MustList(query.kind, query.withNever, a)
                          /\ a.unit = directory[u].unit THEN @ ELSE @ \ {u},
            !.ever = IF Meant(query.kind, query.withNever, a) THEN @ \cup {u} ELSE @,
            !.moved = IF a.unit = directory[u].unit THEN @ ELSE @ \cup {u}]
  /\ UNCHANGED answer

Next ==
  \/ \E kind \in Kinds, withNever \in BOOLEAN, bases \in BaseLists :
       Begin(kind, withNever, bases)
  \/ \E u \in Users : Entry(u) \/ Change(u)
  \/ NextSearch \/ Finish \/ PageFails \/ Return

Spec == Init /\ [][Next]_vars

-----------------------------------------------------------------------------
Listed(q) == {q.out[i].user : i \in DOMAIN q.out}

\* Nobody is left out: a list has every user the query is meant for who stayed so, and
\* stayed where a base is searched, from its first page to its last; not a partial list
\* after a failed page (searchEach, 578-606).
NobodyIsMissed == answer.kind = "list" => answer.query.steady \subseteq Listed(answer.query)

\* Everybody listed met what the query is meant for at some moment of it.
ListedForAReason == answer.kind = "list" => Listed(answer.query) \subseteq answer.query.ever

\* However the search bases overlap and the pages repeat, nobody is listed twice, but under
\* two names: a user moved in the meantime.
ListedOnce ==
  \A i, j \in DOMAIN query.out :
    i # j /\ query.out[i].user = query.out[j].user =>
      /\ query.out[i].dn # query.out[j].dn
      /\ query.out[i].user \in query.moved
=============================================================================
