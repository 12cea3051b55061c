--------------------------- MODULE ADUsersProofs ----------------------------
(***************************************************************************)
(* Who an Active Directory query lists, for any number of users, units and *)
(* search bases, while accounts change and move.  Nobody is listed twice   *)
(* under one name: every listed name is among those seen, and a user who   *)
(* was not moved is listed under the name the account has now (IInv).      *)
(* Nobody is left out, or listed without a reason: who has to be listed    *)
(* is, or is owed by the search under way, or awaited from one to come,    *)
(* and what a callback keeps of a search's results is what the query is    *)
(* for (LInv).                                                             *)
(***************************************************************************)
EXTENDS ADUsers, TLAPS

Fields == {"pc", "kind", "withNever", "bases", "base", "filter", "seen", "out", "owed",
           "steady", "ever", "moved"}

Sequence(s) == \E S : s \in Seq(S)

\* The state is a directory of the users, and a request; an answer is of one that is over.
Shape ==
  /\ DOMAIN directory = Users /\ DOMAIN query = Fields
  /\ Sequence(query.out)
  /\ query.pc # "search" => query = Idle
  /\ query.pc = "search" => answer = NoAnswer

\* What a list says of its entries.
Entries(out, seen, moved, dir) ==
  /\ \A i \in DOMAIN out : out[i].user \in Users /\ out[i].dn \in seen
  /\ \A i, j \in DOMAIN out : i # j => out[i].dn # out[j].dn
  /\ \A i \in DOMAIN out :
       out[i].user \notin moved => out[i].dn = DN(out[i].user, dir[out[i].user])

IInv == Shape /\ Entries(query.out, query.seen, query.moved, directory)

-----------------------------------------------------------------------------
LEMMA IdleShape ==
  /\ DOMAIN Idle = Fields /\ Idle.out = <<>> /\ Idle.pc = "idle" /\ Idle.seen = {}
  /\ Idle.moved = {}
BY DEF Idle, Fields

LEMMA NothingListed ==
  ASSUME NEW seen, NEW moved, NEW dir
  PROVE  Sequence(<<>>) /\ Entries(<<>>, seen, moved, dir)
<1>1. <<>> \in Seq({})
  OBVIOUS
<1>2. DOMAIN <<>> = {}
  OBVIOUS
<1> QED BY <1>1, <1>2 DEF Sequence, Entries

LEMMA InvInit == Init => IInv
BY IdleShape, NothingListed DEF Init, IInv, Shape

\* A name that was not seen is appended.
LEMMA Appended ==
  ASSUME NEW out, NEW seen, NEW moved, NEW dir, NEW u \in Users, Sequence(out),
         Entries(out, seen, moved, dir), DN(u, dir[u]) \notin seen
  PROVE  LET more == Append(out, [user |-> u, dn |-> DN(u, dir[u])])
         IN Sequence(more) /\ Entries(more, seen \cup {DN(u, dir[u])}, moved, dir)
<1> DEFINE entry == [user |-> u, dn |-> DN(u, dir[u])]
           more == Append(out, entry)
<1>1. PICK S : out \in Seq(S)
  BY DEF Sequence
<1>2. out \in Seq(S \cup {entry}) /\ entry \in S \cup {entry}
  BY <1>1
<1>3. more \in Seq(S \cup {entry})
  BY <1>2
<1>4. /\ DOMAIN out = 1 .. Len(out) /\ Len(out) \in Nat
      /\ DOMAIN more = 1 .. Len(out) + 1
      /\ \A i \in DOMAIN out : more[i] = out[i]
      /\ more[Len(out) + 1] = entry
  BY <1>2
<1>5. entry.user = u /\ entry.dn = DN(u, dir[u])
  OBVIOUS
<1> HIDE DEF entry, more
<1>6. \A i \in DOMAIN more : (i \in DOMAIN out /\ more[i] = out[i]) \/ more[i] = entry
  BY <1>4
<1>7. \A i, j \in DOMAIN more : i # j => i \in DOMAIN out \/ j \in DOMAIN out
  BY <1>4
<1>8. \A i \in DOMAIN more : i \notin DOMAIN out => i = Len(out) + 1
  BY <1>4
<1>9. Entries(more, seen \cup {DN(u, dir[u])}, moved, dir)
  BY <1>4, <1>5, <1>6, <1>7, <1>8 DEF Entries
<1> QED BY <1>3, <1>9 DEF Sequence, more, entry

\* What an entry of a page does to the list (the callbacks).
LEMMA EntryListed ==
  ASSUME Shape, NEW u \in Users, Entry(u)
  PROVE  /\ query'.pc = "search" /\ query'.moved = query.moved /\ DOMAIN query' = Fields
         /\ \/ query'.out = query.out /\ query.seen \subseteq query'.seen
            \/ /\ DN(u, directory[u]) \notin query.seen
               /\ query'.seen = query.seen \cup {DN(u, directory[u])}
               /\ query'.out = Append(query.out, [user |-> u, dn |-> DN(u, directory[u])])
<1> DEFINE a == directory[u]
           q == Handle(query, u, a)
<1>1. query' = [q EXCEPT !.owed = @ \ {u}] /\ DOMAIN query = Fields /\ query.pc = "search"
  BY DEF Entry, Shape
<1>2. /\ DOMAIN q = Fields /\ q.pc = query.pc /\ q.moved = query.moved
      /\ \/ q.out = query.out /\ query.seen \subseteq q.seen
         \/ /\ DN(u, a) \notin query.seen /\ q.seen = query.seen \cup {DN(u, a)}
            /\ q.out = Append(query.out, [user |-> u, dn |-> DN(u, a)])
  <2>1. CASE q = query
    BY <1>1, <2>1
  <2>2. CASE q # query
    <3>1. /\ DN(u, a) \notin query.seen
          /\ q = [query EXCEPT !.seen = @ \cup {DN(u, a)},
                    !.out = IF Kept(query.kind, a)
                            THEN Append(@, [user |-> u, dn |-> DN(u, a)]) ELSE @]
      BY <2>2 DEF Handle
    <3> HIDE DEF q, a
    <3>2. /\ DOMAIN q = Fields /\ q.pc = query.pc /\ q.moved = query.moved
          /\ q.seen = query.seen \cup {DN(u, a)}
          /\ q.out = IF Kept(query.kind, a)
                     THEN Append(query.out, [user |-> u, dn |-> DN(u, a)]) ELSE query.out
      BY <1>1, <3>1 DEF Fields
    <3> QED BY <3>1, <3>2
  <2> QED BY <2>1, <2>2
<1> HIDE DEF q
<1>3. /\ DOMAIN query' = DOMAIN q /\ query'.pc = q.pc /\ query'.moved = q.moved
      /\ query'.out = q.out /\ query'.seen = q.seen
  BY <1>1, <1>2 DEF Fields
<1> QED BY <1>1, <1>2, <1>3
-----------------------------------------------------------------------------
LEMMA EntryStep ==
  ASSUME IInv, NEW u \in Users, Entry(u)
  PROVE  IInv'
<1>1. /\ directory' = directory /\ answer' = answer /\ query.pc = "search"
      /\ Shape /\ Entries(query.out, query.seen, query.moved, directory)
  BY DEF Entry, IInv
<1>2. CASE query'.out = query.out /\ query.seen \subseteq query'.seen
  BY <1>1, <1>2, EntryListed DEF IInv, Shape, Entries
<1>3. CASE /\ DN(u, directory[u]) \notin query.seen
           /\ query'.seen = query.seen \cup {DN(u, directory[u])}
           /\ query'.out = Append(query.out, [user |-> u, dn |-> DN(u, directory[u])])
  <2>1. Sequence(query.out)
    BY <1>1 DEF Shape
  <2>2. \A out, seen, moved :
          Sequence(out) /\ Entries(out, seen, moved, directory) /\ DN(u, directory[u]) \notin seen =>
            LET more == Append(out, [user |-> u, dn |-> DN(u, directory[u])])
            IN Sequence(more) /\ Entries(more, seen \cup {DN(u, directory[u])}, moved, directory)
    BY Appended
  <2>3. Sequence(query'.out) /\ Entries(query'.out, query'.seen, query.moved, directory)
    BY <1>1, <1>3, <2>1, <2>2
  <2> QED BY <1>1, <2>3, EntryListed DEF IInv, Shape, Entries, DN
<1> QED BY <1>1, <1>2, <1>3, EntryListed

\* An account's change is in its attributes or moves it: only then is its name another.
LEMMA ChangeStep ==
  ASSUME IInv, NEW u \in Users, Change(u)
  PROVE  IInv'
<1>1. PICK a \in Changes(query.kind, directory[u]) :
        /\ directory' = [directory EXCEPT ![u] = a]
        /\ query' = [query EXCEPT
             !.owed = @ \cap Found(directory', query),
             !.steady = IF MustList(query.kind, query.withNever, a)
                           /\ a.unit = directory[u].unit THEN @ ELSE @ \ {u},
             !.ever = IF Meant(query.kind, query.withNever, a) THEN @ \cup {u} ELSE @,
             !.moved = IF a.unit = directory[u].unit THEN @ ELSE @ \cup {u}]
  BY DEF Change
<1>2. DOMAIN directory = Users /\ DOMAIN query = Fields /\ query.pc = "search"
  BY DEF IInv, Shape, Change
<1>3. /\ DOMAIN query' = Fields /\ query'.pc = query.pc /\ query'.out = query.out
      /\ query'.seen = query.seen
      /\ query'.moved = IF a.unit = directory[u].unit THEN query.moved ELSE query.moved \cup {u}
  BY <1>1, <1>2 DEF Fields
<1>4. /\ DOMAIN directory' = Users /\ directory'[u] = a
      /\ \A v \in Users : v # u => directory'[v] = directory[v]
      /\ answer' = answer
  BY <1>1, <1>2 DEF Change
<1>5. \A v \in Users : v \notin query'.moved =>
        v \notin query.moved /\ DN(v, directory'[v]) = DN(v, directory[v])
  BY <1>3, <1>4 DEF DN
<1>6. Entries(query.out, query.seen, query'.moved, directory')
  BY <1>5 DEF IInv, Entries
<1> QED BY <1>2, <1>3, <1>4, <1>6 DEF IInv, Shape, Entries, DN

\* A request begins with nothing listed.
LEMMA BeginStep ==
  ASSUME NEW kind, NEW withNever, NEW bases, Begin(kind, withNever, bases)
  PROVE  IInv'
<1> DEFINE q == [Idle EXCEPT !.pc = "search", !.kind = kind, !.withNever = withNever,
                             !.bases = ResolveSearchBases(bases)]
           meant == {u \in Users : Meant(kind, withNever, directory'[u])}
           must == {u \in Users : MustList(kind, withNever, directory'[u])}
<1>1. query' = [q EXCEPT !.owed = Found(directory', q), !.ever = meant,
                         !.steady = must \cap Searched(directory', q)]
  BY DEF Begin
<1>2. DOMAIN q = Fields /\ q.pc = "search" /\ q.out = <<>>
  BY IdleShape DEF Fields
<1> HIDE DEF q, meant, must
<1>3. DOMAIN query' = Fields /\ query'.pc = "search" /\ query'.out = <<>>
  BY <1>1, <1>2 DEF Fields
<1>4. DOMAIN directory' = Users /\ answer' = NoAnswer
  BY DEF Begin
<1> QED BY <1>3, <1>4, NothingListed DEF IInv, Shape, Entries, DN

\* The next search keeps what was listed and seen.
LEMMA NextSearchStep ==
  ASSUME IInv, NextSearch
  PROVE  IInv'
<1> DEFINE q == IF LastFilter(query) THEN [query EXCEPT !.base = @ + 1, !.filter = 1]
                ELSE [query EXCEPT !.filter = @ + 1]
<1>1. query' = [q EXCEPT !.owed = Found(directory, q)] /\ directory' = directory
      /\ answer' = answer /\ query.pc = "search" /\ DOMAIN query = Fields
  BY DEF NextSearch, IInv, Shape
<1>2. /\ DOMAIN q = Fields /\ q.pc = "search" /\ q.out = query.out /\ q.seen = query.seen
      /\ q.moved = query.moved
  BY <1>1 DEF Fields
<1> HIDE DEF q
<1>3. /\ DOMAIN query' = Fields /\ query'.pc = "search" /\ query'.out = query.out
      /\ query'.seen = query.seen /\ query'.moved = query.moved
  BY <1>1, <1>2 DEF Fields
<1> QED BY <1>1, <1>3 DEF IInv, Shape, Entries, DN

\* A request that is over leaves nothing behind.
LEMMA OverStep ==
  ASSUME IInv, query' = Idle, DOMAIN directory' = Users
  PROVE  IInv'
BY IdleShape, NothingListed DEF IInv, Shape, Entries, DN

LEMMA InvNext == IInv /\ [Next]_vars => IInv'
<1> SUFFICES ASSUME IInv, [Next]_vars PROVE IInv'
  OBVIOUS
<1>1. ASSUME NEW kind \in Kinds, NEW withNever \in BOOLEAN, NEW bases \in BaseLists,
             Begin(kind, withNever, bases)
      PROVE  IInv'
  BY <1>1, BeginStep
<1>2. ASSUME NEW u \in Users, Entry(u) PROVE IInv'
  BY <1>2, EntryStep
<1>3. ASSUME NEW u \in Users, Change(u) PROVE IInv'
  BY <1>3, ChangeStep
<1>4. CASE NextSearch
  BY <1>4, NextSearchStep
<1>5. CASE Finish
  BY <1>5, OverStep DEF Finish, IInv, Shape
<1>6. CASE PageFails
  BY <1>6, OverStep DEF PageFails, IInv, Shape
<1>7. CASE Return
  <2>1. query' = Idle /\ DOMAIN directory' = Users
    BY <1>7 DEF Return, IInv, Shape
  <2> QED BY <2>1, OverStep
<1>8. CASE UNCHANGED vars
  BY <1>8 DEF vars, IInv, Shape, Entries, DN
<1> QED BY <1>1, <1>2, <1>3, <1>4, <1>5, <1>6, <1>7, <1>8 DEF Next

LEMMA Invariant == Spec => []IInv
<1> QED BY InvInit, InvNext, PTL DEF Spec

-----------------------------------------------------------------------------
LEMMA NamesAreUnique == IInv => ListedOnce
BY DEF IInv, Entries, ListedOnce

\* Nobody is listed twice, but under two names: a user moved in the meantime (the seen map
\* of the five get functions).
THEOREM NobodyTwice == Spec => []ListedOnce
<1> QED BY NamesAreUnique, Invariant, PTL
-----------------------------------------------------------------------------
(***************************************************************************)
(* Who is listed, and why.  Of an account: what the callback keeps of what *)
(* a search matches is what the query is for (KeptIsMeant), and what must  *)
(* be listed is kept, matched by a search (MustListIsFound), and by the    *)
(* same one after a change that does not end it (StillFound).              *)
(***************************************************************************)

\* The attributes of an account, wherever it is moved.
Attributes(kind, a) ==
  CASE kind = "LockedOutUsers" -> DOMAIN a = {"unit", "lock"}
    [] kind = "DisabledUsers" ->
         /\ DOMAIN a = {"unit", "enabled", "disabled", "uac", "changed", "metadata"}
         /\ a.disabled \in Int /\ a.uac \in Int /\ a.changed \in Int
         /\ a.disabled <= a.uac /\ a.uac <= a.changed /\ a.changed <= 0
    [] kind = "PasswordExpiringUsers" ->
         DOMAIN a = {"unit", "enabled", "policy", "expires"} /\ a.expires \in Soon \cup {Never}
    [] kind = "UsersAboutToBeDisabled" ->
         DOMAIN a = {"unit", "enabled", "expires"} /\ a.expires \in Soon \cup {Never}
    [] kind = "InactiveUsers" ->
         /\ DOMAIN a = {"unit", "enabled", "logon", "created"}
         /\ a.logon \in Past \cup {Absent, Zero} /\ a.created \in Past

LEMMA AccountAttributes ==
  ASSUME DaysAndMarkers, NEW kind \in Kinds, NEW a \in Accounts(kind)
  PROVE  Attributes(kind, a)
<1>1. CASE kind = "LockedOutUsers"
  BY <1>1 DEF Accounts, Attributes
<1>2. CASE kind = "DisabledUsers"
  BY <1>2 DEF Accounts, Attributes, Past, DaysAndMarkers
<1>3. CASE kind = "PasswordExpiringUsers"
  BY <1>3 DEF Accounts, Attributes
<1>4. CASE kind = "UsersAboutToBeDisabled"
  BY <1>4 DEF Accounts, Attributes
<1>5. CASE kind = "InactiveUsers"
  BY <1>5 DEF Accounts, Attributes
<1> QED BY <1>1, <1>2, <1>3, <1>4, <1>5 DEF Kinds

LEMMA ChangedAttributes ==
  ASSUME DaysAndMarkers, NEW kind \in Kinds, NEW a, Attributes(kind, a),
         NEW b \in Changes(kind, a)
  PROVE  Attributes(kind, b)
<1>1. CASE kind = "LockedOutUsers"
  <2>1. (\E unit : b = [a EXCEPT !.unit = unit]) \/ b \in Accounts(kind)
    BY <1>1 DEF Changes
  <2>2. CASE \E unit : b = [a EXCEPT !.unit = unit]
    BY <1>1, <2>2 DEF Attributes
  <2> QED BY <2>1, <2>2, AccountAttributes
<1>2. CASE kind = "DisabledUsers"
  <2>1. \/ \E unit : b = [[a EXCEPT !.changed = 0] EXCEPT !.unit = unit]
        \/ b = [a EXCEPT !.changed = 0]
        \/ b = [a EXCEPT !.uac = 0, !.changed = 0]
        \/ b = [a EXCEPT !.enabled = ~a.enabled, !.disabled = 0, !.uac = 0, !.changed = 0]
    BY <1>2 DEF Changes
  <2>2. /\ DOMAIN a = {"unit", "enabled", "disabled", "uac", "changed", "metadata"}
        /\ a.disabled \in Int /\ a.uac \in Int /\ a.changed \in Int
        /\ a.disabled <= a.uac /\ a.uac <= a.changed /\ a.changed <= 0
    BY <1>2 DEF Attributes
  <2>3. /\ DOMAIN b = DOMAIN a /\ b.changed = 0
        /\ \/ b.disabled = a.disabled /\ b.uac \in {a.uac, 0}
           \/ b.disabled = 0 /\ b.uac = 0
    BY <2>1, <2>2
  <2>4. /\ b.disabled \in Int /\ b.uac \in Int /\ b.changed \in Int
        /\ b.disabled <= b.uac /\ b.uac <= b.changed /\ b.changed <= 0
    BY <2>2, <2>3
  <2> QED BY <1>2, <2>2, <2>3, <2>4 DEF Attributes
<1>3. CASE kind = "PasswordExpiringUsers"
  <2>1. (\E unit : b = [a EXCEPT !.unit = unit]) \/ b \in Accounts(kind)
    BY <1>3 DEF Changes
  <2>2. CASE \E unit : b = [a EXCEPT !.unit = unit]
    BY <1>3, <2>2 DEF Attributes
  <2> QED BY <2>1, <2>2, AccountAttributes
<1>4. CASE kind = "UsersAboutToBeDisabled"
  <2>1. (\E unit : b = [a EXCEPT !.unit = unit]) \/ b \in Accounts(kind)
    BY <1>4 DEF Changes
  <2>2. CASE \E unit : b = [a EXCEPT !.unit = unit]
    BY <1>4, <2>2 DEF Attributes
  <2> QED BY <2>1, <2>2, AccountAttributes
<1>5. CASE kind = "InactiveUsers"
  <2>1. 0 \in Past
    BY DEF DaysAndMarkers, Past
  <2>2. \/ \E unit : b = [a EXCEPT !.unit = unit]
        \/ b = [a EXCEPT !.logon = 0]
        \/ b = [a EXCEPT !.enabled = ~a.enabled]
    BY <1>5 DEF Changes
  <2> QED BY <1>5, <2>1, <2>2 DEF Attributes
<1> QED BY <1>1, <1>2, <1>3, <1>4, <1>5 DEF Kinds

\* The filters of a query.
LEMMA TheSearches ==
  ASSUME NEW kind \in Kinds, NEW withNever \in BOOLEAN
  PROVE  /\ Len(Searches(kind, withNever)) \in {1, 2}
         /\ DOMAIN Searches(kind, withNever) = 1 .. Len(Searches(kind, withNever))
         /\ Searches(kind, withNever)[1] = kind
         /\ Len(Searches(kind, withNever)) = 2 =>
              /\ kind = "InactiveUsers" /\ withNever
              /\ Searches(kind, withNever)[2] = "NeverLoggedOn"
         /\ kind = "InactiveUsers" /\ withNever => Len(Searches(kind, withNever)) = 2
<1>1. /\ Len(<<kind>>) = 1 /\ DOMAIN <<kind>> = 1 .. 1 /\ <<kind>>[1] = kind
      /\ Len(<<kind, "NeverLoggedOn">>) = 2 /\ DOMAIN <<kind, "NeverLoggedOn">> = 1 .. 2
      /\ <<kind, "NeverLoggedOn">>[1] = kind /\ <<kind, "NeverLoggedOn">>[2] = "NeverLoggedOn"
  OBVIOUS
<1>2. CASE kind = "InactiveUsers" /\ withNever
  BY <1>1, <1>2 DEF Searches
<1>3. CASE ~(kind = "InactiveUsers" /\ withNever)
  <2>1. Searches(kind, withNever) = <<kind>>
    BY <1>3 DEF Searches
  <2> QED BY <1>1, <1>3, <2>1
<1> QED BY <1>2, <1>3

LEMMA KeptIsMeant ==
  ASSUME DaysAndMarkers, NEW kind \in Kinds, NEW withNever \in BOOLEAN, NEW a,
         Attributes(kind, a), Kept(kind, a),
         NEW f \in DOMAIN Searches(kind, withNever), Matches(Searches(kind, withNever)[f], a)
  PROVE  Meant(kind, withNever, a)
<1>0. Matches(kind, a) \/ (kind = "InactiveUsers" /\ withNever /\ Matches("NeverLoggedOn", a))
  <2>1. f = 1 \/ (f = 2 /\ Len(Searches(kind, withNever)) = 2)
    BY TheSearches
  <2> QED BY <2>1, TheSearches
<1>1. CASE kind = "LockedOutUsers"
  BY <1>1 DEF Kept, Meant
<1>2. CASE kind = "DisabledUsers"
  <2>1. ~a.enabled /\ DisabledSince(a) <= -Days
    BY <1>0, <1>2 DEF Matches, Kept
  <2>2. a.disabled <= DisabledSince(a) /\ a.disabled \in Int /\ DisabledSince(a) \in Int
    BY <1>2 DEF Attributes, DisabledSince
  <2>3. a.disabled <= -Days
    BY <2>1, <2>2 DEF DaysAndMarkers
  <2> QED BY <1>2, <2>1, <2>3 DEF Meant
<1>3. CASE kind = "PasswordExpiringUsers"
  <2>1. a.enabled /\ a.policy = "expires" /\ InWindow(a.expires) /\ a.expires \in Soon \cup {Never}
    BY <1>0, <1>3 DEF Matches, Kept, Attributes
  <2>2. a.expires \in 0 .. Days
    BY <2>1 DEF InWindow, Soon, DaysAndMarkers
  <2> QED BY <1>3, <2>1, <2>2 DEF Meant
<1>4. CASE kind = "UsersAboutToBeDisabled"
  <2>1. a.enabled /\ InWindow(a.expires) /\ a.expires \in Soon \cup {Never}
    BY <1>0, <1>4 DEF Matches, Kept, Attributes
  <2>2. a.expires \in 0 .. Days
    BY <2>1 DEF InWindow, Soon, DaysAndMarkers
  <2> QED BY <1>4, <2>1, <2>2 DEF Meant
<1>5. CASE kind = "InactiveUsers"
  <2>1. /\ a.enabled
        /\ IF a.logon \in Past THEN a.logon <= -Days ELSE a.created <= -Days
        /\ a.logon \in Past \cup {Absent, Zero}
    BY <1>5 DEF Kept, Attributes
  <2>2. a.logon = Absent => withNever
    <3>1. Absent # Zero /\ Absent \notin Past
      BY DEF DaysAndMarkers, Past
    <3> QED BY <1>0, <1>5, <3>1 DEF Matches
  <2> QED BY <1>5, <2>1, <2>2 DEF Meant
<1> QED BY <1>1, <1>2, <1>3, <1>4, <1>5 DEF Kinds

LEMMA MustListIsFound ==
  ASSUME DaysAndMarkers, NEW kind \in Kinds, NEW withNever \in BOOLEAN, NEW a,
         Attributes(kind, a), MustList(kind, withNever, a)
  PROVE  /\ Kept(kind, a)
         /\ \E f \in DOMAIN Searches(kind, withNever) : Matches(Searches(kind, withNever)[f], a)
<1>1. 1 \in DOMAIN Searches(kind, withNever) /\ Searches(kind, withNever)[1] = kind
  BY TheSearches
<1>2. CASE kind = "LockedOutUsers"
  BY <1>1, <1>2 DEF MustList, Meant, Kept, Matches
<1>3. CASE kind = "DisabledUsers"
  <2>1. ~a.enabled /\ a.uac <= -Days /\ (a.metadata \/ a.changed <= -Days)
    BY <1>3 DEF MustList, Meant
  <2>2. DisabledSince(a) <= -Days
    BY <2>1 DEF DisabledSince
  <2> QED BY <1>1, <1>3, <2>1, <2>2 DEF Kept, Matches
<1>4. CASE kind \in {"PasswordExpiringUsers", "UsersAboutToBeDisabled"}
  <2>1. /\ a.enabled /\ a.expires \in 0 .. Days
        /\ kind = "PasswordExpiringUsers" => a.policy = "expires"
    BY <1>4 DEF MustList, Meant
  <2>2. a.expires # Never /\ 0 <= a.expires /\ a.expires <= Days
    BY <2>1 DEF DaysAndMarkers
  <2> QED BY <1>1, <1>4, <2>1, <2>2 DEF Kept, Matches, InWindow
<1>5. CASE kind = "InactiveUsers"
  <2>1. /\ a.enabled /\ a.logon \in Past \cup {Absent, Zero}
        /\ \/ a.logon \in Past /\ a.logon <= -Days
           \/ a.logon \notin Past /\ a.created <= -Days /\ (withNever \/ a.logon = Zero)
    BY <1>5 DEF MustList, Meant, Attributes
  <2>2. Kept(kind, a)
    BY <1>5, <2>1 DEF Kept
  <2>3. CASE a.logon \in Past \cup {Zero}
    BY <1>1, <1>5, <2>1, <2>2, <2>3 DEF Matches, DaysAndMarkers
  <2>4. CASE a.logon \notin Past \cup {Zero}
    <3>1. a.logon = Absent /\ withNever /\ a.created <= -Days
      BY <2>1, <2>4
    <3>2. 2 \in DOMAIN Searches(kind, withNever) /\ Searches(kind, withNever)[2] = "NeverLoggedOn"
      <4>1. Len(Searches(kind, withNever)) = 2
        BY <1>5, <3>1, TheSearches
      <4> QED BY <4>1, TheSearches
    <3>3. Matches("NeverLoggedOn", a)
      BY <2>1, <3>1 DEF Matches
    <3> QED BY <2>2, <3>2, <3>3
  <2> QED BY <2>3, <2>4
<1> QED BY <1>2, <1>3, <1>4, <1>5 DEF Kinds

LEMMA StillFound ==
  ASSUME DaysAndMarkers, NEW kind \in Kinds, NEW withNever \in BOOLEAN, NEW a, NEW b \in Changes(kind, a),
         Attributes(kind, a), b.unit = a.unit,
         MustList(kind, withNever, a), MustList(kind, withNever, b),
         NEW f \in DOMAIN Searches(kind, withNever), Matches(Searches(kind, withNever)[f], a)
  PROVE  Matches(Searches(kind, withNever)[f], b)
<1>1. CASE Len(Searches(kind, withNever)) = 1
  <2>1. \A g \in DOMAIN Searches(kind, withNever) : g = f
    BY <1>1, TheSearches
  <2> QED BY <2>1, MustListIsFound, ChangedAttributes
<1>2. CASE Len(Searches(kind, withNever)) = 2
  <2>1. kind = "InactiveUsers"
    BY <1>2, TheSearches
  <2>2. DOMAIN a = {"unit", "enabled", "logon", "created"}
    BY <2>1 DEF Attributes
  <2>3. a.enabled /\ b.enabled
    BY <2>1 DEF MustList, Meant
  <2>4. b.logon # 0
    <3>1. 0 \in Past /\ ~(0 <= -Days)
      BY DEF DaysAndMarkers, Past
    <3> QED BY <2>1, <3>1 DEF MustList, Meant
  <2>5. \/ \E unit : b = [a EXCEPT !.unit = unit]
        \/ b = [a EXCEPT !.logon = 0]
        \/ b = [a EXCEPT !.enabled = ~a.enabled]
    BY <2>1 DEF Changes
  <2>6. b.enabled = a.enabled /\ b.logon = a.logon /\ b.created = a.created
    BY <2>2, <2>3, <2>4, <2>5
  <2>7. Searches(kind, withNever)[f] \in {"InactiveUsers", "NeverLoggedOn"}
    <3>1. f \in 1 .. 2
      BY <1>2, TheSearches
    <3> QED BY <1>2, <2>1, <3>1, TheSearches
  <2> QED BY <2>6, <2>7 DEF Matches
<1> QED BY <1>1, <1>2, TheSearches
-----------------------------------------------------------------------------
\* Whether a search is yet to come, and whether one that is will return an account.
Ahead(q, b, f) == b > q.base \/ (b = q.base /\ f > q.filter)

Awaited(q, a) ==
  \E b \in DOMAIN q.bases, f \in DOMAIN Searches(q.kind, q.withNever) :
    /\ Ahead(q, b, f)
    /\ Under(a, q.bases[b]) /\ Matches(Searches(q.kind, q.withNever)[f], a)

\* Where a request is, and what accounts it meets.
Located(q, dir) ==
  /\ q.kind \in Kinds /\ q.withNever \in BOOLEAN
  /\ q.base \in Nat /\ q.filter \in Nat
  /\ q.filter \in DOMAIN Searches(q.kind, q.withNever)
  /\ Len(q.bases) \in Nat /\ DOMAIN q.bases = 1 .. Len(q.bases)
  /\ \A u \in Users : Attributes(q.kind, dir[u])

\* Who has to be listed is, or is owed by this search, or awaited from a later one; and if
\* the name was seen, it was then listed.
Owing(q, dir) ==
  /\ q.owed \subseteq Found(dir, q)
  /\ \A u \in q.steady :
       /\ u \in Users /\ MustList(q.kind, q.withNever, dir[u])
       /\ DN(u, dir[u]) \in q.seen => u \in Listed(q)
       /\ u \in Listed(q) \cup q.owed \/ Awaited(q, dir[u])

\* Who is listed met what the query is meant for, and who does now is remembered.
Reasons(q, dir) ==
  /\ Listed(q) \subseteq q.ever
  /\ \A u \in Users : Meant(q.kind, q.withNever, dir[u]) => u \in q.ever

SearchInv ==
  query.pc = "search" =>
    Located(query, directory) /\ Owing(query, directory) /\ Reasons(query, directory)

LInv == IInv /\ SearchInv /\ NobodyIsMissed /\ ListedForAReason

\* One more entry is one more name.
LEMMA ListedAppend ==
  ASSUME NEW out, NEW more, NEW e, Sequence(out), more = Append(out, e)
  PROVE  {more[i].user : i \in DOMAIN more} = {out[i].user : i \in DOMAIN out} \cup {e.user}
<1>1. PICK S : out \in Seq(S)
  BY DEF Sequence
<1>2. out \in Seq(S \cup {e}) /\ e \in S \cup {e}
  BY <1>1
<1>3. /\ DOMAIN out = 1 .. Len(out) /\ Len(out) \in Nat
      /\ DOMAIN more = 1 .. Len(out) + 1
      /\ \A i \in DOMAIN out : more[i] = out[i]
      /\ more[Len(out) + 1] = e
  BY <1>2
<1>4. \A i \in DOMAIN more : (i \in DOMAIN out /\ more[i] = out[i]) \/ more[i] = e
  BY <1>3
<1>5. Len(out) + 1 \in DOMAIN more /\ DOMAIN out \subseteq DOMAIN more
  BY <1>3
<1> QED BY <1>3, <1>4, <1>5

\* What an entry changes in a request.
LEMMA EntryFields ==
  ASSUME Shape, NEW u \in Users, Entry(u)
  PROVE  /\ directory' = directory /\ answer' = answer /\ query.pc = "search"
         /\ u \in Found(directory, query)
         /\ query'.kind = query.kind /\ query'.withNever = query.withNever
         /\ query'.bases = query.bases /\ query'.base = query.base
         /\ query'.filter = query.filter /\ query'.steady = query.steady
         /\ query'.ever = query.ever /\ query'.owed = query.owed \ {u}
         /\ \/ /\ query'.seen = query.seen /\ query'.out = query.out
               /\ ~Kept(query.kind, directory[u]) \/ DN(u, directory[u]) \in query.seen
            \/ /\ query'.seen = query.seen \cup {DN(u, directory[u])}
               /\ IF Kept(query.kind, directory[u])
                  THEN query'.out = Append(query.out, [user |-> u, dn |-> DN(u, directory[u])])
                  ELSE query'.out = query.out
<1> DEFINE a == directory[u]
           q == Handle(query, u, a)
<1>1. /\ query' = [q EXCEPT !.owed = @ \ {u}] /\ DOMAIN query = Fields /\ query.pc = "search"
      /\ directory' = directory /\ answer' = answer /\ u \in Found(directory, query)
  BY DEF Entry, Shape
<1>2. CASE q = query
  <2>1. ~Kept(query.kind, a) \/ DN(u, a) \in query.seen
    <3>1. SUFFICES ASSUME Kept(query.kind, a), DN(u, a) \notin query.seen PROVE FALSE
      OBVIOUS
    <3>2. q = [query EXCEPT !.seen = @ \cup {DN(u, a)},
                 !.out = IF Kept(query.kind, a)
                         THEN Append(@, [user |-> u, dn |-> DN(u, a)]) ELSE @]
      BY <3>1 DEF Handle
    <3> HIDE DEF q, a
    <3>3. q.seen = query.seen \cup {DN(u, a)}
      BY <1>1, <3>2 DEF Fields
    <3> QED BY <1>2, <3>1, <3>3
  <2>2. query' = [query EXCEPT !.owed = @ \ {u}]
    BY <1>1, <1>2
  <2> HIDE DEF q, a
  <2>3. /\ query'.kind = query.kind /\ query'.withNever = query.withNever
        /\ query'.bases = query.bases /\ query'.base = query.base
        /\ query'.filter = query.filter /\ query'.steady = query.steady
        /\ query'.ever = query.ever /\ query'.owed = query.owed \ {u}
        /\ query'.seen = query.seen /\ query'.out = query.out
    BY <1>1, <2>2 DEF Fields
  <2> QED BY <1>1, <2>1, <2>3 DEF a
<1>3. CASE q # query
  <2>1. q = [query EXCEPT !.seen = @ \cup {DN(u, a)},
               !.out = IF Kept(query.kind, a)
                       THEN Append(@, [user |-> u, dn |-> DN(u, a)]) ELSE @]
    BY <1>3 DEF Handle
  <2> HIDE DEF q, a
  <2>2. /\ DOMAIN q = Fields
        /\ q.kind = query.kind /\ q.withNever = query.withNever
        /\ q.bases = query.bases /\ q.base = query.base
        /\ q.filter = query.filter /\ q.steady = query.steady
        /\ q.ever = query.ever /\ q.owed = query.owed
        /\ q.seen = query.seen \cup {DN(u, a)}
        /\ q.out = IF Kept(query.kind, a)
                   THEN Append(query.out, [user |-> u, dn |-> DN(u, a)]) ELSE query.out
    BY <1>1, <2>1 DEF Fields
  <2>3. /\ query'.kind = query.kind /\ query'.withNever = query.withNever
        /\ query'.bases = query.bases /\ query'.base = query.base
        /\ query'.filter = query.filter /\ query'.steady = query.steady
        /\ query'.ever = query.ever /\ query'.owed = query.owed \ {u}
        /\ query'.seen = q.seen /\ query'.out = q.out
    BY <1>1, <2>2 DEF Fields
  <2> QED BY <1>1, <2>2, <2>3 DEF a
<1> QED BY <1>2, <1>3
-----------------------------------------------------------------------------
\* What an entry does to the names listed.
LEMMA EntryNames ==
  ASSUME Shape, NEW u \in Users, Entry(u)
  PROVE  /\ Listed(query) \subseteq Listed(query')
         /\ Listed(query') \subseteq
              Listed(query) \cup {v \in {u} : Kept(query.kind, directory[u])}
         /\ Kept(query.kind, directory[u]) =>
              u \in Listed(query') \/ DN(u, directory[u]) \in query.seen
         /\ query'.seen \subseteq query.seen \cup {DN(u, directory[u])}
<1> DEFINE a == directory[u]
           entry == [user |-> u, dn |-> DN(u, a)]
<1>1. Sequence(query.out)
  BY DEF Shape
<1>2. CASE query'.out = query.out /\ query'.seen = query.seen
            /\ (~Kept(query.kind, a) \/ DN(u, a) \in query.seen)
  BY <1>2 DEF Listed
<1>3. CASE /\ query'.seen = query.seen \cup {DN(u, a)}
           /\ ~Kept(query.kind, a) /\ query'.out = query.out
  BY <1>3 DEF Listed
<1>4. CASE /\ query'.seen = query.seen \cup {DN(u, a)}
           /\ Kept(query.kind, a) /\ query'.out = Append(query.out, entry)
  <2>1. entry.user = u
    OBVIOUS
  <2> HIDE DEF entry, a
  <2>2. \A out, more : Sequence(out) /\ more = Append(out, entry) =>
          {more[i].user : i \in DOMAIN more} = {out[i].user : i \in DOMAIN out} \cup {entry.user}
    BY ListedAppend
  <2>3. Listed(query') = Listed(query) \cup {u}
    BY <1>1, <1>4, <2>1, <2>2 DEF Listed
  <2> QED BY <1>4, <2>3 DEF a
<1> QED BY <1>2, <1>3, <1>4, EntryFields

\* An entry is listed if it has to be, and only for a reason.
LEMMA EntryKeeps ==
  ASSUME DaysAndMarkers, IInv, SearchInv, NEW u \in Users, Entry(u)
  PROVE  SearchInv'
<1> DEFINE a == directory[u]
<1>1. /\ Shape /\ query.pc = "search"
      /\ Located(query, directory) /\ Owing(query, directory) /\ Reasons(query, directory)
  BY DEF IInv, SearchInv, Entry
<1>2. /\ directory' = directory /\ u \in Found(directory, query)
      /\ query'.kind = query.kind /\ query'.withNever = query.withNever
      /\ query'.bases = query.bases /\ query'.base = query.base
      /\ query'.filter = query.filter /\ query'.steady = query.steady
      /\ query'.ever = query.ever /\ query'.owed = query.owed \ {u}
  BY <1>1, EntryFields
<1>3. Located(query', directory')
  BY <1>1, <1>2 DEF Located
<1>4. Owing(query', directory')
  <2>1. query'.owed \subseteq Found(directory', query')
    BY <1>1, <1>2 DEF Owing, Found
  <2>2. ASSUME NEW v \in query.steady
        PROVE  /\ v \in Users /\ MustList(query.kind, query.withNever, directory[v])
               /\ DN(v, directory[v]) \in query.seen => v \in Listed(query)
               /\ v \in Listed(query) \cup query.owed \/ Awaited(query, directory[v])
    BY <1>1 DEF Owing
  <2>3. ASSUME NEW v \in query.steady, v # u
        PROVE  /\ DN(v, directory[v]) \in query'.seen => v \in Listed(query')
               /\ v \in Listed(query') \cup query'.owed \/ Awaited(query', directory[v])
    <3>1. DN(v, directory[v]) # DN(u, directory[u])
      BY <2>3 DEF DN
    <3>2. Awaited(query, directory[v]) => Awaited(query', directory[v])
      BY <1>2 DEF Awaited, Ahead
    <3>3. /\ Listed(query) \subseteq Listed(query')
          /\ query'.seen \subseteq query.seen \cup {DN(u, directory[u])}
      BY <1>1, EntryNames
    <3> QED BY <1>2, <2>2, <2>3, <3>1, <3>2, <3>3
  <2>4. u \in query.steady => u \in Listed(query')
    <3>1. SUFFICES ASSUME u \in query.steady PROVE u \in Listed(query')
      OBVIOUS
    <3>2. Kept(query.kind, directory[u])
      BY <1>1, <2>2, <3>1, MustListIsFound DEF Located
    <3> QED BY <1>1, <2>2, <3>1, <3>2, EntryNames
  <2> QED BY <1>2, <2>1, <2>2, <2>3, <2>4 DEF Owing
<1>5. Reasons(query', directory')
  <2>1. Kept(query.kind, directory[u]) => Meant(query.kind, query.withNever, directory[u])
    <3>1. Matches(Searches(query.kind, query.withNever)[query.filter], directory[u])
      BY <1>2 DEF Found
    <3> QED BY <1>1, <3>1, KeptIsMeant DEF Located
  <2>2. Listed(query') \subseteq query.ever
    BY <1>1, <2>1, EntryNames DEF Reasons
  <2> QED BY <1>1, <1>2, <2>2 DEF Reasons
<1> QED BY <1>3, <1>4, <1>5 DEF SearchInv

\* A change that ends what had to be listed ends it in steady too, and one that begins a
\* reason is remembered.
LEMMA ChangeKeeps ==
  ASSUME DaysAndMarkers, IInv, SearchInv, NEW u \in Users, Change(u)
  PROVE  SearchInv'
<1>1. /\ DOMAIN directory = Users /\ DOMAIN query = Fields /\ query.pc = "search"
      /\ Located(query, directory) /\ Owing(query, directory) /\ Reasons(query, directory)
  BY DEF IInv, Shape, SearchInv, Change
<1>2. PICK b \in Changes(query.kind, directory[u]) :
        /\ directory' = [directory EXCEPT ![u] = b]
        /\ query' = [query EXCEPT
             !.owed = @ \cap Found(directory', query),
             !.steady = IF MustList(query.kind, query.withNever, b)
                           /\ b.unit = directory[u].unit THEN @ ELSE @ \ {u},
             !.ever = IF Meant(query.kind, query.withNever, b) THEN @ \cup {u} ELSE @,
             !.moved = IF b.unit = directory[u].unit THEN @ ELSE @ \cup {u}]
  BY DEF Change
<1>3. /\ query'.kind = query.kind /\ query'.withNever = query.withNever
      /\ query'.bases = query.bases /\ query'.base = query.base
      /\ query'.filter = query.filter /\ query'.seen = query.seen /\ query'.out = query.out
      /\ query'.owed = query.owed \cap Found(directory', query)
      /\ query'.steady = IF MustList(query.kind, query.withNever, b)
                            /\ b.unit = directory[u].unit
                         THEN query.steady ELSE query.steady \ {u}
      /\ query'.ever = IF Meant(query.kind, query.withNever, b)
                       THEN query.ever \cup {u} ELSE query.ever
  BY <1>1, <1>2 DEF Fields
<1>4. /\ directory'[u] = b
      /\ \A v \in Users : v # u => directory'[v] = directory[v]
  BY <1>1, <1>2
<1>5. Listed(query') = Listed(query)
  BY <1>3 DEF Listed
<1>6. Located(query', directory')
  <2>1. query.kind \in Kinds /\ Attributes(query.kind, directory[u])
    BY <1>1 DEF Located
  <2>2. Attributes(query.kind, b)
    BY <2>1, ChangedAttributes
  <2> QED BY <1>1, <1>3, <1>4, <2>2 DEF Located
<1>7. Owing(query', directory')
  <2>1. query'.owed \subseteq Found(directory', query')
    BY <1>3 DEF Found
  <2>2. ASSUME NEW v \in query.steady
        PROVE  /\ v \in Users /\ MustList(query.kind, query.withNever, directory[v])
               /\ DN(v, directory[v]) \in query.seen => v \in Listed(query)
               /\ v \in Listed(query) \cup query.owed \/ Awaited(query, directory[v])
               /\ v \in query.owed => v \in Found(directory, query)
    BY <1>1 DEF Owing
  <2>3. ASSUME NEW v \in query.steady, v # u
        PROVE  /\ v \in query.owed => v \in query'.owed
               /\ Awaited(query, directory[v]) => Awaited(query', directory'[v])
    <3>1. directory'[v] = directory[v] /\ v \in Users
      BY <1>4, <2>2, <2>3
    <3>2. v \in Found(directory, query) => v \in Found(directory', query)
      BY <3>1 DEF Found
    <3>3. Awaited(query, directory[v]) => Awaited(query', directory'[v])
      BY <1>3, <3>1 DEF Awaited, Ahead
    <3> QED BY <1>3, <2>2, <3>2, <3>3
  <2>4. ASSUME u \in query'.steady
        PROVE  /\ MustList(query.kind, query.withNever, b) /\ b.unit = directory[u].unit
               /\ u \in query.owed => u \in query'.owed
               /\ Awaited(query, directory[u]) => Awaited(query', directory'[u])
    <3>1. /\ MustList(query.kind, query.withNever, b) /\ b.unit = directory[u].unit
          /\ u \in query.steady
      BY <1>3, <2>4
    <3>2. ASSUME NEW f \in DOMAIN Searches(query.kind, query.withNever),
                 Matches(Searches(query.kind, query.withNever)[f], directory[u])
          PROVE  Matches(Searches(query.kind, query.withNever)[f], b)
      <4>1. /\ query.kind \in Kinds /\ query.withNever \in BOOLEAN
            /\ Attributes(query.kind, directory[u])
            /\ MustList(query.kind, query.withNever, directory[u])
        BY <1>1, <2>2, <3>1 DEF Located
      <4> QED BY <3>1, <3>2, <4>1, StillFound
    <3>3. \A base : Under(directory[u], base) => Under(b, base)
      BY <3>1 DEF Under
    <3>4. u \in Found(directory, query) => u \in Found(directory', query)
      BY <1>1, <1>4, <3>2, <3>3 DEF Found, Located
    <3>5. Awaited(query, directory[u]) => Awaited(query', directory'[u])
      BY <1>3, <1>4, <3>2, <3>3 DEF Awaited, Ahead
    <3> QED BY <1>3, <2>2, <3>1, <3>4, <3>5
  <2>5. ASSUME NEW v \in query'.steady
        PROVE  /\ v \in Users /\ MustList(query'.kind, query'.withNever, directory'[v])
               /\ DN(v, directory'[v]) \in query'.seen => v \in Listed(query')
               /\ v \in Listed(query') \cup query'.owed \/ Awaited(query', directory'[v])
    <3>1. v \in query.steady
      BY <1>3, <2>5
    <3>2. CASE v # u
      BY <1>3, <1>4, <1>5, <2>2, <2>3, <3>1, <3>2
    <3>3. CASE v = u
      <4>1. DN(v, directory'[v]) = DN(v, directory[v])
        BY <1>4, <2>4, <2>5, <3>3 DEF DN
      <4> QED BY <1>3, <1>4, <1>5, <2>2, <2>4, <2>5, <3>1, <3>3, <4>1
    <3> QED BY <3>2, <3>3
  <2> QED BY <2>1, <2>5 DEF Owing
<1>8. Reasons(query', directory')
  BY <1>1, <1>3, <1>4, <1>5 DEF Reasons
<1> QED BY <1>6, <1>7, <1>8 DEF SearchInv

\* The bases are a list, and there is a first search.
LEMMA BasesAreAList ==
  ASSUME NEW bases \in BaseLists
  PROVE  /\ Len(ResolveSearchBases(bases)) \in Nat
         /\ DOMAIN ResolveSearchBases(bases) = 1 .. Len(ResolveSearchBases(bases))
<1>1. CASE bases = <<>>
  <2>1. ResolveSearchBases(bases) = <<Domain>>
    BY <1>1 DEF ResolveSearchBases
  <2>2. Len(<<Domain>>) = 1 /\ DOMAIN <<Domain>> = 1 .. 1
    OBVIOUS
  <2> QED BY <2>1, <2>2
<1>2. CASE bases # <<>>
  <2>1. ResolveSearchBases(bases) = bases
    BY <1>2 DEF ResolveSearchBases
  <2>2. PICK n \in Nat : bases \in [1 .. n -> Units \cup {Domain}]
    BY DEF BaseLists
  <2>3. bases \in Seq(Units \cup {Domain})
    BY <2>2
  <2>4. Len(bases) \in Nat /\ DOMAIN bases = 1 .. Len(bases)
    BY <2>3
  <2> QED BY <2>1, <2>4
<1> QED BY <1>1, <1>2

\* A request owes at first whom the first search matches, and awaits the others.
LEMMA BeginKeeps ==
  ASSUME DaysAndMarkers, NEW kind \in Kinds, NEW withNever \in BOOLEAN, NEW bases \in BaseLists,
         Begin(kind, withNever, bases)
  PROVE  SearchInv'
<1> DEFINE q == [Idle EXCEPT !.pc = "search", !.kind = kind, !.withNever = withNever,
                             !.bases = ResolveSearchBases(bases)]
           meant == {u \in Users : Meant(kind, withNever, directory'[u])}
           must == {u \in Users : MustList(kind, withNever, directory'[u])}
<1>1. /\ query' = [q EXCEPT !.owed = Found(directory', q), !.ever = meant,
                            !.steady = must \cap Searched(directory', q)]
      /\ directory' \in [Users -> Accounts(kind)]
  BY DEF Begin
<1>2. /\ DOMAIN q = Fields /\ q.kind = kind /\ q.withNever = withNever
      /\ q.bases = ResolveSearchBases(bases) /\ q.base = 1 /\ q.filter = 1
      /\ q.seen = {} /\ q.out = <<>>
  BY DEF Idle, Fields
<1> HIDE DEF q
<1>3. /\ query'.kind = q.kind /\ query'.withNever = q.withNever /\ query'.bases = q.bases
      /\ query'.base = q.base /\ query'.filter = q.filter
      /\ query'.seen = {} /\ query'.out = <<>>
      /\ query'.owed = Found(directory', q) /\ query'.ever = meant
      /\ query'.steady = must \cap Searched(directory', q)
  BY <1>1, <1>2 DEF Fields
<1>4. Listed(query') = {}
  <2>1. DOMAIN <<>> = {}
    OBVIOUS
  <2> QED BY <1>3, <2>1 DEF Listed
<1>5. \A u \in Users : Attributes(kind, directory'[u])
  BY <1>1, AccountAttributes
<1>6. 1 \in DOMAIN Searches(kind, withNever)
  BY TheSearches
<1>7. Located(query', directory')
  BY <1>2, <1>3, <1>5, <1>6, BasesAreAList DEF Located
<1>8. Owing(query', directory')
  <2>1. query'.owed = Found(directory', query')
    BY <1>3 DEF Found
  <2>2. ASSUME NEW u \in query'.steady
        PROVE  u \in query'.owed \/ Awaited(query', directory'[u])
    <3>1. /\ u \in Users /\ MustList(kind, withNever, directory'[u])
          /\ u \in Searched(directory', q)
      BY <1>3
    <3>2. PICK b \in DOMAIN q.bases : Under(directory'[u], q.bases[b])
      BY <3>1 DEF Searched
    <3>3. PICK f \in DOMAIN Searches(kind, withNever) :
            Matches(Searches(kind, withNever)[f], directory'[u])
      BY <1>5, <3>1, MustListIsFound
    <3>4. b \in Nat /\ b >= 1 /\ f \in Nat /\ f >= 1
      <4>1. b \in 1 .. Len(q.bases) /\ Len(q.bases) \in Nat
        BY <1>2, BasesAreAList
      <4>2. f \in 1 .. 2
        BY TheSearches
      <4> QED BY <4>1, <4>2
    <3>5. CASE b = 1 /\ f = 1
      BY <1>2, <1>3, <2>1, <3>1, <3>2, <3>3, <3>5 DEF Found
    <3>6. CASE b # 1 \/ f # 1
      <4>1. Ahead(query', b, f)
        BY <1>2, <1>3, <3>4, <3>6 DEF Ahead
      <4> QED BY <1>2, <1>3, <3>2, <3>3, <4>1 DEF Awaited
    <3> QED BY <3>5, <3>6
  <2> QED BY <1>2, <1>3, <2>1, <2>2 DEF Owing
<1>9. Reasons(query', directory')
  BY <1>2, <1>3, <1>4 DEF Reasons
<1> QED BY <1>7, <1>8, <1>9 DEF SearchInv

\* The next search owes whom it matches of those awaited.
LEMMA NextSearchKeeps ==
  ASSUME DaysAndMarkers, IInv, SearchInv, NextSearch
  PROVE  SearchInv'
<1> DEFINE q == IF LastFilter(query) THEN [query EXCEPT !.base = @ + 1, !.filter = 1]
                ELSE [query EXCEPT !.filter = @ + 1]
           searches == Searches(query.kind, query.withNever)
<1>1. /\ query' = [q EXCEPT !.owed = Found(directory, q)] /\ directory' = directory
      /\ query.pc = "search" /\ query.owed = {} /\ DOMAIN query = Fields
      /\ Located(query, directory) /\ Owing(query, directory) /\ Reasons(query, directory)
  BY DEF NextSearch, IInv, Shape, SearchInv
<1>2. /\ DOMAIN q = Fields /\ q.kind = query.kind /\ q.withNever = query.withNever
      /\ q.bases = query.bases /\ q.seen = query.seen /\ q.out = query.out
      /\ q.steady = query.steady /\ q.ever = query.ever
      /\ LastFilter(query) => q.base = query.base + 1 /\ q.filter = 1
      /\ ~LastFilter(query) => q.base = query.base /\ q.filter = query.filter + 1
  BY <1>1 DEF Fields
<1> HIDE DEF q
<1>3. /\ query'.kind = query.kind /\ query'.withNever = query.withNever
      /\ query'.bases = query.bases /\ query'.base = q.base /\ query'.filter = q.filter
      /\ query'.seen = query.seen /\ query'.out = query.out
      /\ query'.steady = query.steady /\ query'.ever = query.ever
      /\ query'.owed = Found(directory, q)
  BY <1>1, <1>2 DEF Fields
<1>4. Listed(query') = Listed(query)
  BY <1>3 DEF Listed
<1>5. /\ query.base \in Nat /\ query.filter \in 1 .. Len(searches)
      /\ Len(searches) \in {1, 2} /\ DOMAIN searches = 1 .. Len(searches)
  BY <1>1, TheSearches DEF Located
<1>6. LastFilter(query) <=> query.filter = Len(searches)
  BY DEF LastFilter
<1> HIDE DEF searches
<1>7. q.base \in Nat /\ q.filter \in Nat /\ q.filter \in DOMAIN searches
  BY <1>2, <1>5, <1>6
<1>8. Located(query', directory')
  BY <1>1, <1>3, <1>7 DEF Located, searches
<1>9. Owing(query', directory')
  <2>1. query'.owed = Found(directory', query')
    BY <1>1, <1>2, <1>3 DEF Found
  <2>2. ASSUME NEW u \in query.steady, u \notin Listed(query)
        PROVE  u \in query'.owed \/ Awaited(query', directory'[u])
    <3>1. u \in Users /\ Awaited(query, directory[u])
      BY <1>1, <2>2 DEF Owing
    <3>2. PICK b \in DOMAIN query.bases, f \in DOMAIN searches :
            /\ Ahead(query, b, f)
            /\ Under(directory[u], query.bases[b]) /\ Matches(searches[f], directory[u])
      BY <3>1 DEF Awaited, searches
    <3>3. b \in Nat /\ f \in 1 .. Len(searches)
      BY <1>1, <1>5, <3>2 DEF Located
    <3>4. (b = q.base /\ f = q.filter) \/ Ahead(q, b, f)
      BY <1>2, <1>5, <1>6, <3>2, <3>3 DEF Ahead
    <3>5. CASE b = q.base /\ f = q.filter
      BY <1>2, <1>3, <3>1, <3>2, <3>5 DEF Found, searches
    <3>6. CASE Ahead(q, b, f)
      BY <1>1, <1>3, <3>2, <3>6 DEF Awaited, Ahead, searches
    <3> QED BY <3>4, <3>5, <3>6
  <2> QED BY <1>1, <1>3, <1>4, <2>1, <2>2 DEF Owing
<1>10. Reasons(query', directory')
  BY <1>1, <1>3, <1>4 DEF Reasons
<1> QED BY <1>8, <1>9, <1>10 DEF SearchInv

\* After the last search nobody is owed or awaited.
LEMMA FinishKeeps ==
  ASSUME IInv, SearchInv, Finish
  PROVE  SearchInv' /\ NobodyIsMissed' /\ ListedForAReason'
<1>1. /\ query.pc = "search" /\ query.owed = {} /\ LastFilter(query)
      /\ query.base = Len(query.bases)
      /\ answer' = [kind |-> "list", query |-> query] /\ query' = Idle
      /\ Located(query, directory) /\ Owing(query, directory) /\ Reasons(query, directory)
  BY DEF Finish, SearchInv
<1>2. ASSUME NEW u \in query.steady PROVE ~Awaited(query, directory[u])
  <2>1. ASSUME NEW b \in DOMAIN query.bases,
               NEW f \in DOMAIN Searches(query.kind, query.withNever)
        PROVE  ~Ahead(query, b, f)
    <3>1. b \in 1 .. Len(query.bases) /\ Len(query.bases) \in Nat
      BY <1>1 DEF Located
    <3>2. /\ f \in 1 .. Len(Searches(query.kind, query.withNever))
          /\ Len(Searches(query.kind, query.withNever)) \in {1, 2}
      BY <1>1, TheSearches DEF Located
    <3> QED BY <1>1, <3>1, <3>2 DEF Ahead, LastFilter
  <2> QED BY <2>1 DEF Awaited
<1>3. query.steady \subseteq Listed(query) /\ Listed(query) \subseteq query.ever
  BY <1>1, <1>2 DEF Owing, Reasons
<1>4. answer'.query = query
  BY <1>1
<1> QED BY <1>1, <1>3, <1>4, IdleShape DEF SearchInv, NobodyIsMissed, ListedForAReason, Listed

LEMMA NothingAnswered ==
  /\ NoAnswer.kind = "none"
  /\ \A r : [kind |-> "error", query |-> r].kind = "error"
BY DEF NoAnswer

LEMMA LInvInit == Init => LInv
<1> SUFFICES ASSUME Init PROVE LInv
  OBVIOUS
<1>1. query.pc = "idle" /\ answer.kind = "none"
  BY IdleShape, NothingAnswered DEF Init
<1> QED BY <1>1, InvInit DEF LInv, SearchInv, NobodyIsMissed, ListedForAReason

LEMMA LInvNext ==
  ASSUME DaysAndMarkers
  PROVE  LInv /\ [Next]_vars => LInv'
<1> SUFFICES ASSUME LInv, [Next]_vars PROVE LInv'
  OBVIOUS
<1>1. IInv /\ IInv' /\ SearchInv
  BY InvNext DEF LInv
<1>2. answer' = answer => NobodyIsMissed' /\ ListedForAReason'
  BY DEF LInv, NobodyIsMissed, ListedForAReason, Listed
<1>3. ASSUME NEW kind \in Kinds, NEW withNever \in BOOLEAN, NEW bases \in BaseLists,
             Begin(kind, withNever, bases)
      PROVE  LInv'
  BY <1>1, <1>2, <1>3, BeginKeeps DEF LInv, Begin
<1>4. ASSUME NEW u \in Users, Entry(u) PROVE LInv'
  BY <1>1, <1>2, <1>4, EntryKeeps DEF LInv, Entry
<1>5. ASSUME NEW u \in Users, Change(u) PROVE LInv'
  BY <1>1, <1>2, <1>5, ChangeKeeps DEF LInv, Change
<1>6. CASE NextSearch
  BY <1>1, <1>2, <1>6, NextSearchKeeps DEF LInv, NextSearch
<1>7. CASE Finish
  BY <1>1, <1>7, FinishKeeps DEF LInv
<1>8. CASE PageFails \/ Return
  <2>1. query'.pc = "idle" /\ answer'.kind \in {"error", "none"}
    BY <1>1, <1>8, IdleShape, NothingAnswered DEF PageFails, Return, IInv, Shape
  <2> QED BY <1>1, <2>1 DEF LInv, SearchInv, NobodyIsMissed, ListedForAReason
<1>9. CASE UNCHANGED vars
  BY <1>1, <1>2, <1>9 DEF LInv, vars, SearchInv, Located, Owing, Reasons, Found, Awaited, Ahead, Listed
<1> QED BY <1>3, <1>4, <1>5, <1>6, <1>7, <1>8, <1>9 DEF Next

-----------------------------------------------------------------------------
\* Whoever a query is meant for, and stays so where a base is searched from the first page
\* to the last, is in its list (searchEach and the five get functions).
THEOREM NobodyLeftOut ==
  ASSUME DaysAndMarkers
  PROVE  Spec => []NobodyIsMissed
<1>1. LInv => NobodyIsMissed
  BY DEF LInv
<1> QED BY <1>1, LInvInit, LInvNext, PTL DEF Spec

\* Everybody in a list met what the query is meant for at some moment of it: the filters
\* and the checks of the callbacks let nobody else through.
THEOREM NobodyWithoutReason ==
  ASSUME DaysAndMarkers
  PROVE  Spec => []ListedForAReason
<1>1. LInv => ListedForAReason
  BY DEF LInv
<1> QED BY <1>1, LInvInit, LInvNext, PTL DEF Spec
=============================================================================
