------------------------------- MODULE ApiProofs -------------------------------
(***************************************************************************)
(* What the HTTP API answers, for any number of handlers, requests,        *)
(* channels, sockets and users.                                            *)
(***************************************************************************)
EXTENDS Api, FiniteSetTheorems, TLAPS

-------------------------------------------------------------------------------
(* Sorting, and the string a client signs.                                  *)

\* The members of S one after the other, their ranks rising.
Rising(f, S, rank) ==
    /\ f \in [1 .. Cardinality(S) -> S]
    /\ IsInjective(f)
    /\ \A i, j \in DOMAIN f : i < j => rank[f[i]] <= rank[f[j]]

\* The members that rank no higher than x.
UpTo(x, S, rank) == {y \in S : rank[y] <= rank[x]}

\* Ranks tell the members of S apart.
Ranked(S, rank) ==
    /\ IsFiniteSet(S)
    /\ rank \in [S -> Nat]
    /\ \A x, y \in S : rank[x] = rank[y] => x = y

\* The place of a member in a sequence that rises is how many rank no higher, and every
\* member has one.
LEMMA RisingPlace ==
    ASSUME NEW S, NEW rank, Ranked(S, rank), NEW f, Rising(f, S, rank)
    PROVE  /\ \A i \in 1 .. Cardinality(S) : Cardinality(UpTo(f[i], S, rank)) = i
           /\ \A x \in S : \E i \in 1 .. Cardinality(S) : f[i] = x
<1> DEFINE n == Cardinality(S)
<1>1. n \in Nat /\ IsFiniteSet(1 .. n) /\ Cardinality(1 .. n) = n
  BY FS_CardinalityType, FS_Interval DEF Ranked
<1>2. f \in Injection(1 .. n, S)
  BY DEF Rising, Injection
<1>3. f \in Surjection(1 .. n, S)
  BY <1>1, <1>2, FS_Injection DEF Ranked
<1>4. \A x \in S : \E i \in 1 .. n : f[i] = x
  BY <1>3 DEF Surjection
<1> HIDE DEF n
<1>5. /\ \A j \in 1 .. n : f[j] \in S /\ rank[f[j]] \in Nat
      /\ \A j, k \in 1 .. n : f[j] = f[k] => j = k
      /\ \A j, k \in 1 .. n : j < k => rank[f[j]] <= rank[f[k]]
  BY DEF Rising, Ranked, IsInjective, n
<1>6. ASSUME NEW i \in 1 .. n PROVE Cardinality(UpTo(f[i], S, rank)) = i
  <2> DEFINE U == UpTo(f[i], S, rank)
             g == [j \in 1 .. i |-> f[j]]
  <2>1. i \in Nat /\ i >= 1 /\ i <= n /\ \A j \in 1 .. i : j \in 1 .. n
    BY <1>1
  <2>2. \A j \in 1 .. i : f[j] \in U
    <3> SUFFICES ASSUME NEW j \in 1 .. i PROVE f[j] \in U
      OBVIOUS
    <3>1. j = i \/ j < i
      BY <2>1
    <3>2. rank[f[j]] <= rank[f[i]]
      BY <1>5, <2>1, <3>1
    <3> QED
      BY <1>5, <2>1, <3>2 DEF UpTo
  <2>3. \A y \in U : \E j \in 1 .. i : f[j] = y
    <3> SUFFICES ASSUME NEW y \in U PROVE \E j \in 1 .. i : f[j] = y
      OBVIOUS
    <3>1. y \in S /\ rank[y] <= rank[f[i]]
      BY DEF UpTo
    <3>2. PICK j \in 1 .. n : f[j] = y
      BY <1>4, <3>1
    <3>3. ASSUME j > i PROVE FALSE
      <4>1. rank[f[i]] <= rank[f[j]] /\ rank[f[i]] \in Nat /\ rank[f[j]] \in Nat
        BY <1>5, <2>1, <3>3
      <4>2. rank[f[i]] = rank[f[j]]
        BY <3>1, <3>2, <4>1
      <4>3. f[i] = f[j]
        BY <1>5, <4>2 DEF Ranked
      <4> QED
        BY <1>5, <2>1, <3>3, <4>3
    <3>4. j \in 1 .. i
      BY <2>1, <3>3
    <3> QED
      BY <3>2, <3>4
  <2> HIDE DEF U
  <2>4. g \in Bijection(1 .. i, U)
    <3>1. g \in [1 .. i -> U] /\ \A j \in 1 .. i : g[j] = f[j]
      BY <2>2
    <3>2. \A j, k \in 1 .. i : g[j] = g[k] => j = k
      BY <1>5, <2>1, <3>1
    <3>3. \A y \in U : \E j \in 1 .. i : g[j] = y
      BY <2>3, <3>1
    <3> HIDE DEF g
    <3> QED
      BY <3>1, <3>2, <3>3 DEF Bijection, Injection, Surjection, IsInjective
  <2>5. IsFiniteSet(1 .. i) /\ Cardinality(1 .. i) = i
    BY <2>1, FS_Interval
  <2>6. ExistsBijection(1 .. i, U)
    BY <2>4 DEF ExistsBijection
  <2> QED
    BY <2>5, <2>6, FS_Bijection DEF U
<1> QED
  BY <1>4, <1>6 DEF n

\* There is no more than one.
LEMMA RisingOnce ==
    ASSUME NEW S, NEW rank, Ranked(S, rank),
           NEW f, Rising(f, S, rank), NEW g, Rising(g, S, rank)
    PROVE  f = g
<1> DEFINE n == Cardinality(S)
<1>1. f \in [1 .. n -> S] /\ g \in [1 .. n -> S]
  BY DEF Rising
<1>2. ASSUME NEW i \in 1 .. n PROVE f[i] = g[i]
  <2>0. \A x \in S : \E j \in 1 .. n : g[j] = x
    BY RisingPlace
  <2>1. PICK j \in 1 .. n : g[j] = f[i]
    BY <1>1, <2>0
  <2>2. /\ Cardinality(UpTo(f[i], S, rank)) = i
        /\ Cardinality(UpTo(g[j], S, rank)) = j
    BY RisingPlace
  <2> QED
    BY <2>1, <2>2
<1> HIDE DEF n
<1>3. f = [i \in 1 .. n |-> f[i]] /\ g = [i \in 1 .. n |-> g[i]]
  BY <1>1
<1>4. [i \in 1 .. n |-> f[i]] = [i \in 1 .. n |-> g[i]]
  BY <1>2
<1> QED
  BY <1>3, <1>4

\* And there is one.
LEMMA RisingExists ==
    ASSUME NEW S, NEW rank, Ranked(S, rank)
    PROVE  \E f : Rising(f, S, rank)
<1> DEFINE n == Cardinality(S)
           c == [x \in S |-> Cardinality(UpTo(x, S, rank))]
           f == [i \in 1 .. n |-> CHOOSE x \in S : c[x] = i]
<1>1. n \in Nat /\ IsFiniteSet(1 .. n) /\ Cardinality(1 .. n) = n
  BY FS_CardinalityType, FS_Interval DEF Ranked
<1>2. \A x, y \in S : rank[x] <= rank[y] =>
        /\ UpTo(x, S, rank) \subseteq UpTo(y, S, rank)
        /\ Cardinality(UpTo(x, S, rank)) <= Cardinality(UpTo(y, S, rank))
        /\ Cardinality(UpTo(x, S, rank)) = Cardinality(UpTo(y, S, rank)) => x = y
  <2> SUFFICES ASSUME NEW x \in S, NEW y \in S, rank[x] <= rank[y]
               PROVE  /\ UpTo(x, S, rank) \subseteq UpTo(y, S, rank)
                      /\ Cardinality(UpTo(x, S, rank)) <= Cardinality(UpTo(y, S, rank))
                      /\ Cardinality(UpTo(x, S, rank)) = Cardinality(UpTo(y, S, rank)) => x = y
    OBVIOUS
  <2>1. UpTo(x, S, rank) \subseteq UpTo(y, S, rank) /\ y \in UpTo(y, S, rank)
    BY DEF UpTo, Ranked
  <2>2. IsFiniteSet(UpTo(y, S, rank))
    BY FS_Subset DEF UpTo, Ranked
  <2>3. /\ Cardinality(UpTo(x, S, rank)) <= Cardinality(UpTo(y, S, rank))
        /\ Cardinality(UpTo(y, S, rank)) = Cardinality(UpTo(x, S, rank))
            => UpTo(y, S, rank) = UpTo(x, S, rank)
    BY <2>1, <2>2, FS_Subset
  <2>4. y \in UpTo(x, S, rank) => x = y
    BY DEF UpTo, Ranked
  <2> QED
    BY <2>1, <2>3, <2>4
<1>3. \A x \in S : c[x] \in 1 .. n
  <2> SUFFICES ASSUME NEW x \in S PROVE Cardinality(UpTo(x, S, rank)) \in 1 .. n
    OBVIOUS
  <2>1. UpTo(x, S, rank) \subseteq S /\ x \in UpTo(x, S, rank)
    BY DEF UpTo, Ranked
  <2>2. /\ IsFiniteSet(UpTo(x, S, rank))
        /\ Cardinality(UpTo(x, S, rank)) <= n
    BY <2>1, FS_Subset DEF Ranked
  <2>3. Cardinality(UpTo(x, S, rank)) \in Nat /\ Cardinality(UpTo(x, S, rank)) # 0
    BY <2>1, <2>2, FS_CardinalityType, FS_EmptySet
  <2> QED
    BY <1>1, <2>2, <2>3
<1>4. \A x, y \in S : c[x] = c[y] => x = y
  <2> SUFFICES ASSUME NEW x \in S, NEW y \in S,
                      Cardinality(UpTo(x, S, rank)) = Cardinality(UpTo(y, S, rank))
               PROVE  x = y
    OBVIOUS
  <2>1. rank[x] <= rank[y] \/ rank[y] <= rank[x]
    BY DEF Ranked
  <2> QED
    BY <1>2, <2>1
<1>5. c \in Injection(S, 1 .. n)
  BY <1>3, <1>4 DEF Injection, IsInjective
<1>6. c \in Surjection(S, 1 .. n)
  BY <1>1, <1>5, FS_Injection
<1>7. \A i \in 1 .. n : f[i] \in S /\ Cardinality(UpTo(f[i], S, rank)) = i
  <2> SUFFICES ASSUME NEW i \in 1 .. n
               PROVE  f[i] \in S /\ Cardinality(UpTo(f[i], S, rank)) = i
    OBVIOUS
  <2>1. \E x \in S : c[x] = i
    BY <1>6 DEF Surjection
  <2>2. f[i] \in S /\ c[f[i]] = i
    BY <2>1
  <2> QED
    BY <2>2
<1>8. f \in [1 .. n -> S]
  BY <1>7
<1> HIDE DEF f, c
<1>9. ASSUME NEW i \in 1 .. n, NEW j \in 1 .. n, i < j PROVE rank[f[i]] <= rank[f[j]]
  <2>1. rank[f[i]] \in Nat /\ rank[f[j]] \in Nat
    BY <1>7 DEF Ranked
  <2>2. rank[f[j]] <= rank[f[i]] => j <= i
    BY <1>2, <1>7
  <2> QED
    BY <1>1, <1>9, <2>1, <2>2
<1>10. Rising(f, S, rank)
  BY <1>7, <1>8, <1>9 DEF Rising, IsInjective
<1> QED
  BY <1>10

\* So sorting finds it (sort.Strings).
LEMMA SortedRises ==
    ASSUME NEW S, NEW rank, Ranked(S, rank)
    PROVE  /\ Rising(Sorted(S, rank), S, rank)
           /\ \A f : Rising(f, S, rank) => f = Sorted(S, rank)
<1>1. \E f \in [1 .. Cardinality(S) -> S] :
        /\ IsInjective(f)
        /\ \A i, j \in DOMAIN f : i < j => rank[f[i]] <= rank[f[j]]
  BY RisingExists DEF Rising
<1>2. Rising(Sorted(S, rank), S, rank)
  BY <1>1 DEF Rising, Sorted
<1> QED
  BY <1>2, RisingOnce

\* A client that sorts its own query, all keys in lower case and with one value, signs the
\* string the server makes of it (prepareQueryString).
LEMMA CanonicalAgrees ==
    ASSUME NEW query, Canonical(query),
           DOMAIN query \subseteq Keys, IsFiniteSet(DOMAIN query)
    PROVE  Documented(query) = prepareQueryString(query)
<1> DEFINE D == DOMAIN query
           r == [k \in D |-> Rank[Lower[k]]]
           P == {<<Lower[k], query[k]>> : k \in D}
           rp == [p \in P |-> Rank[p[1]]]
           n == Cardinality(D)
           order == Sorted(D, r)
           g == prepareQueryString(query)
<1>1. \A k \in D : /\ k \in Keys /\ Lower[k] = k /\ r[k] = Rank[k] /\ Rank[k] \in Nat
                   /\ query[k] = <<Head(query[k])>>
  BY SignatureAssumption DEF Canonical
<1>2. Ranked(D, r)
  <2>1. r \in [D -> Nat] /\ \A x, y \in D : r[x] = r[y] => x = y
    BY <1>1, SignatureAssumption
  <2> QED
    BY <2>1 DEF Ranked
<1>3. Rising(order, D, r)
  BY <1>2, SortedRises
<1>4. /\ order \in [1 .. n -> D]
      /\ \A i, j \in 1 .. n : order[i] = order[j] => i = j
      /\ \A i, j \in 1 .. n : i < j => r[order[i]] <= r[order[j]]
  BY <1>3 DEF Rising, IsInjective
<1>5. g = [i \in 1 .. n |-> <<order[i], query[order[i]]>>]
  <2>1. g = [i \in 1 .. n |-> <<Lower[order[i]], <<Get(query, Lower[order[i]])>>>>]
    BY <1>4 DEF prepareQueryString, Pieces
  <2>2. \A i \in 1 .. n : Lower[order[i]] = order[i] /\ <<Get(query, order[i])>> = query[order[i]]
    BY <1>1, <1>4 DEF Get
  <2> HIDE DEF order, n, g
  <2> QED
    BY <2>1, <2>2
<1>6. P = {<<k, query[k]>> : k \in D}
  BY <1>1
<1>7. Cardinality(P) = n /\ IsFiniteSet(P)
  <2> DEFINE b == [k \in D |-> <<k, query[k]>>]
  <2>1. b \in Bijection(D, P)
    <3>1. b \in [D -> P] /\ (\A j, k \in D : b[j] = b[k] => j = k) /\ \A p \in P : \E k \in D : b[k] = p
      BY <1>6
    <3> QED
      BY <3>1 DEF Bijection, Injection, Surjection, IsInjective
  <2> QED
    BY <2>1, FS_Bijection DEF ExistsBijection
<1>8. Ranked(P, rp)
  <2>1. rp \in [P -> Nat] /\ \A p, q \in P : rp[p] = rp[q] => p = q
    BY <1>1, <1>6, SignatureAssumption
  <2> QED
    BY <1>7, <2>1 DEF Ranked
<1>9. Rising(g, P, rp)
  <2>1. \A i \in 1 .. n : order[i] \in D /\ g[i] = <<order[i], query[order[i]]>> /\ g[i] \in P
    BY <1>4, <1>5, <1>6
  <2>2. \A i \in 1 .. n : rp[g[i]] = r[order[i]] /\ g[i][1] = order[i]
    BY <1>1, <2>1
  <2>3. g \in [1 .. n -> P] /\ DOMAIN g = 1 .. n
    BY <1>5, <2>1
  <2> HIDE DEF g, r, rp, P, order, n
  <2>4. /\ \A i, j \in 1 .. n : g[i] = g[j] => i = j
        /\ \A i, j \in 1 .. n : i < j => rp[g[i]] <= rp[g[j]]
    BY <1>4, <2>2
  <2> QED
    BY <1>7, <2>3, <2>4 DEF Rising, IsInjective
<1>10. g = Sorted(P, rp)
  <2> HIDE DEF g, P, rp
  <2> QED
    BY <1>8, <1>9, SortedRises
<1> QED
  BY <1>10 DEF Documented

-------------------------------------------------------------------------------
\* The channels a POST has still to publish to once it has published to the first.
LEMMA ToSetTail ==
    ASSUME NEW s \in Seq(Channels), s # <<>>
    PROVE  /\ Head(s) \in Channels
           /\ Tail(s) \in Seq(Channels)
           /\ ToSet(s) = {Head(s)} \cup ToSet(Tail(s))
<1>1. /\ Tail(s) \in Seq(Channels)
      /\ Len(Tail(s)) = Len(s) - 1
      /\ \A x \in 1 .. Len(s) - 1 : Tail(s)[x] = s[x + 1]
      /\ Head(s) = s[1]
      /\ DOMAIN s = 1 .. Len(s) /\ DOMAIN Tail(s) = 1 .. Len(Tail(s))
  OBVIOUS
<1>2. Len(s) \in Nat /\ Len(s) >= 1
  OBVIOUS
<1>3. Head(s) \in Channels /\ Head(s) \in ToSet(s)
  BY <1>1, <1>2 DEF ToSet
<1>4. ASSUME NEW c \in ToSet(s), c # Head(s) PROVE c \in ToSet(Tail(s))
  <2>1. PICK x \in 1 .. Len(s) : s[x] = c
    BY <1>1, <1>4 DEF ToSet
  <2>2. x - 1 \in 1 .. Len(Tail(s)) /\ Tail(s)[x - 1] = c
    BY <1>1, <1>2, <1>4, <2>1
  <2> QED
    BY <1>1, <2>2 DEF ToSet
<1>5. ASSUME NEW c \in ToSet(Tail(s)) PROVE c \in ToSet(s)
  <2>1. PICK x \in 1 .. Len(Tail(s)) : Tail(s)[x] = c
    BY <1>1, <1>5 DEF ToSet
  <2>2. x + 1 \in 1 .. Len(s) /\ s[x + 1] = c
    BY <1>1, <1>2, <2>1
  <2> QED
    BY <1>1, <2>2 DEF ToSet
<1> QED
  BY <1>1, <1>3, <1>4, <1>5

-------------------------------------------------------------------------------
(* Where a handler is, and what it is serving there.                        *)

\* The channel of GET channel and GET users.
ChannelOf(g) == req[g].channels[1]

\* What a handler holds is of the channel it is at, and a request whose users are counted
\* or named is about presence channels.
Phase(g) ==
    /\ pc[g] = "idle" =>
        /\ answer[g] = {} /\ ids[g] = {} /\ made[g] = {} /\ delivered[g] = {}
        /\ stayed[g] = {} /\ seen[g] = {} /\ status[g] = 0
    /\ pc[g] # "idle" => req[g] \in Requests
    /\ pc[g] \in {"idle", "find", "add", "list", "lookup", "reply"} => held[g] = {}
    /\ Active(g) /\ status[g] # 0 => req[g].kind = "events" /\ req[g].body = "overflow"
    /\ pc[g] \in {"find", "add", "adding", "publish"} => req[g].kind = "events" /\ names[g] # <<>>
    /\ pc[g] \in {"adding", "publish"} => \A o \in held[g] : IdOf[o] = Head(names[g])
    /\ pc[g] = "reply" /\ req[g].kind = "events" /\ status[g] = 0 => names[g] = <<>>
    /\ pc[g] = "list" =>
        /\ req[g].kind = "channels"
        /\ Asks(req[g], "user_count") => Filter(req[g]) = {"presence-"}
    /\ pc[g] = "count" =>
        /\ req[g].kind = "channels" /\ Asks(req[g], "user_count")
    /\ pc[g] = "lookup" =>
        /\ req[g].kind \in {"channel", "users"}
    /\ pc[g] \in {"occupied", "users", "subscriptions"} => req[g].kind = "channel"
    /\ pc[g] \in {"copy", "read"} => req[g].kind = "users"
    /\ pc[g] \in {"occupied", "users", "subscriptions", "copy", "read"} =>
        \A o \in held[g] : IdOf[o] = ChannelOf(g)

\* The status of a refusal is an error, and a listing it does not refuse asks for what
\* its handler may give.
LEMMA RefusalValues ==
    ASSUME NEW q \in Requests
    PROVE  /\ Refusal(q) \in {0, 400, 401, 403, 413}
           /\ Refusal(q) = 0 /\ q.kind = "channels" /\ Asks(q, "user_count")
                => Filter(q) = {"presence-"}
BY DEF Refusal

\* The section each kind of request begins with.
LEMMA FirstSectionValues ==
    ASSUME NEW q \in Requests
    PROVE  /\ FirstSection(q) \in {"reply", "find", "list", "lookup"}
           /\ FirstSection(q) = "reply" => q.kind = "events" /\ q.channels = <<>>
           /\ FirstSection(q) = "find" => q.kind = "events" /\ q.channels # <<>>
           /\ FirstSection(q) = "list" => q.kind = "channels"
           /\ FirstSection(q) = "lookup" => q.kind \in {"channel", "users"}
BY ApiAssumption DEF FirstSection

\* An id is one of a user or blank.
LEMMA IdType == \A o, s : s \in Sockets => Id(o, s) \in Ids
<1>1. UserOf \in [Sockets -> Users]
  BY ApiAssumption
<1> QED
  BY <1>1 DEF Id, Ids

\* Who is in an object, and who is counted there.
LEMMA MembersFinite ==
    ASSUME NEW o
    PROVE  /\ IsFiniteSet(Members(o)) /\ Members(o) \subseteq Sockets
           /\ TotalSubscriptions(o) \in Nat
           /\ TotalUsers(o) \in Nat
<1>1. Members(o) \subseteq Sockets
  BY DEF Members
<1>2. IsFiniteSet(Members(o))
  BY <1>1, ApiAssumption, FS_Subset
<1>3. IsFiniteSet(Ids)
  BY ApiAssumption, FS_AddElement DEF Ids
<1>4. {Id(o, s) : s \in Members(o)} \in SUBSET Ids
  BY <1>1, IdType
<1>5. IsFiniteSet({Id(o, s) : s \in Members(o)})
  BY <1>3, <1>4, FS_Subset
<1> QED
  BY <1>1, <1>2, <1>5, FS_CardinalityType DEF TotalSubscriptions, TotalUsers

\* The shapes of what a request may name.
LEMMA RequestShape ==
    ASSUME NEW q \in Requests
    PROVE  /\ q.channels \in Seq(Channels)
           /\ q.kind \in {"events", "channels", "channel", "users"}
           /\ q.kind \in {"channel", "users"} =>
                q.channels[1] \in Channels /\ q.channels[1] \in ToSet(q.channels)
<1>1. /\ q.channels \in Seq(Channels)
      /\ q.kind \in {"events", "channels", "channel", "users"}
      /\ q.kind \in {"channel", "users"} => Len(q.channels) = 1
  BY ApiAssumption
<1>2. Len(q.channels) = 1 => q.channels[1] \in Channels /\ 1 \in DOMAIN q.channels
  BY <1>1
<1> QED
  BY <1>1, <1>2 DEF ToSet

\* A channel and a socket that may be in it.
LEMMA JoinsPairs == \A p \in Joins : p[1] \in Channels /\ p[2] \in Sockets /\ p = <<p[1], p[2]>>
<1>1. Joins \subseteq Channels \X Sockets
  BY ApiAssumption
<1> QED
  BY <1>1

\* The types of what handlers keep.
HandlerTypes ==
    /\ pc \in [Handlers -> PCs]
    /\ req \in [Handlers -> Requests \cup {NoRequest}]
    /\ names \in [Handlers -> Seq(Channels)]
    /\ held \in [Handlers -> SUBSET Objects]
    /\ pointers \in [Handlers -> SUBSET (Sockets \X SUBSET Ids)]
    /\ status \in [Handlers -> {0, 400, 401, 403, 413, 500}]
    /\ answer \in [Handlers -> SUBSET [attr : Attributes, channel : Channels, value : Nat]]
    /\ ids \in [Handlers -> SUBSET (Sockets \X Ids)]
    /\ made \in [Handlers -> SUBSET Channels]
    /\ delivered \in [Handlers -> SUBSET Joins]
    /\ stayed \in [Handlers -> SUBSET Joins]
    /\ seen \in [Handlers -> SUBSET (Channels \X Sockets \X Ids)]

\* And of the registry: whom an object has is never out of anybody's reach.
RegistryTypes ==
    /\ channels \in [Channels -> Objects \cup {NoObject}]
    /\ \A c \in Channels : channels[c] # NoObject => IdOf[channels[c]] = c
    /\ subs \subseteq Objects \X Sockets
    /\ \A p \in subs : p[1] \in Reachable /\ <<IdOf[p[1]], p[2]>> \in Joins
    /\ named \subseteq subs

\* Who adds a channel has the lock.
LockHeld ==
    /\ adding # NoObject => adding \in Mapped
    /\ \A g \in Handlers : pc[g] = "adding" => held[g] = {adding}

Types == RegistryTypes /\ LockHeld /\ HandlerTypes

\* An object of the map is the one its id has.
LEMMA MappedId ==
    ASSUME RegistryTypes, NEW o
    PROVE  /\ o \in Mapped => o \in Objects /\ IdOf[o] \in Channels /\ channels[IdOf[o]] = o
           /\ o \in Objects /\ (\E c \in Channels : channels[c] = o) => o \in Mapped
<1>1. NoObject \notin Objects
  BY ApiAssumption
<1>2. ASSUME o \in Mapped
      PROVE  o \in Objects /\ IdOf[o] \in Channels /\ channels[IdOf[o]] = o
  <2>1. PICK c \in Channels : channels[c] = o /\ o # NoObject
    BY <1>2 DEF Mapped
  <2> QED
    BY <2>1 DEF RegistryTypes
<1> QED
  BY <1>1, <1>2 DEF Mapped

-------------------------------------------------------------------------------
(* What holds of a handler in the middle of its sections.                   *)

\* Whom it counts on is still there, in the object the map has.
Stays(g) ==
    Active(g) => \A p \in stayed[g] :
        channels[p[1]] # NoObject /\ <<channels[p[1]], p[2]>> \in subs

\* That is the object it holds, if it holds one of the id.
Holds(g) ==
    Active(g) => \A p \in stayed[g], o \in held[g] : IdOf[o] = p[1] => channels[p[1]] = o

\* It has seen all who are there.
Sees(g) ==
    Active(g) => \A p \in subs : Concerns(req[g], IdOf[p[1]]) =>
        <<IdOf[p[1]], p[2], Id(p[1], p[2])>> \in seen[g]

\* Of a POST, the channels still to come and those published make up the request.
Posted(g) ==
    pc[g] # "idle" /\ req[g].kind = "events" =>
        /\ \A p \in delivered[g] : p[2] # req[g].ignore
        /\ status[g] = 0 => \A p \in stayed[g] :
            p[1] \in ToSet(req[g].channels) /\ p[2] # req[g].ignore =>
                p[1] \in ToSet(names[g]) \/ p \in delivered[g]

\* Only a POST has created channels or sent anything; if it has met an error it has sent
\* nothing, and created something only if Publish met the error.
Effects(g) ==
    /\ pc[g] # "idle" /\ req[g].kind # "events" => made[g] = {} /\ delivered[g] = {}
    /\ pc[g] # "idle" /\ req[g].body = "overflow" => delivered[g] = {}
    /\ status[g] # 0 => delivered[g] = {} /\ (made[g] # {} => req[g].body = "overflow")

Lists(g) ==
    /\ pc[g] \in {"count", "reply"} /\ status[g] = 0 /\ req[g].kind = "channels"
    => \A p \in stayed[g] : Filter(req[g]) \in {NoValue, {KindOf[p[1]]}} =>
            \E a \in answer[g] : a.attr = "listed" /\ a.channel = p[1]

\* Of GET users, the pointers still to read and the ids read make up who stayed.
Reads(g) ==
    pc[g] # "idle" /\ req[g].kind = "users" =>
        /\ \A i \in ids[g] : <<ChannelOf(g), i[1], i[2]>> \in seen[g]
        /\ pc[g] = "read" =>
            /\ \A p \in pointers[g] : \A id \in p[2] : <<ChannelOf(g), p[1], id>> \in seen[g]
            /\ \A s \in NamedIn(g, ChannelOf(g)) :
                <<s, UserOf[s]>> \in ids[g] \/ <<s, {UserOf[s]}>> \in pointers[g]
        /\ pc[g] = "reply" /\ status[g] = 0 =>
            \A s \in NamedIn(g, ChannelOf(g)) : <<s, UserOf[s]>> \in ids[g]

\* The bounds of a number that has been read.
Justified(g, a) ==
    /\ a.attr = "occupied" =>
        /\ StayedIn(g, a.channel) # {} => a.value = 1
        /\ SeenIn(g, a.channel) = {} => a.value = 0
    /\ a.attr = "subscription_count" =>
        /\ Cardinality(StayedIn(g, a.channel)) <= a.value
        /\ a.value <= Cardinality({t[2] : t \in SeenIn(g, a.channel)})
    /\ a.attr = "user_count" =>
        /\ Cardinality({UserOf[s] : s \in NamedIn(g, a.channel)}) <= a.value
        /\ a.value <= Cardinality({t[3] : t \in SeenIn(g, a.channel)})

Counts(g) ==
    pc[g] # "idle" /\ req[g].kind \in {"channels", "channel"} =>
        \A a \in answer[g] : Justified(g, a)

HandlerInv(g) ==
    /\ Phase(g) /\ Stays(g) /\ Holds(g) /\ Sees(g)
    /\ Posted(g) /\ Effects(g) /\ Lists(g) /\ Reads(g) /\ Counts(g)

Inv == Types /\ \A g \in Handlers : HandlerInv(g)

\* In the initial states no handler serves a request.
LEMMA InvInit == Init => Inv
<1> SUFFICES ASSUME Init PROVE Inv
  OBVIOUS
<1>1. RegistryTypes /\ LockHeld
  BY DEF Init, RegistryTypes, LockHeld
<1>2. HandlerTypes
  BY DEF Init, HandlerTypes, Nobody, PCs
<1>3. ASSUME NEW g \in Handlers PROVE HandlerInv(g)
  <2>1. /\ pc[g] = "idle" /\ status[g] = 0 /\ held[g] = {}
        /\ answer[g] = {} /\ ids[g] = {}
        /\ made[g] = {} /\ delivered[g] = {} /\ stayed[g] = {} /\ seen[g] = {}
    BY <1>3 DEF Init, Nobody
  <2> QED
    BY <2>1 DEF HandlerInv, Phase, Active, Stays, Holds, Sees, Posted, Effects, Lists, Reads, Counts
<1> QED
  BY <1>1, <1>2, <1>3 DEF Inv, Types

-------------------------------------------------------------------------------
(* What a handler keeps through the steps of others.                        *)

\* Entries only go, with objects that leave the map.
Shrinks ==
    /\ subs' \subseteq subs
    /\ \A p \in subs' : p \in named' <=> p \in named
    /\ \A p \in subs : p[1] \in Mapped' => p \in subs'

\* Whoever is still counted on is in an object that has stayed in the map.
KeepsMap(g) ==
    Active(g) => \A p \in stayed'[g] : p \in stayed[g] /\ channels'[p[1]] = channels[p[1]]

\* What is collected is out of the map.
LEMMA CollectShrinks ==
    ASSUME Collect
    PROVE  Shrinks
BY DEF Collect, Shrinks, Reachable

\* Who stays is still where the handler counts on it.
LEMMA StaysAround ==
    ASSUME RegistryTypes, HandlerTypes, NEW g \in Handlers, Active(g), Stays(g), Shrinks, KeepsMap(g)
    PROVE  \A p \in stayed'[g] :
             channels'[p[1]] # NoObject /\ <<channels'[p[1]], p[2]>> \in subs'
<1> TAKE p \in stayed'[g]
<1>1. p \in stayed[g] /\ channels'[p[1]] = channels[p[1]]
  BY DEF KeepsMap
<1>2. channels[p[1]] # NoObject /\ <<channels[p[1]], p[2]>> \in subs
  BY <1>1 DEF Stays
<1>3. p[1] \in Channels
  BY <1>1, JoinsPairs DEF HandlerTypes
<1>4. channels[p[1]] \in Mapped'
  BY <1>1, <1>2, <1>3 DEF Mapped
<1> QED
  BY <1>1, <1>2, <1>4 DEF Shrinks

\* What it holds of their channels is still what the map has.
LEMMA HoldsAround ==
    ASSUME NEW g \in Handlers, Active(g), Holds(g), KeepsMap(g), held'[g] \subseteq held[g]
    PROVE  \A p \in stayed'[g], o \in held'[g] : IdOf[o] = p[1] => channels'[p[1]] = o
BY DEF Holds, KeepsMap

\* And it has seen all who are left.
LEMMA SeesAround ==
    ASSUME RegistryTypes, NEW g \in Handlers, Active(g), Sees(g), Shrinks,
           req'[g] = req[g], seen[g] \subseteq seen'[g]
    PROVE  Sees(g)'
<1>1. \A p \in subs' : p \in subs /\ p = <<p[1], p[2]>> /\ Id(p[1], p[2])' = Id(p[1], p[2])
  BY DEF Shrinks, RegistryTypes, Id
<1> QED
  BY <1>1 DEF Sees

\* The bounds widen as people leave and others come.
LEMMA BoundsWiden ==
    ASSUME HandlerTypes, HandlerTypes', NEW g \in Handlers, NEW a, a.value \in Nat,
           Justified(g, a), stayed'[g] \subseteq stayed[g], seen[g] \subseteq seen'[g]
    PROVE  Justified(g, a)'
<1> DEFINE c == a.channel
<1>0. IsFiniteSet(Sockets) /\ IsFiniteSet(Users) /\ UserOf \in [Sockets -> Users]
  BY ApiAssumption
<1>1. /\ StayedIn(g, c)' \subseteq StayedIn(g, c)
      /\ SeenIn(g, c) \subseteq SeenIn(g, c)'
      /\ NamedIn(g, c)' \subseteq NamedIn(g, c)
      /\ StayedIn(g, c) \subseteq Sockets
      /\ NamedIn(g, c) \subseteq Sockets
  BY DEF StayedIn, SeenIn, NamedIn
<1>2. seen'[g] \subseteq Channels \X Sockets \X Ids
  BY DEF HandlerTypes
<1>3. \A t \in SeenIn(g, c)' : t[2] \in Sockets /\ t[3] \in Ids
  BY <1>2 DEF SeenIn
<1>4. IsFiniteSet(Ids)
  BY <1>0, FS_AddElement DEF Ids
<1>5. /\ Cardinality(StayedIn(g, c)') <= Cardinality(StayedIn(g, c))
      /\ Cardinality(StayedIn(g, c)') \in Nat /\ Cardinality(StayedIn(g, c)) \in Nat
  BY <1>0, <1>1, FS_Subset, FS_CardinalityType
<1>6. /\ Cardinality({UserOf[s] : s \in NamedIn(g, c)'}) <= Cardinality({UserOf[s] : s \in NamedIn(g, c)})
      /\ Cardinality({UserOf[s] : s \in NamedIn(g, c)'}) \in Nat
      /\ Cardinality({UserOf[s] : s \in NamedIn(g, c)}) \in Nat
  <2> DEFINE S == {UserOf[s] : s \in NamedIn(g, c)'}
             T == {UserOf[s] : s \in NamedIn(g, c)}
  <2>1. S \subseteq T /\ T \subseteq Users
    BY <1>0, <1>1
  <2> HIDE DEF S, T
  <2>2. IsFiniteSet(S) /\ IsFiniteSet(T) /\ Cardinality(S) <= Cardinality(T)
    BY <1>0, <2>1, FS_Subset
  <2>3. Cardinality(S) \in Nat /\ Cardinality(T) \in Nat
    BY <2>2, FS_CardinalityType
  <2> QED
    BY <2>2, <2>3 DEF S, T
<1>7. /\ Cardinality({t[2] : t \in SeenIn(g, c)}) <= Cardinality({t[2] : t \in SeenIn(g, c)'})
      /\ Cardinality({t[2] : t \in SeenIn(g, c)'}) \in Nat
      /\ Cardinality({t[2] : t \in SeenIn(g, c)}) \in Nat
  <2> DEFINE S == {t[2] : t \in SeenIn(g, c)}
             T == {t[2] : t \in SeenIn(g, c)'}
  <2>1. S \subseteq T /\ T \subseteq Sockets
    BY <1>1, <1>3
  <2> HIDE DEF S, T
  <2>2. IsFiniteSet(S) /\ IsFiniteSet(T) /\ Cardinality(S) <= Cardinality(T)
    BY <1>0, <2>1, FS_Subset
  <2>3. Cardinality(S) \in Nat /\ Cardinality(T) \in Nat
    BY <2>2, FS_CardinalityType
  <2> QED
    BY <2>2, <2>3 DEF S, T
<1>8. /\ Cardinality({t[3] : t \in SeenIn(g, c)}) <= Cardinality({t[3] : t \in SeenIn(g, c)'})
      /\ Cardinality({t[3] : t \in SeenIn(g, c)'}) \in Nat
      /\ Cardinality({t[3] : t \in SeenIn(g, c)}) \in Nat
  <2> DEFINE S == {t[3] : t \in SeenIn(g, c)}
             T == {t[3] : t \in SeenIn(g, c)'}
  <2>1. S \subseteq T /\ T \subseteq Ids
    BY <1>1, <1>3
  <2> HIDE DEF S, T
  <2>2. IsFiniteSet(S) /\ IsFiniteSet(T) /\ Cardinality(S) <= Cardinality(T)
    BY <1>4, <2>1, FS_Subset
  <2>3. Cardinality(S) \in Nat /\ Cardinality(T) \in Nat
    BY <2>2, FS_CardinalityType
  <2> QED
    BY <2>2, <2>3 DEF S, T
<1> HIDE DEF c
<1>9. a.attr = "occupied" =>
        /\ StayedIn(g, a.channel)' # {} => a.value = 1
        /\ SeenIn(g, a.channel)' = {} => a.value = 0
  BY <1>1 DEF Justified, c
<1>10. a.attr = "subscription_count" =>
        /\ Cardinality(StayedIn(g, a.channel)') <= a.value
        /\ a.value <= Cardinality({t[2] : t \in SeenIn(g, a.channel)'})
  BY <1>5, <1>7 DEF Justified, c
<1>11. a.attr = "user_count" =>
        /\ Cardinality({UserOf[s] : s \in NamedIn(g, a.channel)'}) <= a.value
        /\ a.value <= Cardinality({t[3] : t \in SeenIn(g, a.channel)'})
  BY <1>6, <1>8 DEF Justified, c
<1> QED
  BY <1>9, <1>10, <1>11 DEF Justified

\* All that others do to a handler in the middle of a request.
Bystander(g) ==
    /\ pc'[g] = pc[g] /\ req'[g] = req[g] /\ names'[g] = names[g] /\ held'[g] = held[g]
    /\ status'[g] = status[g] /\ answer'[g] = answer[g]
    /\ ids'[g] = ids[g] /\ made'[g] = made[g] /\ delivered'[g] = delivered[g]
    /\ stayed'[g] \subseteq stayed[g] /\ seen[g] \subseteq seen'[g]
    /\ ~Active(g) => stayed'[g] = stayed[g] /\ seen'[g] = seen[g]

\* It keeps what it has read and sent.
LEMMA BystanderInv ==
    ASSUME HandlerTypes, HandlerTypes', NEW g \in Handlers, HandlerInv(g), Bystander(g),
           Stays(g)', Holds(g)', Sees(g)', Reads(g)'
    PROVE  HandlerInv(g)'
<1> USE DEF HandlerInv, Bystander
<1>1. Phase(g)'
  BY DEF Phase, ChannelOf, Active
<1>2. Posted(g)'
  BY DEF Posted
<1>3. Effects(g)'
  BY DEF Effects
<1>4. Lists(g)'
  BY DEF Lists
<1>5. Counts(g)'
  <2>1. \A a \in answer[g] : a.value \in Nat
    BY DEF HandlerTypes
  <2> QED
    BY <2>1, BoundsWiden DEF Counts
<1> QED
  BY <1>1, <1>2, <1>3, <1>4, <1>5

\* What GET users has read stays within what it has seen, if nobody is identified.
LEMMA ReadsAround ==
    ASSUME NEW g, Reads(g), Bystander(g), pointers'[g] = pointers[g]
    PROVE  Reads(g)'
<1>1. ChannelOf(g)' = ChannelOf(g)
  BY DEF ChannelOf, Bystander
<1>2. NamedIn(g, ChannelOf(g))' \subseteq NamedIn(g, ChannelOf(g))
  BY <1>1 DEF NamedIn, StayedIn, Bystander
<1> QED
  BY <1>1, <1>2 DEF Reads, Bystander

\* A step that only takes objects out of the map or out of another handler's reach.
LEMMA AroundInv ==
    ASSUME RegistryTypes, HandlerTypes, HandlerTypes', NEW g \in Handlers, HandlerInv(g),
           Bystander(g), pointers'[g] = pointers[g], Shrinks, KeepsMap(g)
    PROVE  HandlerInv(g)'
<1>1. Active(g)' = Active(g) /\ held'[g] = held[g]
  BY DEF Active, Bystander
<1>2. Stays(g)'
  BY <1>1, StaysAround DEF Stays, HandlerInv
<1>3. Holds(g)'
  BY <1>1, HoldsAround DEF Holds, HandlerInv
<1>4. Sees(g)'
  <2>1. CASE Active(g)
    BY <2>1, SeesAround DEF HandlerInv, Bystander
  <2>2. CASE ~Active(g)
    BY <1>1, <2>2 DEF Sees
  <2> QED
    BY <2>1, <2>2
<1>5. Reads(g)'
  BY ReadsAround DEF HandlerInv
<1> QED
  BY <1>2, <1>3, <1>4, <1>5, BystanderInv

-------------------------------------------------------------------------------
(* The types, one action at a time.                                         *)

\* What a handler has seen, once somebody enters or is identified.
LEMMA SeeType ==
    ASSUME seen \in [Handlers -> SUBSET (Channels \X Sockets \X Ids)],
           NEW c, NEW s, NEW id, <<c, s, id>> \in Channels \X Sockets \X Ids, See(c, s, id)
    PROVE  seen' \in [Handlers -> SUBSET (Channels \X Sockets \X Ids)]
<1> DEFINE Sights == SUBSET (Channels \X Sockets \X Ids)
           New(g) == IF Active(g) /\ Concerns(req[g], c) THEN seen[g] \cup {<<c, s, id>>} ELSE seen[g]
<1>1. \A g \in Handlers : seen[g] \in Sights
  OBVIOUS
<1>2. {<<c, s, id>>} \in Sights
  OBVIOUS
<1>3. \A S, T \in Sights : S \cup T \in Sights
  OBVIOUS
<1>4. \A g \in Handlers : New(g) \in Sights
  <2> HIDE DEF Sights
  <2> QED
    BY <1>1, <1>2, <1>3
<1>5. seen' = [g \in Handlers |-> New(g)]
  BY DEF See
<1> HIDE DEF New, Sights
<1>6. seen' \in [Handlers -> Sights]
  BY <1>4, <1>5
<1> QED
  BY <1>6 DEF Sights

\* What is left when objects are forgotten is within reach.
LEMMA CollectRegistry ==
    ASSUME RegistryTypes, Collect, channels' \in [Channels -> Objects \cup {NoObject}],
           \A c \in Channels : channels'[c] # NoObject => IdOf[channels'[c]] = c
    PROVE  RegistryTypes'
BY DEF RegistryTypes, Collect

\* As it is when a handler holds more than it did.
LEMMA ReachRegistry ==
    ASSUME RegistryTypes, UNCHANGED <<channels, subs, named>>,
           \A g \in Handlers : held[g] \subseteq held'[g]
    PROVE  RegistryTypes'
<1>1. \A o \in Reachable : o \in Reachable'
  BY DEF Reachable, Mapped
<1> QED
  BY <1>1 DEF RegistryTypes

\* While the lock is free nobody is in the middle of AddChannel.
LEMMA NobodyAdds ==
    ASSUME Types, MayLock, NEW g \in Handlers
    PROVE  pc[g] # "adding"
<1>1. NoObject \notin Objects
  BY ApiAssumption
<1> QED
  BY <1>1 DEF Types, LockHeld, HandlerTypes, MayLock

\* What sessions and Redis leave of the types.
LEMMA SessionAddsTypes ==
    ASSUME Types, NEW o \in Objects, SessionAdds(o)
    PROVE  Types'
<1> USE DEF handling, reply
<1>0. IdOf[o] \in Channels /\ NoObject \notin Objects
  BY ApiAssumption
<1>1. /\ channels' = [channels EXCEPT ![IdOf[o]] = o] /\ adding' = o /\ Collect
      /\ UNCHANGED <<pc, req, names, held, pointers, status, answer, ids, made, delivered, seen>>
      /\ stayed' = [g \in Handlers |->
            IF Active(g) THEN {p \in stayed[g] : p[1] # IdOf[o]} ELSE stayed[g]]
  BY DEF SessionAdds, Replace
<1>2. RegistryTypes'
  BY <1>0, <1>1, CollectRegistry DEF Types, RegistryTypes
<1>3. LockHeld'
  <2>1. o \in Mapped'
    <3>1. channels'[IdOf[o]] = o
      BY <1>0, <1>1 DEF Types, RegistryTypes
    <3> QED
      BY <1>0, <3>1 DEF Mapped
  <2>2. \A g \in Handlers : pc[g] # "adding"
    BY NobodyAdds DEF SessionAdds
  <2> QED
    BY <1>1, <2>1, <2>2 DEF LockHeld
<1>4. HandlerTypes'
  BY <1>1 DEF Types, HandlerTypes
<1> QED
  BY <1>2, <1>3, <1>4 DEF Types

LEMMA RemoveChannelTypes ==
    ASSUME Types, NEW c \in Channels, RemoveChannel(c)
    PROVE  Types'
<1> USE DEF handling, reply
<1>1. /\ channels' = [channels EXCEPT ![c] = NoObject] /\ adding' = NoObject /\ Collect
      /\ UNCHANGED <<pc, req, names, held, pointers, status, answer, ids, made, delivered, seen>>
      /\ stayed' = [g \in Handlers |->
            IF Active(g) THEN {p \in stayed[g] : p[1] # c} ELSE stayed[g]]
  BY DEF RemoveChannel, Replace, MayLock
<1>2. RegistryTypes'
  BY <1>1, CollectRegistry DEF Types, RegistryTypes
<1>3. LockHeld'
  <2>1. \A g \in Handlers : pc[g] # "adding"
    BY NobodyAdds DEF RemoveChannel
  <2> QED
    BY <1>1, <2>1 DEF LockHeld
<1>4. HandlerTypes'
  BY <1>1 DEF Types, HandlerTypes
<1> QED
  BY <1>2, <1>3, <1>4 DEF Types

LEMMA RedisAnswersTypes ==
    ASSUME Types, RedisAnswers
    PROVE  Types'
<1> USE DEF handling, reply, history
<1>1. /\ adding' = NoObject
      /\ pc' = [g \in Handlers |-> IF pc[g] = "adding" THEN "publish" ELSE pc[g]]
      /\ UNCHANGED <<channels, subs, named, req, names, held, pointers, reply, history>>
  BY DEF RedisAnswers
<1>2. RegistryTypes'
  BY <1>1, ReachRegistry DEF Types
<1>3. LockHeld'
  BY <1>1 DEF LockHeld
<1>4. pc' \in [Handlers -> PCs]
  BY <1>1 DEF Types, HandlerTypes, PCs
<1>5. HandlerTypes'
  BY <1>1, <1>4 DEF Types, HandlerTypes
<1> QED
  BY <1>2, <1>3, <1>5 DEF Types

LEMMA EnterTypes ==
    ASSUME Types, NEW o \in Objects, NEW s \in Sockets, Enter(o, s)
    PROVE  Types'
<1> USE DEF handling, reply
<1>0. IdOf[o] \in Channels
  BY ApiAssumption
<1>1. /\ o \in Reachable /\ <<IdOf[o], s>> \in Joins
      /\ subs' = subs \cup {<<o, s>>} /\ named' = named \ {<<o, s>>}
      /\ See(IdOf[o], s, Blank)
      /\ UNCHANGED <<channels, adding, handling, reply, made, delivered, stayed>>
  BY DEF Enter
<1>2. Reachable' = Reachable /\ Mapped' = Mapped
  BY <1>1 DEF Reachable, Mapped
<1>3. RegistryTypes'
  BY <1>1, <1>2 DEF Types, RegistryTypes
<1>4. LockHeld'
  BY <1>1, <1>2 DEF Types, LockHeld
<1>5. seen' \in [Handlers -> SUBSET (Channels \X Sockets \X Ids)]
  <2>1. <<IdOf[o], s, Blank>> \in Channels \X Sockets \X Ids
    BY <1>0 DEF Ids
  <2> QED
    BY <1>1, <2>1, SeeType DEF Types, HandlerTypes
<1>6. HandlerTypes'
  BY <1>1, <1>5 DEF Types, HandlerTypes
<1> QED
  BY <1>3, <1>4, <1>6 DEF Types

LEMMA IdentifyTypes ==
    ASSUME Types, NEW o \in Objects, NEW s \in Sockets, Identify(o, s)
    PROVE  Types'
<1> USE DEF reply
<1>0. IdOf[o] \in Channels /\ UserOf[s] \in Ids
  BY ApiAssumption DEF Ids
<1>1. /\ <<o, s>> \in subs /\ named' = named \cup {<<o, s>>}
      /\ See(IdOf[o], s, UserOf[s])
      /\ UNCHANGED <<channels, adding, subs, pc, req, names, held, reply, made, delivered, stayed>>
  BY DEF Identify
<1>2. Reachable' = Reachable /\ Mapped' = Mapped
  BY <1>1 DEF Reachable, Mapped
<1>3. RegistryTypes'
  BY <1>1, <1>2 DEF Types, RegistryTypes
<1>4. LockHeld'
  BY <1>1, <1>2 DEF Types, LockHeld
<1>5. seen' \in [Handlers -> SUBSET (Channels \X Sockets \X Ids)]
  <2>1. <<IdOf[o], s, UserOf[s]>> \in Channels \X Sockets \X Ids
    BY <1>0
  <2> QED
    BY <1>1, <2>1, SeeType DEF Types, HandlerTypes
<1>6. pointers' \in [Handlers -> SUBSET (Sockets \X SUBSET Ids)]
  <2> DEFINE After(g) == {IF p[1] = s /\ o \in held[g] THEN <<s, p[2] \cup {UserOf[s]}>> ELSE p :
                            p \in pointers[g]}
  <2>1. pointers' = [g \in Handlers |-> After(g)]
    BY DEF Identify
  <2>2. \A g \in Handlers : After(g) \in SUBSET (Sockets \X SUBSET Ids)
    <3> SUFFICES ASSUME NEW g \in Handlers, NEW p \in pointers[g]
                 PROVE  /\ p \in Sockets \X SUBSET Ids
                        /\ <<s, p[2] \cup {UserOf[s]}>> \in Sockets \X SUBSET Ids
      OBVIOUS
    <3>1. p \in Sockets \X SUBSET Ids
      BY DEF Types, HandlerTypes
    <3> QED
      BY <1>0, <3>1
  <2> HIDE DEF After
  <2> QED
    BY <2>1, <2>2
<1>7. HandlerTypes'
  BY <1>1, <1>5, <1>6 DEF Types, HandlerTypes
<1> QED
  BY <1>3, <1>4, <1>7 DEF Types

LEMMA LeaveTypes ==
    ASSUME Types, NEW o \in Objects, NEW s \in Sockets, Leave(o, s)
    PROVE  Types'
<1> USE DEF handling, reply
<1>1. /\ subs' = subs \ {<<o, s>>} /\ named' = named \ {<<o, s>>}
      /\ stayed' = [g \in Handlers |->
            IF Active(g) /\ o \in Mapped THEN stayed[g] \ {<<IdOf[o], s>>} ELSE stayed[g]]
      /\ UNCHANGED <<channels, adding, handling, reply, made, delivered, seen>>
  BY DEF Leave
<1>2. Reachable' = Reachable /\ Mapped' = Mapped
  BY <1>1 DEF Reachable, Mapped
<1>3. RegistryTypes'
  BY <1>1, <1>2 DEF Types, RegistryTypes
<1>4. LockHeld'
  BY <1>1, <1>2 DEF Types, LockHeld
<1>5. stayed' \in [Handlers -> SUBSET Joins]
  BY <1>1 DEF Types, HandlerTypes
<1>6. HandlerTypes'
  BY <1>1, <1>5 DEF Types, HandlerTypes
<1> QED
  BY <1>3, <1>4, <1>6 DEF Types

\* A handler that does not add a channel leaves the lock as it is.
LEMMA LockKept ==
    ASSUME Types, NEW g \in Handlers, UNCHANGED <<channels, adding>>, pc'[g] # "adding",
           \A h \in Handlers \ {g} : pc'[h] = pc[h] /\ held'[h] = held[h]
    PROVE  LockHeld'
<1>1. Mapped' = Mapped
  BY DEF Mapped
<1>2. \A h \in Handlers : pc'[h] = "adding" => h # g
  OBVIOUS
<1> QED
  BY <1>1, <1>2 DEF Types, LockHeld

\* What a handler does when a request comes, and when it replies.
LEMMA ArriveTypes ==
    ASSUME Types, NEW g \in Handlers, NEW q \in Requests, Arrive(g, q)
    PROVE  Types'
<1> USE DEF registry
<1>1. PICK label \in {"reply", "find", "list", "lookup"} : Begin(g, q, label)
  BY FirstSectionValues DEF Arrive
<1>2. UNCHANGED <<channels, adding, subs, named, held, pointers, answer, ids, made, delivered>>
  BY <1>1 DEF Begin
<1>3. RegistryTypes'
  BY <1>2, ReachRegistry DEF Types
<1>4. pc' = [pc EXCEPT ![g] = label]
  BY <1>1 DEF Begin, Goto
<1>5. LockHeld'
  <2>1. pc'[g] # "adding" /\ \A h \in Handlers \ {g} : pc'[h] = pc[h]
    BY <1>4 DEF Types, HandlerTypes
  <2> QED
    BY <1>2, <2>1, LockKept
<1>6. q.channels \in Seq(Channels)
  BY RequestShape
<1>7. stayed' \in [Handlers -> SUBSET Joins]
  <2> DEFINE S == {<<IdOf[p[1]], p[2]>> : p \in {r \in subs : r[1] \in Mapped /\ About(q, IdOf[r[1]])}}
  <2>1. stayed' \in {stayed, [stayed EXCEPT ![g] = S]}
    BY <1>1 DEF Begin
  <2>2. S \in SUBSET Joins
    BY DEF Types, RegistryTypes
  <2>3. stayed \in [Handlers -> SUBSET Joins]
    BY DEF Types, HandlerTypes
  <2> HIDE DEF S
  <2> QED
    BY <2>1, <2>2, <2>3
<1>8. seen' \in [Handlers -> SUBSET (Channels \X Sockets \X Ids)]
  <2> DEFINE S == {<<IdOf[p[1]], p[2], Id(p[1], p[2])>> : p \in {r \in subs : Concerns(q, IdOf[r[1]])}}
             Sights == SUBSET (Channels \X Sockets \X Ids)
  <2>1. seen' \in {seen, [seen EXCEPT ![g] = S]}
    BY <1>1 DEF Begin
  <2>2. ASSUME NEW p \in subs
        PROVE  <<IdOf[p[1]], p[2], Id(p[1], p[2])>> \in Channels \X Sockets \X Ids
    <3>1. p[1] \in Objects /\ p[2] \in Sockets
      BY DEF Types, RegistryTypes
    <3>2. IdOf[p[1]] \in Channels
      BY <3>1, ApiAssumption
    <3> QED
      BY <3>1, <3>2, IdType
  <2>3. S \in Sights
    BY <2>2
  <2>4. seen \in [Handlers -> Sights]
    BY DEF Types, HandlerTypes
  <2> HIDE DEF S, Sights
  <2>5. seen' \in [Handlers -> Sights]
    BY <2>1, <2>3, <2>4
  <2> QED
    BY <2>5 DEF Sights
<1>9. status' \in [Handlers -> {0, 400, 401, 403, 413, 500}]
  BY <1>1, RefusalValues DEF Begin, Types, HandlerTypes
<1>10. pc' \in [Handlers -> PCs] /\ req' \in [Handlers -> Requests \cup {NoRequest}]
       /\ names' \in [Handlers -> Seq(Channels)]
  BY <1>1, <1>4, <1>6 DEF Begin, Types, HandlerTypes, PCs
<1>11. HandlerTypes'
  BY <1>2, <1>7, <1>8, <1>9, <1>10 DEF Types, HandlerTypes
<1> QED
  BY <1>3, <1>5, <1>11 DEF Types

\* Nothing but the names left over outlives a reply.
LEMMA ReplyTypes ==
    ASSUME Types, NEW g \in Handlers, Reply(g)
    PROVE  Types'
<1> USE DEF registry
<1>1. UNCHANGED <<channels, adding, subs, named, names, held>> /\ pc' = [pc EXCEPT ![g] = "idle"]
  BY DEF Reply, Goto
<1>2. RegistryTypes'
  BY <1>1, ReachRegistry DEF Types
<1>3. LockHeld'
  <2>1. pc'[g] # "adding" /\ \A h \in Handlers \ {g} : pc'[h] = pc[h]
    BY <1>1 DEF Types, HandlerTypes
  <2> QED
    BY <1>1, <2>1, LockKept
<1>4. HandlerTypes'
  BY DEF Types, HandlerTypes, Reply, Goto, PCs
<1> QED
  BY <1>2, <1>3, <1>4 DEF Types


\* The handler goes on, or returns and lets go of what it holds.
LEMMA ProceedTypes ==
    ASSUME Types, NEW g \in Handlers, NEW label \in PCs \ {"adding"}, NEW objects \in SUBSET Objects,
           Proceed(g, label, objects)
    PROVE  /\ RegistryTypes' /\ LockHeld'
           /\ pc' \in [Handlers -> PCs] /\ held' \in [Handlers -> SUBSET Objects]
<1>1. /\ pc' = [pc EXCEPT ![g] = label] /\ UNCHANGED <<channels, adding>> /\ Collect
      /\ held' = [held EXCEPT ![g] = IF label = "reply" THEN {} ELSE objects]
  BY DEF Proceed, Goto
<1>2. RegistryTypes'
  BY <1>1, CollectRegistry DEF Types, RegistryTypes
<1>3. /\ pc'[g] # "adding"
      /\ \A h \in Handlers \ {g} : pc'[h] = pc[h] /\ held'[h] = held[h]
  BY <1>1 DEF Types, HandlerTypes
<1>4. LockHeld'
  BY <1>1, <1>3, LockKept
<1>5. pc' \in [Handlers -> PCs] /\ held' \in [Handlers -> SUBSET Objects]
  <2>1. pc \in [Handlers -> PCs] /\ held \in [Handlers -> SUBSET Objects]
    BY DEF Types, HandlerTypes
  <2>2. held' \in {[held EXCEPT ![g] = {}], [held EXCEPT ![g] = objects]}
    BY <1>1
  <2> QED
    BY <1>1, <2>1, <2>2
<1> QED
  BY <1>2, <1>4, <1>5

\* A handler that takes an object out of the map under the application's lock.
LEMMA TakeTypes ==
    ASSUME Types, NEW g \in Handlers, held[g] = {}, NEW label \in PCs \ {"adding"},
           NEW objects \in SUBSET Objects, UNCHANGED registry,
           pc' = [pc EXCEPT ![g] = label], held' = [held EXCEPT ![g] = objects]
    PROVE  /\ RegistryTypes' /\ LockHeld'
           /\ pc' \in [Handlers -> PCs] /\ held' \in [Handlers -> SUBSET Objects]
<1> USE DEF registry
<1>1. pc \in [Handlers -> PCs] /\ held \in [Handlers -> SUBSET Objects]
  BY DEF Types, HandlerTypes
<1>2. pc' \in [Handlers -> PCs] /\ held' \in [Handlers -> SUBSET Objects]
  BY <1>1
<1>3. \A h \in Handlers : held[h] \subseteq held'[h]
  BY <1>1
<1>4. RegistryTypes'
  BY <1>3, ReachRegistry DEF Types
<1>5. pc'[g] # "adding" /\ \A h \in Handlers \ {g} : pc'[h] = pc[h] /\ held'[h] = held[h]
  BY <1>1
<1>6. LockHeld'
  BY <1>5, LockKept
<1> QED
  BY <1>2, <1>4, <1>6

\* A POST looks for the next of its channels.
LEMMA FindChannelTypes ==
    ASSUME Types, NEW g \in Handlers, Phase(g), FindChannel(g)
    PROVE  Types'
<1> USE DEF reply, history
<1> DEFINE o == channels[Head(names[g])]
<1>1. pc[g] = "find" /\ names[g] \in Seq(Channels) /\ names[g] # <<>> /\ held[g] = {}
  BY DEF FindChannel, Phase, Types, HandlerTypes
<1>2. Head(names[g]) \in Channels
  BY <1>1, ToSetTail
<1>3. {o} \ {NoObject} \in SUBSET Objects
  BY <1>2 DEF Types, RegistryTypes
<1>4. /\ UNCHANGED <<registry, req, names, pointers, reply, history>>
      /\ held' = [held EXCEPT ![g] = {o} \ {NoObject}]
  BY DEF FindChannel
<1>5. PICK label \in {"add", "publish"} : pc' = [pc EXCEPT ![g] = label]
  BY DEF FindChannel, Goto
<1>6. label \in PCs \ {"adding"}
  BY DEF PCs
<1> HIDE DEF o
<1>7. /\ RegistryTypes' /\ LockHeld'
      /\ pc' \in [Handlers -> PCs] /\ held' \in [Handlers -> SUBSET Objects]
  <2> DEFINE objects == {o} \ {NoObject}
  <2> HIDE DEF objects
  <2> QED
    BY <1>1, <1>3, <1>4, <1>5, <1>6, TakeTypes DEF objects
<1> QED
  BY <1>4, <1>7 DEF Types, HandlerTypes

\* The channel a POST adds is the one it is at.
LEMMA AddChannelTypes ==
    ASSUME Types, NEW g \in Handlers, NEW o \in Objects, AddChannel(g, o)
    PROVE  Types'
<1> USE DEF reply
<1>0. IdOf[o] \in Channels /\ NoObject \notin Objects
  BY ApiAssumption
<1>1. /\ channels' = [channels EXCEPT ![IdOf[o]] = o] /\ adding' = o /\ Collect
      /\ pc' = [pc EXCEPT ![g] = "adding"] /\ held' = [held EXCEPT ![g] = {o}]
      /\ made' = [made EXCEPT ![g] = @ \cup {IdOf[o]}]
      /\ stayed' = [h \in Handlers |->
            IF Active(h) THEN {p \in stayed[h] : p[1] # IdOf[o]} ELSE stayed[h]]
      /\ UNCHANGED <<req, names, pointers, status, answer, ids, delivered, seen>>
  BY DEF AddChannel, Replace, Goto
<1>2. RegistryTypes'
  BY <1>0, <1>1, CollectRegistry DEF Types, RegistryTypes
<1>3. LockHeld'
  <2>1. o \in Mapped'
    <3>1. channels'[IdOf[o]] = o
      BY <1>0, <1>1 DEF Types, RegistryTypes
    <3> QED
      BY <1>0, <3>1 DEF Mapped
  <2>2. \A h \in Handlers : pc[h] # "adding"
    BY NobodyAdds DEF AddChannel
  <2>3. pc \in [Handlers -> PCs] /\ held \in [Handlers -> SUBSET Objects]
    BY DEF Types, HandlerTypes
  <2>4. \A h \in Handlers : pc'[h] = "adding" => h = g
    BY <1>1, <2>2, <2>3
  <2>5. held'[g] = {o}
    BY <1>1, <2>3
  <2> QED
    BY <1>1, <2>1, <2>4, <2>5 DEF LockHeld
<1>4. stayed' \in [Handlers -> SUBSET Joins]
  BY <1>1 DEF Types, HandlerTypes
<1>5. made' \in [Handlers -> SUBSET Channels] /\ held' \in [Handlers -> SUBSET Objects]
      /\ pc' \in [Handlers -> PCs]
  BY <1>0, <1>1 DEF Types, HandlerTypes, PCs
<1>6. HandlerTypes'
  BY <1>1, <1>4, <1>5 DEF Types, HandlerTypes
<1> QED
  BY <1>2, <1>3, <1>6 DEF Types

\* It goes on to the next of its channels.
LEMMA PublishTypes ==
    ASSUME Types, NEW g \in Handlers, Phase(g), NEW o \in Objects, Publish(g, o)
    PROVE  Types'
<1> DEFINE D == {<<IdOf[o], s>> : s \in Members(o) \ {req[g].ignore}}
           label == IF Tail(names[g]) = <<>> THEN "reply" ELSE "find"
<1>1. pc[g] = "publish" /\ names[g] \in Seq(Channels) /\ names[g] # <<>>
  BY DEF Publish, Phase, Types, HandlerTypes
<1>2. Tail(names[g]) \in Seq(Channels)
  BY <1>1, ToSetTail
<1>3. /\ RegistryTypes' /\ LockHeld'
      /\ pc' \in [Handlers -> PCs] /\ held' \in [Handlers -> SUBSET Objects]
  <2>1. label \in PCs \ {"adding"} /\ {} \in SUBSET Objects
    BY DEF PCs
  <2>2. Proceed(g, label, {})
    BY DEF Publish
  <2> HIDE DEF label
  <2> QED
    BY <2>1, <2>2, ProceedTypes
<1>4. names' \in [Handlers -> Seq(Channels)]
  BY <1>2 DEF Publish, Types, HandlerTypes
<1>5. delivered' \in [Handlers -> SUBSET Joins]
  <2>1. D \in SUBSET Joins
    BY DEF Members, Types, RegistryTypes
  <2>2. delivered \in [Handlers -> SUBSET Joins]
    BY DEF Types, HandlerTypes
  <2>3. delivered' = delivered \/ delivered' = [delivered EXCEPT ![g] = @ \cup D]
    BY DEF Publish
  <2> HIDE DEF D
  <2> QED
    BY <2>1, <2>2, <2>3
<1>6. status' \in [Handlers -> {0, 400, 401, 403, 413, 500}]
  <2>1. status' = status \/ status' = [status EXCEPT ![g] = 500]
    BY DEF Publish
  <2>2. status \in [Handlers -> {0, 400, 401, 403, 413, 500}]
    BY DEF Types, HandlerTypes
  <2> QED
    BY <2>1, <2>2
<1>7. UNCHANGED <<req, pointers, answer, ids, made, stayed, seen>>
  BY DEF Publish
<1> QED
  BY <1>3, <1>4, <1>5, <1>6, <1>7 DEF Types, HandlerTypes

\* A listing takes from the map what its filter admits.
LEMMA GetChannelsTypes ==
    ASSUME Types, NEW g \in Handlers, Phase(g), GetChannels(g)
    PROVE  Types'
<1> USE DEF history
<1> DEFINE listed == {o \in Mapped : Admits(Filter(req[g]), IdOf[o])}
           counts == Asks(req[g], "user_count") /\ listed # {}
           reads == {[attr |-> "listed", channel |-> IdOf[o], value |-> 1] : o \in listed}
           Answers == SUBSET [attr : Attributes, channel : Channels, value : Nat]
           label == IF counts THEN "count" ELSE "reply"
           objects == IF counts THEN listed ELSE {}
<1>1. \A o \in listed : o \in Objects /\ IdOf[o] \in Channels
  BY MappedId DEF Types
<1>2. /\ UNCHANGED <<registry, req, names, pointers, status, ids, history>>
      /\ held' = [held EXCEPT ![g] = objects] /\ pc' = [pc EXCEPT ![g] = label]
      /\ answer' = [answer EXCEPT ![g] = reads]
  BY DEF GetChannels, Goto
<1>3. held[g] = {}
  BY DEF GetChannels, Phase
<1>4. answer' \in [Handlers -> Answers]
  <2>1. reads \in Answers
    BY <1>1 DEF Attributes
  <2>2. answer \in [Handlers -> Answers]
    BY DEF Types, HandlerTypes
  <2> HIDE DEF reads, Answers
  <2> QED
    BY <1>2, <2>1, <2>2
<1>5. objects \in SUBSET Objects
  BY <1>1
<1>6. label \in PCs \ {"adding"}
  BY DEF PCs
<1> HIDE DEF listed, reads, label, objects, counts
<1>7. /\ RegistryTypes' /\ LockHeld'
      /\ pc' \in [Handlers -> PCs] /\ held' \in [Handlers -> SUBSET Objects]
  BY <1>2, <1>3, <1>5, <1>6, TakeTypes
<1> QED
  BY <1>2, <1>4, <1>7 DEF Types, HandlerTypes

\* A number that is read of a channel.
LEMMA ReadType ==
    ASSUME HandlerTypes, NEW g \in Handlers, NEW attribute \in Attributes, NEW o \in Objects,
           NEW n \in Nat, Read(g, attribute, o, n)
    PROVE  answer' \in [Handlers -> SUBSET [attr : Attributes, channel : Channels, value : Nat]]
<1> DEFINE Answers == SUBSET [attr : Attributes, channel : Channels, value : Nat]
           read == {[attr |-> attribute, channel |-> IdOf[o], value |-> n]}
<1>1. answer' = [answer EXCEPT ![g] = @ \cup read]
  BY DEF Read
<1>2. answer \in [Handlers -> Answers]
  BY DEF HandlerTypes
<1>3. read \in Answers
  BY ApiAssumption
<1>4. \A A, B \in Answers : A \cup B \in Answers
  OBVIOUS
<1> HIDE DEF Answers, read
<1>5. answer' \in [Handlers -> Answers]
  BY <1>1, <1>2, <1>3, <1>4
<1> QED
  BY <1>5 DEF Answers

\* Which of a number's readers is at work.
ReadsNumber(g, o) ==
    CountUsers(g, o) \/ ReadOccupied(g, o) \/ ReadUsers(g, o) \/ ReadSubscriptions(g, o)

\* Each reads one number, and goes on.
LEMMA ReadNumberSteps ==
    ASSUME Types, NEW g \in Handlers, NEW o \in Objects, ReadsNumber(g, o)
    PROVE  /\ \E attribute \in Attributes, n \in Nat : Read(g, attribute, o, n)
           /\ \E label \in PCs \ {"adding"}, objects \in SUBSET held[g] : Proceed(g, label, objects)
           /\ UNCHANGED <<req, names, pointers, status, ids, history>>
<1> USE DEF history
<1>1. \E attribute \in Attributes, n \in Nat : Read(g, attribute, o, n)
  BY MembersFinite DEF ReadsNumber, CountUsers, ReadOccupied, ReadUsers, ReadSubscriptions, Attributes
<1>2. \E label \in PCs \ {"adding"}, objects \in SUBSET held[g] : Proceed(g, label, objects)
  <2>1. \A S \in SUBSET held[g] :
          /\ {"reply", "count", "users", "subscriptions"} \subseteq PCs \ {"adding"}
          /\ \A label \in {"reply", "count", "users", "subscriptions"} :
                Proceed(g, label, S) => \E l \in PCs \ {"adding"}, t \in SUBSET held[g] : Proceed(g, l, t)
    BY DEF PCs
  <2>2. held[g] \in SUBSET held[g] /\ held[g] \ {o} \in SUBSET held[g]
    OBVIOUS
  <2>3. CASE CountUsers(g, o)
    BY <2>1, <2>2, <2>3 DEF CountUsers
  <2>4. CASE ReadOccupied(g, o)
    BY <2>1, <2>2, <2>4 DEF ReadOccupied, AfterUsers
  <2>5. CASE ReadUsers(g, o)
    BY <2>1, <2>2, <2>5 DEF ReadUsers, AfterUsers
  <2>6. CASE ReadSubscriptions(g, o)
    BY <2>1, <2>2, <2>6 DEF ReadSubscriptions
  <2> QED
    BY <2>3, <2>4, <2>5, <2>6 DEF ReadsNumber
<1>3. UNCHANGED <<req, names, pointers, status, ids, history>>
  BY DEF ReadsNumber, CountUsers, ReadOccupied, ReadUsers, ReadSubscriptions
<1> QED
  BY <1>1, <1>2, <1>3

LEMMA ReadNumberTypes ==
    ASSUME Types, NEW g \in Handlers, NEW o \in Objects, ReadsNumber(g, o)
    PROVE  Types'
<1> USE DEF history
<1>1. PICK attribute \in Attributes, n \in Nat : Read(g, attribute, o, n)
  BY ReadNumberSteps
<1>2. PICK label \in PCs \ {"adding"}, objects \in SUBSET held[g] : Proceed(g, label, objects)
  BY ReadNumberSteps
<1>3. answer' \in [Handlers -> SUBSET [attr : Attributes, channel : Channels, value : Nat]]
  BY <1>1, ReadType DEF Types
<1>4. objects \in SUBSET Objects
  BY DEF Types, HandlerTypes
<1>5. /\ RegistryTypes' /\ LockHeld'
      /\ pc' \in [Handlers -> PCs] /\ held' \in [Handlers -> SUBSET Objects]
  BY <1>2, <1>4, ProceedTypes
<1>6. UNCHANGED <<req, names, pointers, status, ids, history>>
  BY ReadNumberSteps
<1> QED
  BY <1>3, <1>5, <1>6 DEF Types, HandlerTypes

\* A request for one channel that is not there is refused.
LEMMA LookupTypes ==
    ASSUME Types, NEW g \in Handlers, Phase(g), Lookup(g)
    PROVE  Types'
<1> USE DEF history
<1> DEFINE c == ChannelOf(g)
           refused == \/ channels[c] = NoObject
                      \/ req[g].kind = "channel" /\ Asks(req[g], "user_count") /\ KindOf[c] # "presence-"
           label == IF refused THEN "reply" ELSE IF req[g].kind = "channel" THEN "occupied" ELSE "copy"
           objects == IF refused THEN {} ELSE {channels[c]}
<1>1. req[g] \in Requests /\ req[g].kind \in {"channel", "users"} /\ held[g] = {}
  BY DEF Lookup, Phase, Active
<1>2. c \in Channels
  BY <1>1, RequestShape DEF ChannelOf
<1>3. /\ UNCHANGED <<registry, req, names, pointers, answer, ids, history>>
      /\ held' = [held EXCEPT ![g] = objects] /\ pc' = [pc EXCEPT ![g] = label]
      /\ status' = [status EXCEPT ![g] = IF refused THEN 400 ELSE @]
  BY DEF Lookup, ChannelOf, Goto
<1>4. objects \in SUBSET Objects
  BY <1>2 DEF Types, RegistryTypes
<1>5. label \in PCs \ {"adding"}
  BY DEF PCs
<1> HIDE DEF c, refused, label, objects
<1>6. status' \in [Handlers -> {0, 400, 401, 403, 413, 500}]
  BY <1>3 DEF Types, HandlerTypes
<1>7. /\ RegistryTypes' /\ LockHeld'
      /\ pc' \in [Handlers -> PCs] /\ held' \in [Handlers -> SUBSET Objects]
  BY <1>1, <1>3, <1>4, <1>5, TakeTypes
<1> QED
  BY <1>3, <1>6, <1>7 DEF Types, HandlerTypes

\* GET users copies what it will read.
LEMMA CopyTypes ==
    ASSUME Types, NEW g \in Handlers, NEW o \in Objects, CopySubscriptions(g, o)
    PROVE  Types'
<1> USE DEF reply, history
<1> DEFINE P == {<<s, {Id(o, s)}>> : s \in Members(o)}
           Pointers == SUBSET (Sockets \X SUBSET Ids)
           label == IF Members(o) = {} THEN "reply" ELSE "read"
<1>1. P \in Pointers
  BY MembersFinite, IdType
<1>2. /\ pointers' = [pointers EXCEPT ![g] = P] /\ Proceed(g, label, held[g])
      /\ UNCHANGED <<req, names, reply, history>>
  BY DEF CopySubscriptions
<1>3. pointers \in [Handlers -> Pointers] /\ held[g] \in SUBSET Objects
  BY DEF Types, HandlerTypes
<1>4. label \in PCs \ {"adding"}
  BY DEF PCs
<1> HIDE DEF label
<1>5. pointers' \in [Handlers -> Pointers]
  <2> HIDE DEF P, Pointers
  <2> QED
    BY <1>1, <1>2, <1>3
<1>6. /\ RegistryTypes' /\ LockHeld'
      /\ pc' \in [Handlers -> PCs] /\ held' \in [Handlers -> SUBSET Objects]
  BY <1>2, <1>3, <1>4, ProceedTypes
<1> QED
  BY <1>2, <1>5, <1>6 DEF Types, HandlerTypes

\* It reads the id of one subscription after the other.
LEMMA ReadIdTypes ==
    ASSUME Types, NEW g \in Handlers, NEW p \in Sockets \X SUBSET Ids, ReadId(g, p)
    PROVE  Types'
<1> USE DEF history
<1>1. PICK label \in {"reply", "read"}, objects \in {held[g], {}} : Proceed(g, label, objects)
  BY DEF ReadId
<1>2. label \in PCs \ {"adding"} /\ objects \in SUBSET Objects
  BY DEF PCs, Types, HandlerTypes
<1>3. /\ RegistryTypes' /\ LockHeld'
      /\ pc' \in [Handlers -> PCs] /\ held' \in [Handlers -> SUBSET Objects]
  BY <1>1, <1>2, ProceedTypes
<1>4. pointers' \in [Handlers -> SUBSET (Sockets \X SUBSET Ids)]
  <2>1. pointers' = [pointers EXCEPT ![g] = @ \ {p}]
    BY DEF ReadId
  <2>2. pointers \in [Handlers -> SUBSET (Sockets \X SUBSET Ids)]
    BY DEF Types, HandlerTypes
  <2> QED
    BY <2>1, <2>2
<1>5. status' \in [Handlers -> {0, 400, 401, 403, 413, 500}]
  <2>1. status' = status \/ status' = [status EXCEPT ![g] = 500]
    BY DEF ReadId
  <2>2. status \in [Handlers -> {0, 400, 401, 403, 413, 500}]
    BY DEF Types, HandlerTypes
  <2> QED
    BY <2>1, <2>2
<1>6. ids' \in [Handlers -> SUBSET (Sockets \X Ids)]
  <2> DEFINE Read_ == SUBSET (Sockets \X Ids)
  <2>1. CASE UNCHANGED ids
    BY <2>1 DEF Types, HandlerTypes
  <2>2. ASSUME NEW id \in p[2], ids' = [ids EXCEPT ![g] = @ \cup {<<p[1], id>>}]
        PROVE  ids' \in [Handlers -> Read_]
    <3>1. ids \in [Handlers -> Read_]
      BY DEF Types, HandlerTypes
    <3>2. {<<p[1], id>>} \in Read_
      OBVIOUS
    <3>3. \A A, B \in Read_ : A \cup B \in Read_
      OBVIOUS
    <3> HIDE DEF Read_
    <3> QED
      BY <2>2, <3>1, <3>2, <3>3
  <2> QED
    BY <2>1, <2>2 DEF ReadId
<1>7. UNCHANGED <<req, names, answer, made, delivered, stayed, seen>>
  BY DEF ReadId
<1> QED
  BY <1>3, <1>4, <1>5, <1>6, <1>7 DEF Types, HandlerTypes

-------------------------------------------------------------------------------
(* Sessions and Redis, seen from a handler.                                 *)

\* An object that is put in the map, or taken out of it, is not one anybody counts on.
LEMMA ReplaceKeeps ==
    ASSUME HandlerTypes, NEW g \in Handlers, NEW c \in Channels, NEW o, Replace(c, o),
           channels \in [Channels -> Objects \cup {NoObject}]
    PROVE  Shrinks /\ KeepsMap(g)
<1>1. Shrinks
  BY CollectShrinks DEF Replace
<1>2. KeepsMap(g)
  <2> SUFFICES ASSUME Active(g), NEW p \in stayed'[g]
               PROVE  p \in stayed[g] /\ channels'[p[1]] = channels[p[1]]
    BY DEF KeepsMap
  <2>1. p \in stayed[g] /\ p[1] # c
    BY DEF Replace
  <2>2. p[1] \in Channels
    BY <2>1, JoinsPairs DEF HandlerTypes
  <2> QED
    BY <2>1, <2>2 DEF Replace
<1> QED
  BY <1>1, <1>2

\* An object that a session puts in the map.
LEMMA SessionAddsInv ==
    ASSUME Types, Types', NEW g \in Handlers, HandlerInv(g), NEW o \in Objects, SessionAdds(o)
    PROVE  HandlerInv(g)'
<1> USE DEF handling, reply
<1>1. Replace(IdOf[o], o) /\ UNCHANGED <<handling, reply, made, delivered, seen>>
  BY DEF SessionAdds
<1>2. IdOf[o] \in Channels
  BY ApiAssumption
<1>3. Bystander(g)
  BY <1>1 DEF Bystander, Replace
<1>4. Shrinks /\ KeepsMap(g)
  BY <1>1, <1>2, ReplaceKeeps DEF Types, RegistryTypes
<1> QED
  BY <1>1, <1>3, <1>4, AroundInv DEF Types

\* And one it takes out, whoever is in it.
LEMMA RemoveChannelInv ==
    ASSUME Types, Types', NEW g \in Handlers, HandlerInv(g), NEW c \in Channels, RemoveChannel(c)
    PROVE  HandlerInv(g)'
<1> USE DEF handling, reply
<1>1. Replace(c, NoObject) /\ UNCHANGED <<handling, reply, made, delivered, seen>>
  BY DEF RemoveChannel
<1>2. Bystander(g)
  BY <1>1 DEF Bystander, Replace
<1>3. Shrinks /\ KeepsMap(g)
  BY <1>1, ReplaceKeeps DEF Types, RegistryTypes
<1> QED
  BY <1>1, <1>2, <1>3, AroundInv DEF Types

\* Whoever enters, perhaps again, is seen without an id.
LEMMA EnterInv ==
    ASSUME Types, Types', NEW g \in Handlers, HandlerInv(g),
           NEW o \in Objects, NEW s \in Sockets, Enter(o, s)
    PROVE  HandlerInv(g)'
<1> USE DEF handling, reply
<1>1. /\ subs' = subs \cup {<<o, s>>} /\ named' = named \ {<<o, s>>}
      /\ UNCHANGED <<channels, handling, reply, made, delivered, stayed>>
      /\ See(IdOf[o], s, Blank)
  BY DEF Enter
<1>2. /\ Active(g) /\ Concerns(req[g], IdOf[o]) => seen'[g] = seen[g] \cup {<<IdOf[o], s, Blank>>}
      /\ ~(Active(g) /\ Concerns(req[g], IdOf[o])) => seen'[g] = seen[g]
  BY <1>1 DEF See
<1>3. Bystander(g)
  BY <1>1, <1>2 DEF Bystander
<1>4. Stays(g)'
  BY <1>1 DEF HandlerInv, Stays, Active
<1>5. Holds(g)'
  BY <1>1 DEF HandlerInv, Holds, Active
<1>6. Sees(g)'
  <2> SUFFICES ASSUME Active(g), NEW p \in subs', Concerns(req[g], IdOf[p[1]])
               PROVE  <<IdOf[p[1]], p[2], Id(p[1], p[2])'>> \in seen'[g]
    BY <1>1 DEF Sees, Active
  <2>1. CASE p = <<o, s>>
    <3>1. Id(o, s)' = Blank
      BY <1>1 DEF Id
    <3> QED
      BY <1>2, <2>1, <3>1
  <2>2. CASE p \in subs /\ p # <<o, s>>
    <3>1. p = <<p[1], p[2]>>
      BY <2>2 DEF Types, RegistryTypes
    <3>2. Id(p[1], p[2])' = Id(p[1], p[2])
      BY <1>1, <2>2, <3>1 DEF Id
    <3> QED
      BY <1>2, <2>2, <3>2 DEF HandlerInv, Sees
  <2> QED
    BY <1>1, <2>1, <2>2
<1>7. Reads(g)'
  BY <1>1, <1>3, ReadsAround DEF HandlerInv
<1> QED
  BY <1>3, <1>4, <1>5, <1>6, <1>7, BystanderInv DEF Types

\* An id that is set is one more that a pointer to the subscription may show.
LEMMA IdentifyInv ==
    ASSUME Types, Types', NEW g \in Handlers, HandlerInv(g),
           NEW o \in Objects, NEW s \in Sockets, Identify(o, s)
    PROVE  HandlerInv(g)'
<1> USE DEF reply
<1> DEFINE u == UserOf[s]
           After(p) == IF p[1] = s /\ o \in held[g] THEN <<s, p[2] \cup {u}>> ELSE p
<1>1. /\ named' = named \cup {<<o, s>>} /\ <<o, s>> \in subs
      /\ UNCHANGED <<channels, subs, pc, req, names, held, reply, made, delivered, stayed>>
      /\ See(IdOf[o], s, u)
  BY DEF Identify
<1>2. pointers'[g] = {After(p) : p \in pointers[g]}
  BY DEF Identify
<1>3. /\ Active(g) /\ Concerns(req[g], IdOf[o]) => seen'[g] = seen[g] \cup {<<IdOf[o], s, u>>}
      /\ ~(Active(g) /\ Concerns(req[g], IdOf[o])) => seen'[g] = seen[g]
  BY <1>1 DEF See
<1>4. Bystander(g)
  BY <1>1, <1>3 DEF Bystander
<1>5. Stays(g)'
  BY <1>1 DEF HandlerInv, Stays, Active
<1>6. Holds(g)'
  BY <1>1 DEF HandlerInv, Holds, Active
<1>7. Sees(g)'
  <2> SUFFICES ASSUME Active(g), NEW p \in subs, Concerns(req[g], IdOf[p[1]])
               PROVE  <<IdOf[p[1]], p[2], Id(p[1], p[2])'>> \in seen'[g]
    BY <1>1 DEF Sees, Active
  <2>1. p = <<p[1], p[2]>>
    BY DEF Types, RegistryTypes
  <2>2. CASE p = <<o, s>>
    <3>1. Id(o, s)' = u
      BY <1>1 DEF Id
    <3> QED
      BY <1>3, <2>2, <3>1
  <2>3. CASE p # <<o, s>>
    <3>1. Id(p[1], p[2])' = Id(p[1], p[2])
      BY <1>1, <2>1, <2>3 DEF Id
    <3> QED
      BY <1>3, <3>1 DEF HandlerInv, Sees
  <2> QED
    BY <2>2, <2>3
<1>8. Reads(g)'
  <2>1. CASE pc[g] # "read"
    <3>1. /\ ChannelOf(g)' = ChannelOf(g) /\ seen[g] \subseteq seen'[g]
          /\ NamedIn(g, ChannelOf(g))' \subseteq NamedIn(g, ChannelOf(g))
      BY <1>1, <1>3 DEF ChannelOf, NamedIn, StayedIn
    <3> QED
      BY <1>1, <2>1, <3>1 DEF HandlerInv, Reads
  <2>2. CASE pc[g] = "read"
    <3>0. PICK c : c = ChannelOf(g)
      OBVIOUS
    <3>1. /\ req[g].kind = "users" /\ req[g] \in Requests /\ Active(g)
          /\ \A q \in held[g] : IdOf[q] = c
      BY <2>2, <3>0 DEF HandlerInv, Phase, Active
    <3>2. c \in ToSet(req[g].channels)
      BY <3>0, <3>1, RequestShape DEF ChannelOf
    <3> HIDE DEF u
    <3>3. Concerns(req[g], c)
      BY <3>1, <3>2 DEF Concerns, About
    <3>4. /\ \A i \in ids[g] : <<c, i[1], i[2]>> \in seen[g]
          /\ \A p \in pointers[g] : \A id \in p[2] : <<c, p[1], id>> \in seen[g]
          /\ \A t \in NamedIn(g, c) : <<t, UserOf[t]>> \in ids[g] \/ <<t, {UserOf[t]}>> \in pointers[g]
      BY <2>2, <3>0, <3>1 DEF HandlerInv, Reads
    <3>5. NamedIn(g, c)' \subseteq NamedIn(g, c) /\ seen[g] \subseteq seen'[g]
      BY <1>1, <1>3 DEF NamedIn, StayedIn
    <3>6. ASSUME NEW p \in pointers[g], NEW id \in After(p)[2] PROVE <<c, After(p)[1], id>> \in seen'[g]
      <4>1. CASE p[1] = s /\ o \in held[g] /\ id = u
        BY <1>3, <3>1, <3>3, <4>1
      <4>2. CASE ~(p[1] = s /\ o \in held[g]) \/ id # u
        BY <3>4, <3>5, <4>2
      <4> QED
        BY <4>1, <4>2
    <3>7. ASSUME NEW t \in NamedIn(g, c), <<t, {UserOf[t]}>> \in pointers[g]
          PROVE  <<t, {UserOf[t]}>> \in pointers'[g]
      <4>1. After(<<t, {UserOf[t]}>>) = <<t, {UserOf[t]}>>
        BY DEF u
      <4>2. After(<<t, {UserOf[t]}>>) \in pointers'[g]
        BY <1>2, <3>7
      <4> QED
        BY <4>1, <4>2
    <3> HIDE DEF After
    <3>8. \A p \in pointers'[g] : \A id \in p[2] : <<c, p[1], id>> \in seen'[g]
      BY <1>2, <3>6
    <3>9. ChannelOf(g)' = c /\ pc'[g] = "read" /\ ids' = ids
      BY <1>1, <2>2, <3>0 DEF ChannelOf
    <3> QED
      BY <3>4, <3>5, <3>7, <3>8, <3>9 DEF Reads
  <2> QED
    BY <2>1, <2>2
<1> QED
  BY <1>4, <1>5, <1>6, <1>7, <1>8, BystanderInv DEF Types

\* Who leaves the object of the map is no longer counted on.
LEMMA LeaveInv ==
    ASSUME Types, Types', NEW g \in Handlers, HandlerInv(g),
           NEW o \in Objects, NEW s \in Sockets, Leave(o, s)
    PROVE  HandlerInv(g)'
<1> USE DEF handling, reply
<1>1. /\ subs' = subs \ {<<o, s>>} /\ named' = named \ {<<o, s>>}
      /\ UNCHANGED <<channels, handling, reply, made, delivered, seen>>
  BY DEF Leave
<1>2. stayed'[g] = IF Active(g) /\ o \in Mapped THEN stayed[g] \ {<<IdOf[o], s>>} ELSE stayed[g]
  BY DEF Leave
<1>3. Bystander(g)
  BY <1>1, <1>2 DEF Bystander
<1>4. Stays(g)'
  <2> SUFFICES ASSUME Active(g), NEW p \in stayed'[g]
               PROVE  channels[p[1]] # NoObject /\ <<channels[p[1]], p[2]>> \in subs'
    BY <1>1 DEF Stays, Active
  <2>1. /\ p \in stayed[g] /\ channels[p[1]] # NoObject /\ <<channels[p[1]], p[2]>> \in subs
    BY <1>2 DEF HandlerInv, Stays
  <2>2. p \in Joins
    BY <2>1 DEF Types, HandlerTypes
  <2>3. p[1] \in Channels /\ p = <<p[1], p[2]>>
    BY <2>2, JoinsPairs
  <2>4. channels[p[1]] \in Mapped /\ IdOf[channels[p[1]]] = p[1]
    BY <2>1, <2>3 DEF Mapped, Types, RegistryTypes
  <2>5. ~(channels[p[1]] = o /\ p[2] = s)
    BY <1>2, <2>3, <2>4
  <2> QED
    BY <1>1, <2>1, <2>5
<1>5. Holds(g)'
  BY <1>1, <1>2 DEF HandlerInv, Holds, Active
<1>6. Sees(g)'
  <2>1. \A p \in subs' : p \in subs /\ p = <<p[1], p[2]>> /\ Id(p[1], p[2])' = Id(p[1], p[2])
    BY <1>1 DEF Id, Types, RegistryTypes
  <2> QED
    BY <1>1, <2>1 DEF HandlerInv, Sees, Active
<1>7. Reads(g)'
  BY <1>1, <1>3, ReadsAround DEF HandlerInv
<1> QED
  BY <1>3, <1>4, <1>5, <1>6, <1>7, BystanderInv DEF Types

\* Whatever sessions do between two sections, the bounds and what has been read hold.
LEMMA SessionsInv ==
    ASSUME Types, Types', NEW g \in Handlers, HandlerInv(g), Sessions
    PROVE  HandlerInv(g)'
BY SessionAddsInv, RemoveChannelInv, EnterInv, IdentifyInv, LeaveInv DEF Sessions

\* The answer of Redis lets the handler that waits for it go on.
LEMMA RedisAnswersInv ==
    ASSUME Types, Types', NEW g \in Handlers, HandlerInv(g), RedisAnswers
    PROVE  HandlerInv(g)'
<1> USE DEF reply, history
<1>1. /\ UNCHANGED <<channels, subs, named, req, names, held, pointers, reply, history>>
      /\ pc'[g] = IF pc[g] = "adding" THEN "publish" ELSE pc[g]
  BY DEF RedisAnswers
<1>2. CASE pc[g] # "adding"
  <2>1. Bystander(g)
    BY <1>1, <1>2 DEF Bystander
  <2>2. Shrinks /\ KeepsMap(g)
    BY <1>1 DEF Shrinks, KeepsMap
  <2> QED
    BY <1>1, <2>1, <2>2, AroundInv DEF Types
<1>3. CASE pc[g] = "adding"
  <2> USE DEF HandlerInv
  <2>1. Phase(g)'
    BY <1>1, <1>3 DEF Phase, Active
  <2>2. Stays(g)' /\ Holds(g)'
    BY <1>1, <1>3 DEF Stays, Holds, Active
  <2>3. Sees(g)'
    BY <1>1, <1>3 DEF Sees, Active, Id
  <2>4. Posted(g)' /\ Effects(g)'
    BY <1>1, <1>3 DEF Posted, Effects
  <2>5. Lists(g)' /\ Reads(g)' /\ Counts(g)'
    <3>1. req[g].kind = "events"
      BY <1>3 DEF Phase
    <3> QED
      BY <1>1, <1>3, <3>1 DEF Lists, Reads, Counts
  <2> QED
    BY <2>1, <2>2, <2>3, <2>4, <2>5
<1> QED
  BY <1>2, <1>3

-------------------------------------------------------------------------------
(* The steps of a handler.                                                  *)

HandlerStep(g) ==
    \/ \E q \in Requests : Arrive(g, q)
    \/ Locking(g) \/ Reading(g) \/ Publishing(g) \/ Reply(g)

\* To another handler they are those of a bystander.
LEMMA Untouched ==
    ASSUME Types, NEW g \in Handlers, HandlerStep(g), NEW h \in Handlers, h # g
    PROVE  Bystander(h) /\ pointers'[h] = pointers[h] /\ Shrinks /\ KeepsMap(h)
<1> USE DEF registry, reply, history, Goto, Types, HandlerTypes
<1>s. UNCHANGED <<subs, named>> => Shrinks
  BY DEF Shrinks
<1>k. UNCHANGED channels /\ stayed'[h] \subseteq stayed[h] => KeepsMap(h)
  BY DEF KeepsMap
<1>p. ASSUME NEW label, NEW objects, Proceed(g, label, objects)
      PROVE  Shrinks /\ pc'[h] = pc[h] /\ held'[h] = held[h] /\ UNCHANGED channels
  BY <1>p, CollectShrinks DEF Proceed
<1>1. ASSUME NEW q \in Requests, Arrive(g, q)
      PROVE  Bystander(h) /\ pointers'[h] = pointers[h] /\ Shrinks /\ KeepsMap(h)
  BY <1>1, <1>s, <1>k DEF Arrive, Begin, Bystander
<1>2. CASE Reply(g)
  BY <1>2, <1>s, <1>k DEF Reply, Bystander
<1>3. ASSUME NEW o \in Objects, Publish(g, o)
      PROVE  Bystander(h) /\ pointers'[h] = pointers[h] /\ Shrinks /\ KeepsMap(h)
  <2>1. Shrinks /\ pc'[h] = pc[h] /\ held'[h] = held[h] /\ UNCHANGED channels
    BY <1>3, <1>p DEF Publish
  <2>2. /\ names'[h] = names[h] /\ status'[h] = status[h] /\ delivered'[h] = delivered[h]
        /\ UNCHANGED <<req, pointers, answer, ids, made, stayed, seen>>
    BY <1>3 DEF Publish
  <2> QED
    BY <2>1, <2>2, <1>k DEF Bystander
<1>4. CASE FindChannel(g)
  BY <1>4, <1>s, <1>k DEF FindChannel, Bystander
<1>5. ASSUME NEW o \in Objects, AddChannel(g, o)
      PROVE  Bystander(h) /\ pointers'[h] = pointers[h] /\ Shrinks /\ KeepsMap(h)
  <2>1. IdOf[o] \in Channels
    BY ApiAssumption
  <2>2. Replace(IdOf[o], o)
    BY <1>5 DEF AddChannel
  <2>3. Shrinks /\ KeepsMap(h)
    BY <2>1, <2>2, ReplaceKeeps DEF RegistryTypes
  <2>4. /\ stayed'[h] \subseteq stayed[h]
        /\ ~Active(h) => stayed'[h] = stayed[h]
    BY <2>2 DEF Replace
  <2>5. /\ pc'[h] = pc[h] /\ held'[h] = held[h] /\ made'[h] = made[h]
        /\ UNCHANGED <<req, names, pointers, status, answer, ids, delivered, seen>>
    BY <1>5 DEF AddChannel
  <2> QED
    BY <2>3, <2>4, <2>5 DEF Bystander
<1>6. CASE GetChannels(g)
  BY <1>6, <1>s, <1>k DEF GetChannels, Bystander
<1>7. CASE Lookup(g)
  BY <1>7, <1>s, <1>k DEF Lookup, Bystander
<1>8. ASSUME NEW o \in Objects, ReadsNumber(g, o)
      PROVE  Bystander(h) /\ pointers'[h] = pointers[h] /\ Shrinks /\ KeepsMap(h)
  <2>1. PICK attribute \in Attributes, n \in Nat : Read(g, attribute, o, n)
    BY <1>8, ReadNumberSteps
  <2>2. Shrinks /\ pc'[h] = pc[h] /\ held'[h] = held[h] /\ UNCHANGED channels
    BY <1>8, <1>p, ReadNumberSteps
  <2>3. UNCHANGED <<req, names, pointers, status, ids, history>>
    BY <1>8, ReadNumberSteps
  <2>4. answer'[h] = answer[h]
    BY <2>1 DEF Read
  <2> QED
    BY <2>2, <2>3, <2>4, <1>k DEF Bystander
<1>9. ASSUME NEW o \in Objects, CopySubscriptions(g, o)
      PROVE  Bystander(h) /\ pointers'[h] = pointers[h] /\ Shrinks /\ KeepsMap(h)
  <2>1. Shrinks /\ pc'[h] = pc[h] /\ held'[h] = held[h] /\ UNCHANGED channels
    BY <1>9, <1>p DEF CopySubscriptions
  <2>2. pointers'[h] = pointers[h] /\ UNCHANGED <<req, names, reply, history>>
    BY <1>9 DEF CopySubscriptions
  <2> QED
    BY <2>1, <2>2, <1>k DEF Bystander
<1>10. ASSUME NEW p \in Sockets \X SUBSET Ids, ReadId(g, p)
       PROVE  Bystander(h) /\ pointers'[h] = pointers[h] /\ Shrinks /\ KeepsMap(h)
  <2>1. Shrinks /\ pc'[h] = pc[h] /\ held'[h] = held[h] /\ UNCHANGED channels
    BY <1>10, <1>p DEF ReadId
  <2>2. /\ pointers'[h] = pointers[h] /\ ids'[h] = ids[h] /\ status'[h] = status[h]
        /\ UNCHANGED <<req, names, answer, history>>
    BY <1>10 DEF ReadId
  <2> QED
    BY <2>1, <2>2, <1>k DEF Bystander
<1> QED
  BY <1>1, <1>2, <1>3, <1>4, <1>5, <1>6, <1>7, <1>8, <1>9, <1>10
  DEF HandlerStep, Locking, Reading, Publishing, ReadsNumber

\* A handler that goes on keeps count of who stays and of whom it sees.
LEMMA GoesOn ==
    ASSUME Types, NEW g \in Handlers, HandlerInv(g), Active(g),
           NEW label, NEW objects \in SUBSET held[g], Proceed(g, label, objects),
           UNCHANGED <<req, stayed, seen>>
    PROVE  Stays(g)' /\ Holds(g)' /\ Sees(g)' /\ held'[g] \subseteq held[g]
           /\ pc'[g] = label /\ (label = "reply" => held'[g] = {})
<1>1. UNCHANGED channels /\ Shrinks
  BY CollectShrinks DEF Proceed
<1>2. /\ held'[g] \subseteq held[g] /\ pc'[g] = label
      /\ label = "reply" => held'[g] = {}
  BY DEF Proceed, Goto, Types, HandlerTypes
<1>3. KeepsMap(g)
  BY <1>1 DEF KeepsMap
<1>4. Stays(g)'
  BY <1>1, <1>3, StaysAround DEF Stays, HandlerInv, Types
<1>5. Holds(g)'
  BY <1>2, <1>3, HoldsAround DEF Holds, HandlerInv
<1>6. Sees(g)'
  BY <1>1, SeesAround DEF HandlerInv, Types
<1> QED
  BY <1>2, <1>4, <1>5, <1>6

\* A handler begins with the subscriptions there are.
LEMMA ArriveInv ==
    ASSUME Types, NEW g \in Handlers, HandlerInv(g), NEW q \in Requests, Arrive(g, q)
    PROVE  HandlerInv(g)'
<1> USE DEF registry, Goto
<1> DEFINE label == IF Refusal(q) # 0 THEN "reply" ELSE FirstSection(q)
           stay == {<<IdOf[p[1]], p[2]>> : p \in {r \in subs : r[1] \in Mapped /\ About(q, IdOf[r[1]])}}
           saw == {<<IdOf[p[1]], p[2], Id(p[1], p[2])>> : p \in {r \in subs : Concerns(q, IdOf[r[1]])}}
<1>1. Begin(g, q, label)
  BY DEF Arrive
<1>2. /\ Refusal(q) # 0 => label = "reply"
      /\ Refusal(q) = 0 => label = FirstSection(q)
  OBVIOUS
<1>a. \A p \in stay : channels[p[1]] # NoObject /\ <<channels[p[1]], p[2]>> \in subs
  <2> SUFFICES ASSUME NEW p \in subs, p[1] \in Mapped
               PROVE  channels[IdOf[p[1]]] = p[1] /\ p[1] # NoObject /\ p = <<p[1], p[2]>>
    OBVIOUS
  <2>1. p[1] \in Objects /\ channels[IdOf[p[1]]] = p[1]
    BY MappedId DEF Types
  <2>2. NoObject \notin Objects
    BY ApiAssumption
  <2> QED
    BY <2>1, <2>2 DEF Types, RegistryTypes
<1>b. \A p \in subs : Concerns(q, IdOf[p[1]]) => <<IdOf[p[1]], p[2], Id(p[1], p[2])>> \in saw
  OBVIOUS
<1> HIDE DEF label, stay, saw
<1>3. /\ pc[g] = "idle" /\ answer[g] = {} /\ ids[g] = {} /\ held[g] = {}
      /\ made[g] = {} /\ delivered[g] = {} /\ stayed[g] = {} /\ seen[g] = {}
  BY <1>1 DEF Begin, HandlerInv, Phase
<1>4. /\ UNCHANGED <<channels, subs, named>> /\ held'[g] = {}
      /\ answer'[g] = {} /\ ids'[g] = {} /\ made'[g] = {} /\ delivered'[g] = {}
  BY <1>1, <1>3 DEF Begin
<1>5. /\ pc'[g] = label /\ req'[g] = q /\ status'[g] = Refusal(q)
      /\ names'[g] = IF label = "find" THEN q.channels ELSE <<>>
  BY <1>1 DEF Begin, Types, HandlerTypes
<1>6. /\ label = "reply" => stayed'[g] = {} /\ seen'[g] = {}
      /\ label # "reply" => stayed'[g] = stay /\ seen'[g] = saw
  BY <1>1, <1>3 DEF Begin, Types, HandlerTypes, stay, saw
<1>7. /\ label \in {"reply", "find", "list", "lookup"}
      /\ label # "reply" => Refusal(q) = 0
      /\ label = "find" => q.kind = "events" /\ q.channels # <<>>
      /\ label = "list" => q.kind = "channels"
      /\ label = "lookup" => q.kind \in {"channel", "users"}
      /\ label = "reply" /\ Refusal(q) = 0 => q.kind = "events"
  BY <1>2, FirstSectionValues
<1>8. Phase(g)'
  BY <1>4, <1>5, <1>6, <1>7, RefusalValues DEF Phase, Active, ChannelOf
<1>9. Stays(g)' /\ Holds(g)'
  BY <1>a, <1>4, <1>5, <1>6 DEF Stays, Holds, Active
<1>10. Sees(g)'
  <2>1. \A p \in subs : Id(p[1], p[2])' = Id(p[1], p[2])
    BY <1>4 DEF Id
  <2> QED
    BY <1>b, <1>4, <1>5, <1>6, <2>1 DEF Sees, Active
<1>11. Posted(g)' /\ Effects(g)'
  <2>1. label = "find" => \A p \in stay : p[1] \in ToSet(q.channels) => p[1] \in ToSet(names'[g])
    BY <1>5
  <2> QED
    BY <1>4, <1>5, <1>6, <1>7, <2>1 DEF Posted, Effects
<1>12. Lists(g)'
  BY <1>5, <1>6, <1>7 DEF Lists
<1>13. Reads(g)'
  BY <1>4, <1>5, <1>6, <1>7 DEF Reads, NamedIn, StayedIn
<1>14. Counts(g)'
  BY <1>4 DEF Counts
<1> QED
  BY <1>8, <1>9, <1>10, <1>11, <1>12, <1>13, <1>14 DEF HandlerInv

\* A reply leaves nothing behind that a later request could answer with.
LEMMA ReplyInv ==
    ASSUME Types, NEW g \in Handlers, HandlerInv(g), Reply(g)
    PROVE  HandlerInv(g)'
<1> USE DEF Goto
<1>1. /\ pc'[g] = "idle" /\ status'[g] = 0
      /\ answer'[g] = {} /\ ids'[g] = {}
      /\ made'[g] = {} /\ delivered'[g] = {} /\ stayed'[g] = {} /\ seen'[g] = {}
  BY DEF Reply, Types, HandlerTypes
<1>2. held'[g] = {}
  BY DEF Reply, HandlerInv, Phase
<1> QED
  BY <1>1, <1>2 DEF HandlerInv, Phase, Active, Stays, Holds, Sees, Posted, Effects, Lists, Reads, Counts

\* A POST finds the next of its channels, the one the map has of it, or none.
LEMMA FindChannelInv ==
    ASSUME Types, NEW g \in Handlers, HandlerInv(g), FindChannel(g)
    PROVE  HandlerInv(g)'
<1> USE DEF registry, reply, history, Goto
<1> DEFINE c == Head(names[g])
<1>1. /\ pc[g] = "find" /\ req[g].kind = "events" /\ names[g] # <<>> /\ names[g] \in Seq(Channels)
      /\ req[g] \in Requests /\ Active(g)
      /\ status[g] # 0 => req[g].body = "overflow"
  BY DEF FindChannel, HandlerInv, Phase, Active, Types, HandlerTypes
<1>2. c \in Channels
  BY <1>1, ToSetTail
<1>3. /\ pc'[g] = IF channels[c] = NoObject THEN "add" ELSE "publish"
      /\ held'[g] = {channels[c]} \ {NoObject}
  BY DEF FindChannel, Types, HandlerTypes
<1>4. UNCHANGED <<channels, subs, named, req, names, pointers, reply, history>>
  BY DEF FindChannel
<1>5. channels[c] # NoObject => IdOf[channels[c]] = c
  BY <1>2 DEF Types, RegistryTypes
<1> USE DEF HandlerInv
<1>6. Phase(g)'
  BY <1>1, <1>3, <1>4, <1>5 DEF Phase, Active
<1>7. Stays(g)'
  BY <1>1, <1>4 DEF Stays, Active
<1>8. Holds(g)'
  BY <1>1, <1>3, <1>4, <1>5 DEF Holds
<1>9. Sees(g)'
  BY <1>1, <1>4 DEF Sees, Active, Id
<1>10. Posted(g)' /\ Effects(g)'
  BY <1>1, <1>3, <1>4 DEF Posted, Effects
<1>11. Lists(g)' /\ Reads(g)' /\ Counts(g)'
  BY <1>1, <1>3, <1>4 DEF Lists, Reads, Counts
<1> QED
  BY <1>6, <1>7, <1>8, <1>9, <1>10, <1>11

\* It adds the channel, whatever the id has by then: nobody it replaces is counted on.
LEMMA AddChannelInv ==
    ASSUME Types, NEW g \in Handlers, HandlerInv(g), NEW o \in Objects, AddChannel(g, o)
    PROVE  HandlerInv(g)'
<1> USE DEF reply, Goto
<1>0. IdOf[o] \in Channels
  BY ApiAssumption
<1>1. /\ pc[g] = "add" /\ req[g].kind = "events" /\ names[g] # <<>>
      /\ req[g] \in Requests /\ Active(g) /\ held[g] = {}
      /\ status[g] # 0 => req[g].body = "overflow"
  BY DEF AddChannel, HandlerInv, Phase, Active
<1>2. /\ pc'[g] = "adding" /\ held'[g] = {o} /\ IdOf[o] = Head(names[g])
  BY DEF AddChannel, Types, HandlerTypes
<1>3. UNCHANGED <<req, names, pointers, reply, delivered, seen>>
  BY DEF AddChannel
<1>4. Replace(IdOf[o], o)
  BY DEF AddChannel
<1>5. stayed'[g] = {p \in stayed[g] : p[1] # IdOf[o]}
  BY <1>1, <1>4 DEF Replace
<1>6. Shrinks /\ KeepsMap(g)
  BY <1>0, <1>4, ReplaceKeeps DEF Types, RegistryTypes
<1>7. Phase(g)'
  BY <1>1, <1>2, <1>3 DEF Phase, Active, HandlerInv
<1>8. Stays(g)'
  BY <1>1, <1>6, StaysAround DEF Stays, HandlerInv, Types
<1>9. Holds(g)'
  BY <1>2, <1>5 DEF Holds
<1>10. Sees(g)'
  BY <1>1, <1>3, <1>6, SeesAround DEF HandlerInv, Types
<1> USE DEF HandlerInv
<1>11. Posted(g)' /\ Effects(g)'
  BY <1>1, <1>2, <1>3, <1>5 DEF Posted, Effects
<1>12. Lists(g)' /\ Reads(g)' /\ Counts(g)'
  BY <1>1, <1>2, <1>3 DEF Lists, Reads, Counts
<1> QED
  BY <1>7, <1>8, <1>9, <1>10, <1>11, <1>12

\* It publishes to all who are in the object it holds, the socket it names left out:
\* those who have stayed in the map's are there.
LEMMA PublishInv ==
    ASSUME Types, NEW g \in Handlers, HandlerInv(g), NEW o \in Objects, Publish(g, o)
    PROVE  HandlerInv(g)'
<1> DEFINE D == {<<IdOf[o], s>> : s \in Members(o) \ {req[g].ignore}}
           label == IF Tail(names[g]) = <<>> THEN "reply" ELSE "find"
<1>1. /\ pc[g] = "publish" /\ req[g].kind = "events" /\ names[g] # <<>>
      /\ req[g] \in Requests /\ Active(g) /\ o \in held[g] /\ IdOf[o] = Head(names[g])
      /\ status[g] # 0 => req[g].body = "overflow"
  BY DEF Publish, HandlerInv, Phase, Active
<1>2. names[g] \in Seq(Channels)
  BY DEF Types, HandlerTypes
<1>3. ToSet(names[g]) = {IdOf[o]} \cup ToSet(Tail(names[g]))
  BY <1>1, <1>2, ToSetTail
<1>4. /\ names'[g] = Tail(names[g]) /\ Proceed(g, label, {})
      /\ UNCHANGED <<req, pointers, answer, ids, made, stayed, seen>>
  BY DEF Publish, Types, HandlerTypes
<1>g. /\ Stays(g)' /\ Holds(g)' /\ Sees(g)' /\ pc'[g] = label /\ held'[g] = {}
  <2>1. held' = [held EXCEPT ![g] = {}]
    BY <1>4 DEF Proceed
  <2>2. held'[g] = {}
    BY <2>1 DEF Types, HandlerTypes
  <2> DEFINE none == {}
  <2>3. Proceed(g, label, none) /\ none \in SUBSET held[g]
    BY <1>4
  <2> HIDE DEF label, none
  <2>4. Stays(g)' /\ Holds(g)' /\ Sees(g)' /\ pc'[g] = label
    BY <1>1, <1>4, <2>3, GoesOn
  <2> QED
    BY <2>2, <2>4
<1>5. CASE req[g].body = "overflow"
        /\ status'[g] = 500 /\ delivered'[g] = delivered[g]
  <2>1. delivered[g] = {}
    BY <1>1, <1>5 DEF HandlerInv, Effects
  <2>2. /\ Stays(g)' /\ Holds(g)' /\ Sees(g)' /\ pc'[g] = label /\ held'[g] = {}
    BY <1>g
  <2>3. label \in {"reply", "find"} /\ (label = "find" => Tail(names[g]) # <<>>)
    OBVIOUS
  <2> HIDE DEF label
  <2>4. Phase(g)'
    BY <1>1, <1>4, <1>5, <2>1, <2>2, <2>3 DEF Phase, Active
  <2>5. Posted(g)' /\ Effects(g)'
    BY <1>1, <1>4, <1>5, <2>1 DEF Posted, Effects
  <2>6. Lists(g)' /\ Reads(g)' /\ Counts(g)'
    BY <1>1, <1>4 DEF Lists, Reads, Counts
  <2> QED
    BY <2>2, <2>4, <2>5, <2>6 DEF HandlerInv
<1>6. CASE req[g].body # "overflow"
        /\ status'[g] = status[g] /\ delivered'[g] = delivered[g] \cup D
  <2>1. status[g] = 0
    BY <1>1, <1>6
  <2>2. /\ Stays(g)' /\ Holds(g)' /\ Sees(g)' /\ pc'[g] = label /\ held'[g] = {}
    BY <1>g
  <2>3. /\ label \in {"reply", "find"} /\ (label = "find" => Tail(names[g]) # <<>>)
        /\ label = "reply" => Tail(names[g]) = <<>>
    OBVIOUS
  <2>4. \A p \in D : p[2] # req[g].ignore
    OBVIOUS
  <2>5. ASSUME NEW p \in stayed[g], p[1] = IdOf[o], p[2] # req[g].ignore PROVE p \in D
    <3>1. channels[p[1]] = o /\ <<channels[p[1]], p[2]>> \in subs
      BY <1>1, <2>5 DEF HandlerInv, Stays, Holds
    <3>2. p \in Joins
      BY DEF Types, HandlerTypes
    <3>3. p = <<IdOf[o], p[2]>> /\ p[2] \in Sockets
      BY <2>5, <3>2, JoinsPairs
    <3>4. p[2] \in Members(o)
      BY <3>1, <3>3 DEF Members
    <3> QED
      BY <2>5, <3>3, <3>4
  <2> HIDE DEF D, label
  <2>6. Phase(g)'
    BY <1>1, <1>4, <1>6, <2>1, <2>2, <2>3 DEF Phase, Active
  <2>7. Posted(g)'
    BY <1>1, <1>3, <1>4, <1>6, <2>4, <2>5 DEF HandlerInv, Posted
  <2>8. Effects(g)' /\ Lists(g)' /\ Reads(g)' /\ Counts(g)'
    BY <1>1, <1>4, <1>6, <2>1 DEF Effects, Lists, Reads, Counts
  <2> QED
    BY <2>2, <2>6, <2>7, <2>8 DEF HandlerInv
<1> QED
  BY <1>5, <1>6 DEF Publish, Types, HandlerTypes

\* In an object a request reads, whoever stayed is there now, and it has seen all who are.
LEMMA Present ==
    ASSUME Types, NEW g \in Handlers, HandlerInv(g), Active(g), NEW o \in held[g],
           Concerns(req[g], IdOf[o])
    PROVE  /\ StayedIn(g, IdOf[o]) \subseteq Members(o)
           /\ \A s \in Members(o) : <<IdOf[o], s, Id(o, s)>> \in SeenIn(g, IdOf[o])
           /\ \A s \in NamedIn(g, IdOf[o]) : Id(o, s) = UserOf[s]
<1> USE DEF HandlerInv
<1>1. ASSUME NEW s \in StayedIn(g, IdOf[o]) PROVE s \in Members(o)
  <2>1. <<IdOf[o], s>> \in stayed[g] /\ s \in Sockets
    BY DEF StayedIn
  <2>2. channels[IdOf[o]] = o /\ <<channels[IdOf[o]], s>> \in subs
    BY <2>1 DEF Stays, Holds
  <2> QED
    BY <2>1, <2>2 DEF Members
<1>2. ASSUME NEW s \in Members(o) PROVE <<IdOf[o], s, Id(o, s)>> \in SeenIn(g, IdOf[o])
  <2>1. <<o, s>> \in subs
    BY DEF Members
  <2>2. <<IdOf[o], s, Id(o, s)>> \in seen[g]
    BY <2>1 DEF Sees
  <2> QED
    BY <2>2 DEF SeenIn
<1>3. ASSUME NEW s \in NamedIn(g, IdOf[o]) PROVE Id(o, s) = UserOf[s]
  <2>1. s \in StayedIn(g, IdOf[o]) /\ <<IdOf[o], s, Blank>> \notin seen[g]
    BY DEF NamedIn
  <2>2. <<IdOf[o], s, Id(o, s)>> \in seen[g]
    BY <1>1, <1>2, <2>1 DEF SeenIn
  <2> QED
    BY <2>1, <2>2 DEF Id
<1> QED
  BY <1>1, <1>2, <1>3

\* So what it reads there now lies between the two.
LEMMA NumbersJustified ==
    ASSUME Types, NEW g \in Handlers, HandlerInv(g), Active(g), NEW o \in held[g],
           Concerns(req[g], IdOf[o])
    PROVE  /\ Justified(g, [attr |-> "occupied", channel |-> IdOf[o],
                            value |-> IF TotalSubscriptions(o) > 0 THEN 1 ELSE 0])
           /\ Justified(g, [attr |-> "subscription_count", channel |-> IdOf[o],
                            value |-> TotalSubscriptions(o)])
           /\ Justified(g, [attr |-> "user_count", channel |-> IdOf[o], value |-> TotalUsers(o)])
<1> DEFINE c == IdOf[o]
           M == Members(o)
           stay == StayedIn(g, c)
           saw == SeenIn(g, c)
<1>0. IsFiniteSet(Sockets) /\ IsFiniteSet(Users)
  BY ApiAssumption
<1>1. /\ stay \subseteq M
      /\ \A s \in M : <<c, s, Id(o, s)>> \in saw
      /\ \A s \in NamedIn(g, c) : Id(o, s) = UserOf[s]
  BY Present
<1>2. IsFiniteSet(M) /\ M \subseteq Sockets
  BY MembersFinite
<1>3. \A t \in saw : t[2] \in Sockets /\ t[3] \in Ids
  <2>1. seen[g] \subseteq Channels \X Sockets \X Ids
    BY DEF Types, HandlerTypes
  <2> QED
    BY <2>1 DEF SeenIn
<1>4. IsFiniteSet(Ids)
  BY <1>0, FS_AddElement DEF Ids
<1>n. NamedIn(g, c) \subseteq stay
  BY DEF NamedIn
<1>5. /\ Cardinality(stay) \in Nat /\ Cardinality(M) \in Nat
      /\ Cardinality(stay) <= Cardinality(M)
      /\ Cardinality(M) = 0 <=> M = {}
  BY <1>1, <1>2, FS_Subset, FS_CardinalityType, FS_EmptySet
<1>w. \A s \in M : \E t \in saw : t[2] = s /\ t[3] = Id(o, s)
  <2> TAKE s \in M
  <2>1. <<c, s, Id(o, s)>> \in saw
    BY <1>1
  <2> WITNESS <<c, s, Id(o, s)>> \in saw
  <2> QED
    OBVIOUS
<1>6. Cardinality(M) <= Cardinality({t[2] : t \in saw})
  <2> DEFINE T == {t[2] : t \in saw}
  <2>1. M \subseteq T
    BY <1>w
  <2>2. T \subseteq Sockets
    BY <1>3
  <2> HIDE DEF T, M
  <2> QED
    BY <1>0, <2>1, <2>2, FS_Subset DEF T
<1>7. /\ Cardinality({UserOf[s] : s \in NamedIn(g, c)}) <= TotalUsers(o)
      /\ TotalUsers(o) <= Cardinality({t[3] : t \in saw})
  <2> DEFINE S == {UserOf[s] : s \in NamedIn(g, c)}
             T == {t[3] : t \in saw}
             U == {Id(o, s) : s \in M}
  <2>1. S \subseteq U
    BY <1>1, <1>n
  <2>2. U \subseteq T
    BY <1>w
  <2>3. T \subseteq Ids
    BY <1>3
  <2> HIDE DEF S, T, U
  <2>4. IsFiniteSet(T) /\ IsFiniteSet(U)
    BY <1>4, <2>2, <2>3, FS_Subset
  <2>5. Cardinality(S) <= Cardinality(U) /\ Cardinality(U) <= Cardinality(T)
    BY <2>1, <2>2, <2>4, FS_Subset
  <2> QED
    BY <2>5 DEF S, T, U, TotalUsers
<1>8. (stay # {} => M # {}) /\ (saw = {} => M = {})
  BY <1>1
<1> HIDE DEF M, stay, saw
<1>9. TotalSubscriptions(o) = Cardinality(M)
  BY DEF TotalSubscriptions, M
<1>10. Justified(g, [attr |-> "occupied", channel |-> c,
                     value |-> IF TotalSubscriptions(o) > 0 THEN 1 ELSE 0])
  BY <1>5, <1>8, <1>9 DEF Justified, stay, saw
<1>11. Justified(g, [attr |-> "subscription_count", channel |-> c,
                     value |-> TotalSubscriptions(o)])
  BY <1>5, <1>6, <1>9 DEF Justified, stay, saw
<1>12. Justified(g, [attr |-> "user_count", channel |-> c, value |-> TotalUsers(o)])
  BY <1>7 DEF Justified, stay, saw
<1> QED
  BY <1>10, <1>11, <1>12

\* A number more that is justified.
LEMMA ReadCounts ==
    ASSUME HandlerTypes, NEW g \in Handlers, NEW attribute, NEW o, NEW n, Read(g, attribute, o, n),
           Justified(g, [attr |-> attribute, channel |-> IdOf[o], value |-> n]),
           stayed' = stayed, seen' = seen, req' = req, pc[g] # "idle", Counts(g)
    PROVE  Counts(g)' /\ answer[g] \subseteq answer'[g]
<1>1. answer'[g] = answer[g] \cup {[attr |-> attribute, channel |-> IdOf[o], value |-> n]}
  BY DEF Read, HandlerTypes
<1>2. ASSUME NEW a, Justified(g, a) PROVE Justified(g, a)'
  BY <1>2 DEF Justified, StayedIn, SeenIn, NamedIn
<1> QED
  BY <1>1, <1>2 DEF Counts

\* What is read of an object, for a listing or for GET channel, is a justified number.
LEMMA ReadNumberInv ==
    ASSUME Types, NEW g \in Handlers, HandlerInv(g), NEW o \in Objects, ReadsNumber(g, o)
    PROVE  HandlerInv(g)'
<1> USE DEF history
<1>1. /\ pc[g] \in {"count", "occupied", "users", "subscriptions"} /\ Active(g) /\ o \in held[g]
      /\ req[g] \in Requests /\ status[g] = 0
      /\ pc[g] = "count" => req[g].kind = "channels" /\ Asks(req[g], "user_count")
      /\ pc[g] # "count" => req[g].kind = "channel" /\ IdOf[o] = ChannelOf(g)
  BY DEF ReadsNumber, CountUsers, ReadOccupied, ReadUsers, ReadSubscriptions, HandlerInv, Phase, Active
<1>2. Concerns(req[g], IdOf[o])
  <2>1. CASE pc[g] = "count"
    BY <1>1, <2>1 DEF Concerns, About, Asks
  <2>2. CASE pc[g] # "count"
    <3>1. ChannelOf(g) \in ToSet(req[g].channels)
      BY <1>1, <2>2, RequestShape DEF ChannelOf
    <3> QED
      BY <1>1, <2>2, <3>1 DEF Concerns, About
  <2> QED
    BY <2>1, <2>2
<1>3. PICK attribute, n :
        /\ Read(g, attribute, o, n)
        /\ Justified(g, [attr |-> attribute, channel |-> IdOf[o], value |-> n])
  <2>1. /\ Justified(g, [attr |-> "occupied", channel |-> IdOf[o],
                         value |-> IF TotalSubscriptions(o) > 0 THEN 1 ELSE 0])
        /\ Justified(g, [attr |-> "subscription_count", channel |-> IdOf[o],
                         value |-> TotalSubscriptions(o)])
        /\ Justified(g, [attr |-> "user_count", channel |-> IdOf[o], value |-> TotalUsers(o)])
    BY <1>1, <1>2, NumbersJustified
  <2>2. CASE ReadOccupied(g, o)
    BY <2>1, <2>2 DEF ReadOccupied
  <2>3. CASE ReadUsers(g, o) \/ CountUsers(g, o)
    BY <2>1, <2>3 DEF ReadUsers, CountUsers
  <2>4. CASE ReadSubscriptions(g, o)
    BY <2>1, <2>4 DEF ReadSubscriptions
  <2> QED
    BY <2>2, <2>3, <2>4 DEF ReadsNumber
<1>4. UNCHANGED <<req, names, pointers, status, ids, history>>
  BY ReadNumberSteps
<1>5. \E label \in {"reply", "count", "users", "subscriptions"}, objects \in SUBSET held[g] :
        /\ Proceed(g, label, objects)
        /\ label # "reply" => (label = "count" <=> pc[g] = "count")
  <2>1. held[g] \in SUBSET held[g] /\ held[g] \ {o} \in SUBSET held[g]
    OBVIOUS
  <2>2. CASE CountUsers(g, o)
    <3>1. pc[g] = "count"
          /\ \/ Proceed(g, "reply", held[g] \ {o})
             \/ Proceed(g, "count", held[g] \ {o})
      BY <2>2 DEF CountUsers
    <3> QED
      BY <2>1, <3>1
  <2>3. CASE ReadOccupied(g, o)
    <3>1. pc[g] = "occupied"
          /\ \/ Proceed(g, "users", held[g])
             \/ Proceed(g, "subscriptions", held[g])
             \/ Proceed(g, "reply", held[g])
      BY <2>3 DEF ReadOccupied, AfterUsers
    <3> QED
      BY <2>1, <3>1
  <2>4. CASE ReadUsers(g, o)
    <3>1. pc[g] = "users"
          /\ \/ Proceed(g, "subscriptions", held[g])
             \/ Proceed(g, "reply", held[g])
      BY <2>4 DEF ReadUsers, AfterUsers
    <3> QED
      BY <2>1, <3>1
  <2>5. CASE ReadSubscriptions(g, o)
    <3>1. pc[g] = "subscriptions" /\ Proceed(g, "reply", held[g])
      BY <2>5 DEF ReadSubscriptions
    <3> QED
      BY <2>1, <3>1
  <2> QED
    BY <2>2, <2>3, <2>4, <2>5 DEF ReadsNumber
<1>l. PICK label \in {"reply", "count", "users", "subscriptions"}, objects \in SUBSET held[g] :
        /\ Proceed(g, label, objects)
        /\ label # "reply" => (label = "count" <=> pc[g] = "count")
  BY <1>5
<1>6. /\ Stays(g)' /\ Holds(g)' /\ Sees(g)' /\ pc'[g] = label /\ held'[g] \subseteq held[g]
      /\ label = "reply" => held'[g] = {}
  BY <1>1, <1>4, <1>l, GoesOn
<1> USE DEF HandlerInv
<1>7. Counts(g)' /\ answer[g] \subseteq answer'[g]
  BY <1>1, <1>3, <1>4, ReadCounts DEF Types
<1>8. Phase(g)'
  <2>1. ChannelOf(g)' = ChannelOf(g) /\ status'[g] = 0 /\ req'[g] = req[g]
    BY <1>1, <1>4 DEF ChannelOf
  <2>2. pc[g] # "count" => \A q \in held'[g] : IdOf[q] = ChannelOf(g)
    BY <1>1, <1>6 DEF Phase
  <2> QED
    BY <1>1, <1>l, <1>6, <2>1, <2>2 DEF Phase, Active
<1>9. Lists(g)'
  BY <1>1, <1>4, <1>l, <1>6, <1>7 DEF Lists
<1>10. Posted(g)' /\ Effects(g)' /\ Reads(g)'
  BY <1>1, <1>4, <1>6 DEF Posted, Effects, Reads
<1> QED
  BY <1>6, <1>7, <1>8, <1>9, <1>10

\* A listing has every channel of the map its filter admits.
LEMMA GetChannelsInv ==
    ASSUME Types, NEW g \in Handlers, HandlerInv(g), GetChannels(g)
    PROVE  HandlerInv(g)'
<1> USE DEF registry, history, Goto
<1> DEFINE listed == {o \in Mapped : Admits(Filter(req[g]), IdOf[o])}
           reads == {[attr |-> "listed", channel |-> IdOf[o], value |-> 1] : o \in listed}
           counts == Asks(req[g], "user_count") /\ listed # {}
<1>1. /\ pc[g] = "list" /\ req[g].kind = "channels" /\ status[g] = 0 /\ req[g] \in Requests
      /\ Active(g)
  BY DEF GetChannels, HandlerInv, Phase, Active
<1>2. /\ answer'[g] = reads
      /\ held'[g] = IF counts THEN listed ELSE {}
      /\ pc'[g] = IF counts THEN "count" ELSE "reply"
  BY DEF GetChannels, Types, HandlerTypes
<1>3. UNCHANGED <<channels, subs, named, req, names, pointers, status, ids, made, delivered, stayed, seen>>
  BY DEF GetChannels
<1>4. \A o \in listed : channels[IdOf[o]] = o
  BY MappedId DEF Types
<1>5. \A p \in stayed[g] : channels[p[1]] \in Mapped /\ IdOf[channels[p[1]]] = p[1]
  <2> TAKE p \in stayed[g]
  <2>1. p[1] \in Channels
    BY JoinsPairs DEF Types, HandlerTypes
  <2>2. channels[p[1]] # NoObject
    BY <1>1 DEF HandlerInv, Stays
  <2> QED
    BY <2>1, <2>2 DEF Mapped, Types, RegistryTypes
<1> USE DEF HandlerInv
<1>6. \A p \in stayed'[g] : Filter(req[g]) \in {NoValue, {KindOf[p[1]]}} =>
        \E a \in answer'[g] : a.attr = "listed" /\ a.channel = p[1]
  <2> SUFFICES ASSUME NEW p \in stayed[g], Filter(req[g]) \in {NoValue, {KindOf[p[1]]}}
               PROVE  \E a \in reads : a.attr = "listed" /\ a.channel = p[1]
    BY <1>2, <1>3
  <2>1. PICK o \in listed : IdOf[o] = p[1]
    BY <1>5 DEF Admits, NoValue, Kinds
  <2>2. [attr |-> "listed", channel |-> p[1], value |-> 1] \in reads
    BY <2>1
  <2> HIDE DEF reads
  <2> QED
    BY <2>2
<1>7. Counts(g)'
  <2>1. \A a \in reads : a.attr = "listed"
    OBVIOUS
  <2> QED
    BY <1>2, <2>1 DEF Counts, Justified
<1> HIDE DEF listed, reads
<1>8. Phase(g)'
  BY <1>1, <1>2, <1>3 DEF Phase, Active
<1>9. Stays(g)'
  BY <1>1, <1>3 DEF Stays, Active
<1>10. Holds(g)'
  BY <1>2, <1>3, <1>4 DEF Holds
<1>11. Sees(g)'
  BY <1>1, <1>3 DEF Sees, Active, Id
<1>12. Lists(g)'
  BY <1>3, <1>6 DEF Lists
<1>13. Posted(g)' /\ Effects(g)' /\ Reads(g)'
  BY <1>1, <1>2, <1>3 DEF Posted, Effects, Reads
<1> QED
  BY <1>7, <1>8, <1>9, <1>10, <1>11, <1>12, <1>13

\* A request for one channel goes on when the channel is there and has what it asks for.
LEMMA LookupInv ==
    ASSUME Types, NEW g \in Handlers, HandlerInv(g), Lookup(g)
    PROVE  HandlerInv(g)'
<1> USE DEF registry, history, Goto
<1> DEFINE c == ChannelOf(g)
           refused == \/ channels[c] = NoObject
                      \/ req[g].kind = "channel" /\ Asks(req[g], "user_count") /\ KindOf[c] # "presence-"
<1>1. /\ pc[g] = "lookup" /\ Active(g) /\ req[g].kind \in {"channel", "users"} /\ status[g] = 0
      /\ req[g] \in Requests
  BY DEF Lookup, HandlerInv, Phase, Active
<1>2. c \in Channels
  BY <1>1, RequestShape DEF ChannelOf
<1>3. /\ pc'[g] = IF refused THEN "reply" ELSE IF req[g].kind = "channel" THEN "occupied" ELSE "copy"
      /\ held'[g] = IF refused THEN {} ELSE {channels[c]}
      /\ status'[g] = IF refused THEN 400 ELSE 0
  BY <1>1 DEF Lookup, ChannelOf, Types, HandlerTypes
<1>4. UNCHANGED <<channels, subs, named, req, names, pointers, answer, ids, made, delivered, stayed, seen>>
  BY DEF Lookup
<1>5. ~refused => IdOf[channels[c]] = c /\ channels[c] # NoObject
  BY <1>2 DEF Types, RegistryTypes
<1>6. ChannelOf(g)' = c
  BY <1>4 DEF ChannelOf
<1> HIDE DEF c, refused
<1> USE DEF HandlerInv
<1>7. Phase(g)'
  BY <1>1, <1>3, <1>4, <1>5, <1>6 DEF Phase, Active
<1>8. Stays(g)'
  BY <1>1, <1>4 DEF Stays, Active
<1>9. Holds(g)'
  BY <1>3, <1>4, <1>5 DEF Holds
<1>10. Sees(g)'
  BY <1>1, <1>4 DEF Sees, Active, Id
<1>11. Posted(g)' /\ Effects(g)' /\ Lists(g)'
  BY <1>1, <1>3, <1>4 DEF Posted, Effects, Lists
<1>12. Reads(g)'
  <2>1. pc'[g] = "reply" => status'[g] # 0
    BY <1>3
  <2>2. pc'[g] # "read"
    BY <1>3
  <2> QED
    BY <1>1, <1>4, <1>6, <2>1, <2>2 DEF Reads, c
<1>13. Counts(g)'
  <2>1. \A a : Justified(g, a) => Justified(g, a)'
    BY <1>4 DEF Justified, StayedIn, SeenIn, NamedIn
  <2> QED
    BY <1>1, <1>4, <2>1 DEF Counts
<1> QED
  BY <1>7, <1>8, <1>9, <1>10, <1>11, <1>12, <1>13

\* GET users copies all who are in the object, with the ids they have.
LEMMA CopyInv ==
    ASSUME Types, NEW g \in Handlers, HandlerInv(g), NEW o \in Objects, CopySubscriptions(g, o)
    PROVE  HandlerInv(g)'
<1> USE DEF reply, history
<1> DEFINE P == {<<s, {Id(o, s)}>> : s \in Members(o)}
           label == IF Members(o) = {} THEN "reply" ELSE "read"
<1>0. PICK c : c = ChannelOf(g)
  OBVIOUS
<1>1. /\ pc[g] = "copy" /\ Active(g) /\ req[g].kind = "users" /\ status[g] = 0
      /\ req[g] \in Requests /\ o \in held[g] /\ IdOf[o] = c
  BY <1>0 DEF CopySubscriptions, HandlerInv, Phase, Active
<1>2. Concerns(req[g], c)
  BY <1>0, <1>1, RequestShape DEF Concerns, About, ChannelOf
<1>3. /\ StayedIn(g, c) \subseteq Members(o)
      /\ \A s \in Members(o) : <<c, s, Id(o, s)>> \in SeenIn(g, c)
      /\ \A s \in NamedIn(g, c) : Id(o, s) = UserOf[s]
  BY <1>1, <1>2, Present
<1>4. /\ Proceed(g, label, held[g]) /\ pointers'[g] = P
      /\ UNCHANGED <<req, names, reply, history>>
  BY DEF CopySubscriptions, Types, HandlerTypes
<1>5. /\ label \in {"reply", "read"} /\ (label = "reply" => Members(o) = {})
  OBVIOUS
<1>6. /\ \A p \in P : \A id \in p[2] : <<c, p[1], id>> \in seen[g]
      /\ \A s \in NamedIn(g, c) : <<s, {UserOf[s]}>> \in P
  <2>1. \A s \in NamedIn(g, c) : s \in Members(o)
    BY <1>3 DEF NamedIn
  <2> QED
    BY <1>3, <2>1 DEF SeenIn
<1> HIDE DEF P, label
<1>7. /\ Stays(g)' /\ Holds(g)' /\ Sees(g)' /\ pc'[g] = label /\ held'[g] \subseteq held[g]
      /\ label = "reply" => held'[g] = {}
  <2> DEFINE objects == held[g]
  <2>1. Proceed(g, label, objects) /\ objects \in SUBSET held[g]
    BY <1>4
  <2> HIDE DEF objects
  <2> QED
    BY <1>1, <1>4, <2>1, GoesOn
<1>8. ChannelOf(g)' = c /\ NamedIn(g, c)' = NamedIn(g, c)
  BY <1>0, <1>4 DEF ChannelOf, NamedIn, StayedIn
<1> USE DEF HandlerInv
<1>9. Phase(g)'
  <2>1. \A q \in held'[g] : IdOf[q] = c
    BY <1>0, <1>1, <1>7 DEF Phase
  <2> QED
    BY <1>1, <1>4, <1>5, <1>7, <1>8, <2>1 DEF Phase, Active
<1>10. Reads(g)'
  <2>1. \A i \in ids[g] : <<c, i[1], i[2]>> \in seen[g]
    BY <1>0, <1>1 DEF Reads
  <2>2. Members(o) = {} => NamedIn(g, c) = {}
    BY <1>3 DEF NamedIn
  <2> QED
    BY <1>4, <1>5, <1>6, <1>7, <1>8, <2>1, <2>2 DEF Reads
<1>11. Posted(g)' /\ Effects(g)' /\ Lists(g)' /\ Counts(g)'
  BY <1>1, <1>4 DEF Posted, Effects, Lists, Counts
<1> QED
  BY <1>7, <1>9, <1>10, <1>11

\* An id it reads without the lock is one the subscription has had, and of who stayed
\* with an id it is that id.
LEMMA ReadIdInv ==
    ASSUME Types, NEW g \in Handlers, HandlerInv(g), NEW p \in Sockets \X SUBSET Ids, ReadId(g, p)
    PROVE  HandlerInv(g)'
<1> USE DEF history
<1>0. PICK c : c = ChannelOf(g)
  OBVIOUS
<1>1. /\ pc[g] = "read" /\ Active(g) /\ req[g].kind = "users" /\ status[g] = 0
      /\ req[g] \in Requests /\ p \in pointers[g]
  BY DEF ReadId, HandlerInv, Phase, Active
<1>2. /\ pointers'[g] = pointers[g] \ {p}
      /\ UNCHANGED <<req, names, answer, made, delivered, stayed, seen>>
  BY DEF ReadId, Types, HandlerTypes
<1>3. PICK label \in {"reply", "read"}, objects \in SUBSET held[g] : Proceed(g, label, objects)
  BY DEF ReadId
<1>4. /\ Stays(g)' /\ Holds(g)' /\ Sees(g)' /\ pc'[g] = label /\ held'[g] \subseteq held[g]
      /\ label = "reply" => held'[g] = {}
  BY <1>1, <1>2, <1>3, GoesOn
<1>5. /\ \A i \in ids[g] : <<c, i[1], i[2]>> \in seen[g]
      /\ \A q \in pointers[g] : \A id \in q[2] : <<c, q[1], id>> \in seen[g]
      /\ \A s \in NamedIn(g, c) : <<s, UserOf[s]>> \in ids[g] \/ <<s, {UserOf[s]}>> \in pointers[g]
  BY <1>0, <1>1 DEF HandlerInv, Reads
<1>6. ChannelOf(g)' = c /\ NamedIn(g, c)' = NamedIn(g, c)
  BY <1>0, <1>2 DEF ChannelOf, NamedIn, StayedIn
<1>7. \/ \E id \in p[2] : /\ ids'[g] = ids[g] \cup {<<p[1], id>>} /\ status'[g] = 0
                          /\ pc'[g] = IF pointers[g] = {p} THEN "reply" ELSE "read"
      \/ status'[g] = 500 /\ ids'[g] = ids[g] /\ pc'[g] = "reply"
  <2>1. pc \in [Handlers -> PCs]
    BY DEF Types, HandlerTypes
  <2>2. \A l, S : Proceed(g, l, S) => pc'[g] = l
    BY <2>1 DEF Proceed, Goto
  <2>3. CASE \E id \in p[2] :
               /\ ids' = [ids EXCEPT ![g] = @ \cup {<<p[1], id>>}]
               /\ Proceed(g, IF pointers[g] = {p} THEN "reply" ELSE "read", held[g])
               /\ UNCHANGED status
    <3>1. PICK id \in p[2] : ids' = [ids EXCEPT ![g] = @ \cup {<<p[1], id>>}]
      BY <2>3
    <3>2. ids'[g] = ids[g] \cup {<<p[1], id>>}
      BY <3>1 DEF Types, HandlerTypes
    <3>3. status'[g] = 0 /\ pc'[g] = IF pointers[g] = {p} THEN "reply" ELSE "read"
      BY <1>1, <2>2, <2>3
    <3> QED
      BY <3>2, <3>3
  <2>4. CASE status' = [status EXCEPT ![g] = 500] /\ Proceed(g, "reply", {}) /\ UNCHANGED ids
    BY <2>2, <2>4 DEF Types, HandlerTypes
  <2> QED
    BY <2>3, <2>4 DEF ReadId
<1>8. Reads(g)'
  <2>1. CASE status'[g] = 500 /\ ids'[g] = ids[g] /\ pc'[g] = "reply"
    BY <1>2, <1>5, <1>6, <2>1 DEF Reads
  <2>2. CASE \E id \in p[2] :
               /\ ids'[g] = ids[g] \cup {<<p[1], id>>} /\ status'[g] = 0
               /\ pc'[g] = IF pointers[g] = {p} THEN "reply" ELSE "read"
    <3>1. PICK id \in p[2] : ids'[g] = ids[g] \cup {<<p[1], id>>}
      BY <2>2
    <3>2. \A i \in ids'[g] : <<c, i[1], i[2]>> \in seen[g]
      BY <1>1, <1>5, <3>1
    <3>3. ASSUME NEW s \in NamedIn(g, c), <<s, UserOf[s]>> \notin ids'[g]
          PROVE  <<s, {UserOf[s]}>> \in pointers'[g]
      <4>1. <<s, {UserOf[s]}>> \in pointers[g]
        BY <1>5, <3>1, <3>3
      <4>2. p # <<s, {UserOf[s]}>>
        <5>1. p = <<s, {UserOf[s]}>> => p[1] = s /\ id = UserOf[s]
          OBVIOUS
        <5> QED
          BY <3>1, <3>3, <5>1
      <4> QED
        BY <1>2, <4>1, <4>2
    <3>4. pc'[g] = "reply" => pointers'[g] = {}
      BY <1>2, <2>2
    <3> QED
      BY <1>2, <1>5, <1>6, <3>2, <3>3, <3>4 DEF Reads
  <2> QED
    BY <1>7, <2>1, <2>2
<1> USE DEF HandlerInv
<1>9. Phase(g)'
  <2>1. \A q \in held'[g] : IdOf[q] = c
    BY <1>0, <1>1, <1>4 DEF Phase
  <2>2. pc'[g] = "read" => status'[g] = 0
    BY <1>7
  <2> QED
    BY <1>1, <1>2, <1>3, <1>4, <1>6, <2>1, <2>2 DEF Phase, Active
<1>10. Effects(g)'
  <2>1. made[g] = {} /\ delivered[g] = {}
    BY <1>1 DEF Effects
  <2> QED
    BY <1>2, <2>1 DEF Effects
<1>11. Posted(g)' /\ Lists(g)' /\ Counts(g)'
  BY <1>1, <1>2 DEF Posted, Lists, Counts
<1> QED
  BY <1>4, <1>8, <1>9, <1>10, <1>11

-------------------------------------------------------------------------------
(* All steps together, and the theorems.                                    *)

\* Every step keeps the types.
LEMMA StepTypes ==
    ASSUME Inv, Next
    PROVE  Types'
<1>0. Types /\ \A g \in Handlers : Phase(g)
  BY DEF Inv, HandlerInv
<1>1. CASE Sessions \/ RedisAnswers
  BY <1>0, <1>1, SessionAddsTypes, RemoveChannelTypes, EnterTypes, IdentifyTypes, LeaveTypes,
     RedisAnswersTypes DEF Sessions
<1>2. ASSUME NEW g \in Handlers, HandlerStep(g) PROVE Types'
  <2>1. CASE \E q \in Requests : Arrive(g, q)
    BY <1>0, <2>1, ArriveTypes
  <2>2. CASE Reply(g) \/ Publishing(g)
    BY <1>0, <2>2, ReplyTypes, PublishTypes DEF Publishing
  <2>3. CASE Locking(g)
    BY <1>0, <2>3, FindChannelTypes, AddChannelTypes, GetChannelsTypes, LookupTypes DEF Locking
  <2>4. CASE Reading(g)
    BY <1>0, <2>4, ReadNumberTypes, CopyTypes, ReadIdTypes DEF Reading, ReadsNumber
  <2> QED
    BY <1>2, <2>1, <2>2, <2>3, <2>4 DEF HandlerStep
<1> QED
  BY <1>1, <1>2 DEF Next, HandlerStep

\* Every step keeps the invariant.
LEMMA InvNext == Inv /\ [Next]_vars => Inv'
<1> SUFFICES ASSUME Inv, [Next]_vars PROVE Inv'
  OBVIOUS
<1>0. Types /\ RegistryTypes /\ HandlerTypes /\ \A g \in Handlers : HandlerInv(g)
  BY DEF Inv, Types
<1>1. CASE UNCHANGED vars
  <2> USE DEF vars, registry, handling, reply, history
  <2>1. RegistryTypes'
    BY <1>0, <1>1, ReachRegistry
  <2>2. LockHeld'
    BY <1>0, <1>1 DEF Types, LockHeld, Mapped
  <2>3. HandlerTypes'
    BY <1>0, <1>1 DEF HandlerTypes
  <2>4. ASSUME NEW g \in Handlers PROVE HandlerInv(g)'
    <3>1. Bystander(g) /\ pointers'[g] = pointers[g] /\ Shrinks /\ KeepsMap(g)
      BY <1>1 DEF Bystander, Shrinks, KeepsMap
    <3> QED
      BY <1>0, <2>3, <3>1, AroundInv
  <2> QED
    BY <2>1, <2>2, <2>3, <2>4 DEF Inv, Types
<1>2. CASE Next
  <2>1. Types' /\ HandlerTypes'
    BY <1>2, StepTypes DEF Types
  <2>2. ASSUME NEW g \in Handlers PROVE HandlerInv(g)'
    <3>1. CASE Sessions
      BY <1>0, <2>1, <3>1, SessionsInv
    <3>2. CASE RedisAnswers
      BY <1>0, <2>1, <3>2, RedisAnswersInv
    <3>3. ASSUME NEW h \in Handlers, HandlerStep(h), h # g PROVE HandlerInv(g)'
      BY <1>0, <2>1, <3>3, Untouched, AroundInv
    <3>4. CASE HandlerStep(g)
      <4>1. CASE \E q \in Requests : Arrive(g, q)
        BY <1>0, <4>1, ArriveInv
      <4>2. CASE Reply(g) \/ Publishing(g)
        BY <1>0, <4>2, ReplyInv, PublishInv DEF Publishing
      <4>3. CASE Locking(g)
        BY <1>0, <4>3, FindChannelInv, AddChannelInv, GetChannelsInv, LookupInv DEF Locking
      <4>4. CASE Reading(g)
        BY <1>0, <4>4, ReadNumberInv, CopyInv, ReadIdInv DEF Reading, ReadsNumber
      <4> QED
        BY <3>4, <4>1, <4>2, <4>3, <4>4 DEF HandlerStep
    <3> QED
      BY <1>2, <3>1, <3>2, <3>3, <3>4 DEF Next, HandlerStep
  <2> QED
    BY <2>1, <2>2 DEF Inv
<1> QED
  BY <1>1, <1>2

\* The invariant holds, whatever sessions, Redis and other requests do between the
\* sections of a handler.
THEOREM Invariance == Spec => []Inv
BY InvInit, InvNext, PTL DEF Spec

\* Every variable has its type: the map has each id's own objects, whoever is subscribed
\* is so to an object that the map or a handler still refers to, and one goroutine at a
\* time is in AddChannel (app.go:255-283).
THEOREM ApiTypeCorrect == Spec => []TypeOK
<1>1. Inv => TypeOK
  BY DEF Inv, Types, RegistryTypes, LockHeld, HandlerTypes, HandlerInv, Phase, TypeOK
<1> QED
  BY <1>1, Invariance, PTL

\* The numbers a request answers with lie between those who stayed in the map's object
\* and those who were in any object of the id (GetTotalUsers and the other reads of
\* handlers.go, each under its own lock), whoever subscribes again meanwhile.
THEOREM NumbersBounded == Spec => []CountsJustified
<1>1. Inv => CountsJustified
  BY DEF Inv, HandlerInv, Counts, Justified, CountsJustified, Answered
<1> QED
  BY <1>1, Invariance, PTL

\* A listing leaves out no channel that stays in the map and that somebody stays in.
THEOREM OccupiedListed == Spec => []ChannelsListed
<1>1. Inv => ChannelsListed
  BY DEF Inv, HandlerInv, Lists, ChannelsListed, Answered
<1> QED
  BY <1>1, Invariance, PTL

\* GET users names all who stayed with an id in a channel that stayed in the map, and
\* nobody who was not there, although it reads ids without a lock.
THEOREM StayingUsersListed == Spec => []UsersListed
<1>1. Inv => UsersListed
  BY DEF Inv, HandlerInv, Reads, ChannelOf, UsersListed, Answered
<1> QED
  BY <1>1, Invariance, PTL

\* A POST answered with 200 has reached all who stayed in any of its channels that stayed
\* in the map, whoever adds, replaces or removes channels meanwhile.
THEOREM PostsDelivered == Spec => []PostReachesAll
<1>1. Inv => PostReachesAll
  <2> SUFFICES ASSUME Inv, NEW g \in Handlers, Answered(g, {"events"}), NEW p \in stayed[g],
                      p[1] \in ToSet(req[g].channels)
               PROVE  p \in delivered[g] <=> p[2] # req[g].ignore
    BY DEF PostReachesAll
  <2>1. pc[g] = "reply" /\ status[g] = 0 /\ req[g].kind = "events"
    BY DEF Answered
  <2>2. Posted(g) /\ Phase(g)
    BY DEF Inv, HandlerInv
  <2>3. names[g] = <<>> /\ ToSet(<<>>) = {}
    BY <2>1, <2>2 DEF Phase, ToSet
  <2> QED
    BY <2>1, <2>2, <2>3 DEF Posted
<1> QED
  BY <1>1, Invariance, PTL

\* A request that is refused or fails has sent nothing, and created nothing unless it was
\* Publish that failed (handlers.go:191-196).
THEOREM RefusalsHarmless == Spec => []RefusedHasNoEffect
<1>1. Inv => RefusedHasNoEffect
  <2> SUFFICES ASSUME Inv, NEW g \in Handlers, status[g] >= 400
               PROVE  delivered[g] = {} /\ (made[g] # {} => req[g].body = "overflow")
    BY DEF RefusedHasNoEffect
  <2>1. status[g] # 0 /\ Effects(g)
    BY DEF Inv, HandlerInv
  <2> QED
    BY <2>1 DEF Effects
<1> QED
  BY <1>1, Invariance, PTL

-------------------------------------------------------------------------------
(* The signature of a request and what Authentication makes of it.          *)

\* A handler that answers 401 serves a request whose signature did not match.
Unauthorized(g) == pc[g] # "idle" /\ status[g] = 401 => ~Authentic(req[g])

\* Only Authentication answers 401, and nothing else changes the request.
LEMMA UnauthorizedStep ==
    ASSUME Types, Next, NEW g \in Handlers, Unauthorized(g)
    PROVE  Unauthorized(g)'
<1> USE DEF registry, handling, reply, history
<1>t. /\ pc \in [Handlers -> PCs] /\ req \in [Handlers -> Requests \cup {NoRequest}]
      /\ status \in [Handlers -> {0, 400, 401, 403, 413, 500}]
  BY DEF Types, HandlerTypes
<1>1. ASSUME pc[g] # "idle" \/ pc'[g] = "idle", req'[g] = req[g],
             status'[g] \in {status[g], 400, 500}
      PROVE  Unauthorized(g)'
  <2>1. Authentic(req[g])' <=> Authentic(req[g])
    BY <1>1 DEF Authentic
  <2> QED
    BY <1>1, <2>1 DEF Unauthorized
<1>2. CASE Sessions
  <2>1. UNCHANGED <<pc, req, status>>
    BY <1>2 DEF Sessions, SessionAdds, RemoveChannel, Enter, Identify, Leave
  <2> QED
    BY <1>1, <2>1
<1>3. CASE RedisAnswers
  <2>1. UNCHANGED <<req, status>> /\ pc'[g] = IF pc[g] = "adding" THEN "publish" ELSE pc[g]
    BY <1>3 DEF RedisAnswers
  <2>2. pc[g] # "idle" \/ pc'[g] = "idle"
    BY <2>1
  <2> QED
    BY <1>1, <2>1, <2>2
<1>4. ASSUME NEW h \in Handlers, HandlerStep(h), h # g PROVE Unauthorized(g)'
  <2>1. Bystander(g)
    BY <1>4, Untouched
  <2> QED
    BY <1>1, <2>1 DEF Bystander
<1>5. ASSUME NEW q \in Requests, Arrive(g, q) PROVE Unauthorized(g)'
  <2>1. req'[g] = q /\ status'[g] = Refusal(q)
    BY <1>5, <1>t DEF Arrive, Begin
  <2>2. Refusal(q) = 401 => ~Authentic(q)
    BY DEF Refusal
  <2> QED
    BY <2>1, <2>2 DEF Unauthorized, Authentic
<1>6. CASE Reply(g)
  <2>1. pc'[g] = "idle"
    BY <1>6, <1>t DEF Reply, Goto
  <2> QED
    BY <2>1 DEF Unauthorized
<1>7. CASE Locking(g)
  <2>1. UNCHANGED req /\ pc[g] # "idle"
    BY <1>7 DEF Locking, FindChannel, AddChannel, GetChannels, Lookup
  <2>2. status'[g] \in {status[g], 400}
    <3>1. CASE Lookup(g)
      BY <1>t, <3>1 DEF Lookup
    <3>2. CASE FindChannel(g) \/ GetChannels(g) \/ \E o \in Objects : AddChannel(g, o)
      BY <3>2 DEF FindChannel, GetChannels, AddChannel
    <3> QED
      BY <1>7, <3>1, <3>2 DEF Locking
  <2> QED
    BY <1>1, <2>1, <2>2
<1>8. CASE Reading(g) \/ Publishing(g)
  <2>1. ASSUME NEW o \in Objects, ReadsNumber(g, o)
        PROVE  UNCHANGED <<req, status>> /\ pc[g] # "idle"
    BY <2>1 DEF ReadsNumber, CountUsers, ReadOccupied, ReadUsers, ReadSubscriptions
  <2>2. ASSUME NEW o \in Objects, CopySubscriptions(g, o)
        PROVE  UNCHANGED <<req, status>> /\ pc[g] # "idle"
    BY <2>2 DEF CopySubscriptions
  <2>3. ASSUME NEW p \in Sockets \X SUBSET Ids, ReadId(g, p)
        PROVE  UNCHANGED req /\ pc[g] # "idle" /\ status'[g] \in {status[g], 500}
    BY <2>3, <1>t DEF ReadId
  <2>4. ASSUME NEW o \in Objects, Publish(g, o)
        PROVE  UNCHANGED req /\ pc[g] # "idle" /\ status'[g] \in {status[g], 500}
    BY <2>4, <1>t DEF Publish
  <2>5. UNCHANGED req /\ pc[g] # "idle" /\ status'[g] \in {status[g], 500}
    BY <1>8, <2>1, <2>2, <2>3, <2>4 DEF Reading, Publishing, ReadsNumber
  <2> QED
    BY <1>1, <2>5
<1> QED
  BY <1>2, <1>3, <1>4, <1>5, <1>6, <1>7, <1>8 DEF Next, HandlerStep

\* Who signs as documented, the keys of the query in lower case and with one value, is
\* let in: sorting the lowercased keys (prepareQueryString) gives what sorting the
\* parameters gives, and only Authentication answers 401.
THEOREM SignedAuthorized == Spec => []SignedIsAuthorized
<1> DEFINE Refused == \A g \in Handlers : Unauthorized(g)
<1>1. Init => Refused
  BY DEF Init, Unauthorized
<1>2. Inv /\ Refused /\ [Next]_vars => Refused'
  <2> SUFFICES ASSUME Inv, Refused, [Next]_vars, NEW g \in Handlers PROVE Unauthorized(g)'
    OBVIOUS
  <2>1. CASE Next
    BY <2>1, UnauthorizedStep DEF Inv
  <2>2. CASE UNCHANGED vars
    <3>1. UNCHANGED <<pc, req, status>>
      BY <2>2 DEF vars, handling, reply
    <3> QED
      BY <3>1 DEF Unauthorized, Authentic
  <2> QED
    BY <2>1, <2>2
<1>3. Inv /\ Refused => SignedIsAuthorized
  <2> SUFFICES ASSUME Inv, Refused, NEW g \in Handlers, pc[g] # "idle", req[g].signed,
                      Canonical(req[g].query), status[g] = 401
               PROVE  FALSE
    BY DEF SignedIsAuthorized
  <2>1. req[g] \in Requests
    BY DEF Inv, HandlerInv, Phase
  <2>2. DOMAIN req[g].query \subseteq Keys /\ IsFiniteSet(DOMAIN req[g].query)
    BY <2>1, ApiAssumption
  <2>3. Documented(req[g].query) = prepareQueryString(req[g].query)
    BY <2>2, CanonicalAgrees
  <2> QED
    BY <2>3 DEF Unauthorized, Authentic
<1> HIDE DEF Refused
<1> QED
  BY <1>1, <1>2, <1>3, Invariance, PTL DEF Spec
===============================================================================
