---------------------------- MODULE UdpRelayProofs ----------------------------
(***************************************************************************)
(* The UDP relay for every set of clients, targets, places and queries and *)
(* every size of its cache.  The parts of Inv lean on one another: a remote*)
(* has one key because it is made under the key its fields give; the       *)
(* pointer of a query that is not in lost is to a live remote of its own   *)
(* client, because whoever frees a place puts the queries that point to it *)
(* in lost, and only a place that is not live is given out.                *)
(***************************************************************************)
EXTENDS UdpRelay, CacheProofs

\* A remote made for a name has a name as its header; one made for an address
\* keeps that address, which no answer of the resolver overwrites, and each
\* sends for its own client: unless a query that lost its remote has used it.
KindOK(x) ==
    /\ IF x.af = "unspec" THEN x.hdr \in Names
                          ELSE x.hdr \in Addrs /\ (~x.strayed => x.dst = x.hdr)
    /\ ~x.strayed => \A p \in x.peers : p.client = x.client
Kinds == \A r \in Remotes : Live(r) => KindOK(rem[r])

\* what a query's pointer leads to, unless its remote was freed
Pointers ==
    \A q \in Queries \ lost : queries[q] # NoQuery /\ queries[q].ptr # "NULL" =>
        LET r == queries[q].ptr
        IN  Live(r) /\ rem[r].client = queries[q].client /\ rem[r].af = "unspec"

\* those that lost their remote are outstanding and point somewhere
Losses == lost \in SUBSET {q \in Queries : queries[q] # NoQuery /\ queries[q].ptr # "NULL"}

KeySpace == (Families \cup {"unspec"}) \X Clients

CacheOK ==
    /\ Sound(conns)
    /\ CacheKeys(conns) \subseteq KeySpace
    /\ Cardinality(CacheKeys(conns)) < Capacity
    /\ \A k \in CacheKeys(conns) : conns.item[k].data \in Remotes

Shapes == rem \in [Remotes -> RemoteRecords] /\ queries \in [Queries -> QueryRecords]

Core == CacheOK /\ Shapes /\ CacheOwnsRemotes /\ Kinds /\ Pointers /\ Losses

\* a reply goes to the client that sent to its source
Answered ==
    out # Nothing /\ out.kind = "reply" /\ Live(out.remote) /\ ~rem[out.remote].strayed =>
        Peer(out.client, out.addr) \in rem[out.remote].peers
Sent == out \in Outs /\ Answered /\ AddressesKept
Inv  == Core /\ Sent /\ phase \in {"running", "undefined", "stopped"}

LiveRecords ==
    [state : {"live"}, client : Clients, af : Families \cup {"unspec"},
     fam : Families, hdr : Headers, dst : Addrs, timer : {"armed", "off"},
     peers : SUBSET Peers, strayed : BOOLEAN]

SentQueries ==
    [state : {"sent"}, client : Clients, hdr : Names, ptr : Remotes \cup {"NULL"}]

\* the entries are the same, in whatever order and of whatever age
SameEntries ==
    /\ Sound(conns')
    /\ CacheKeys(conns') = CacheKeys(conns)
    /\ \A k \in CacheKeys(conns) : conns'.item[k].data = conns.item[k].data

\* While nothing is freed: a query stays, ends, or is new and points to nothing
\* or a remote of its own.
QueriesMove ==
    /\ queries' \in [Queries -> QueryRecords]
    /\ lost' \in SUBSET {q \in lost : queries'[q] = queries[q]}
    /\ \A q \in Queries \ lost' :
          \/ queries'[q] = queries[q] /\ q \notin lost
          \/ queries'[q] = NoQuery
          \/ queries'[q].ptr = "NULL"
          \/ /\ queries'[q].ptr \in Remotes
             /\ Live(queries'[q].ptr)
             /\ rem[queries'[q].ptr].client = queries'[q].client
             /\ rem[queries'[q].ptr].af = "unspec"

-----------------------------------------------------------------------------
(* Facts about a state. *)

LEMMA LiveRecord ==
  ASSUME Shapes, NEW r \in Remotes
  PROVE  /\ rem[r] \in RemoteRecords
         /\ Live(r) <=> rem[r] \in LiveRecords
         /\ ~Live(r) <=> rem[r] = NoRemote
<1>1. rem[r] = NoRemote \/ rem[r] \in LiveRecords
  BY DEF Shapes, RemoteRecords, LiveRecords
<1>2. NoRemote.state = "free"
  BY DEF NoRemote
<1>3. \A x \in LiveRecords : x.state = "live"
  BY DEF LiveRecords
<1>4. QED
  BY <1>1, <1>2, <1>3 DEF Live, Shapes

LEMMA SentQuery ==
  ASSUME Shapes, NEW q \in Queries, queries[q] # NoQuery
  PROVE  queries[q] \in SentQueries
BY DEF Shapes, QueryRecords, SentQueries

LEMMA HeaderFamilyType ==
  ASSUME NEW h \in Headers
  PROVE  /\ HeaderFamily(h) \in Families \cup {"unspec"}
         /\ HeaderFamily(h) = "unspec" <=> h \in Names
         /\ h \in Addrs <=> h \notin Names
BY UdpAssumption DEF HeaderFamily, Headers, Families

\* The remote under a key is the key's own.
LEMMA FoundRemote ==
  ASSUME Core, NEW k \in CacheKeys(conns)
  PROVE  LET r == conns.item[k].data
         IN  /\ r \in Remotes /\ Live(r) /\ rem[r].timer = "armed"
             /\ k = <<rem[r].af, rem[r].client>>
BY DEF Core, CacheOK, CacheOwnsRemotes

LEMMA FoundOrMissed ==
  ASSUME Core, NEW af, NEW c
  PROVE  /\ Found(Key(af, c), c) = {} => Key(af, c) \notin CacheKeys(conns)
         /\ \A r \in Found(Key(af, c), c) :
               /\ r \in Remotes /\ Live(r) /\ rem[r].af = af /\ rem[r].client = c
               /\ rem[r].timer = "armed"
               /\ Key(af, c) \in CacheKeys(conns) /\ conns.item[Key(af, c)].data = r
<1>1. ASSUME Key(af, c) \in CacheKeys(conns)
      PROVE  LET r == conns.item[Key(af, c)].data
             IN  /\ r \in Remotes /\ Live(r) /\ rem[r].af = af /\ rem[r].client = c
                 /\ rem[r].timer = "armed"
  BY <1>1, FoundRemote DEF Key
<1>2. QED
  BY <1>1 DEF Found

LEMMA TouchedSame ==
  ASSUME Core, NEW k, conns' = Touched(conns, k)
  PROVE  SameEntries
<1>1. Sound(conns) /\ IsCache(conns)
  BY DEF Core, CacheOK, Sound
<1>2. Sound(conns') /\ CacheKeys(conns') = CacheKeys(conns)
  BY <1>1, TouchedSound DEF Sound
<1>3. ASSUME NEW j \in CacheKeys(conns) PROVE conns'.item[j].data = conns.item[j].data
  <2> DEFINE T == Touched(conns, k)
  <2>1. /\ k \in CacheKeys(conns) => T.item[k] = [age |-> 0, data |-> conns.item[k].data]
        /\ \A i \in CacheKeys(conns) \ {k} : T.item[i] = conns.item[i]
    BY <1>1, TouchedSound
  <2>2. T.item[j].data = conns.item[j].data
    <3> HIDE DEF T
    <3>1. CASE j = k
      BY <2>1, <3>1
    <3>2. CASE j # k
      BY <2>1, <3>2
    <3>3. QED
      BY <3>1, <3>2
  <2>3. QED
    BY <2>2
<1>4. QED
  BY <1>2, <1>3 DEF SameEntries

LEMMA UntouchedSame == Core /\ conns' = conns => SameEntries
BY DEF Core, CacheOK, SameEntries

-----------------------------------------------------------------------------
(* Steps that leave the entries alone. *)

\* queries that move keep pointing to remotes of their own clients, if the
\* remotes keep whose they are
LEMMA PointersMove ==
  ASSUME Core, QueriesMove,
         \A r \in Remotes : Live(r) =>
            rem'[r].state = "live" /\ rem'[r].client = rem[r].client /\ rem'[r].af = rem[r].af
  PROVE  Pointers' /\ Losses'
<1>1. ASSUME NEW q \in Queries \ lost', queries'[q] # NoQuery, queries'[q].ptr # "NULL"
      PROVE  LET r == queries'[q].ptr
             IN  /\ rem'[r].state = "live"
                 /\ rem'[r].client = queries'[q].client
                 /\ rem'[r].af = "unspec"
  <2>1. queries'[q] \in SentQueries
    BY <1>1 DEF QueriesMove, QueryRecords, SentQueries
  <2>2. queries'[q].ptr \in Remotes
    BY <1>1, <2>1 DEF SentQueries
  <2>3. /\ Live(queries'[q].ptr) /\ rem[queries'[q].ptr].client = queries'[q].client
        /\ rem[queries'[q].ptr].af = "unspec"
    <3>1. CASE queries'[q] = queries[q] /\ q \notin lost
      BY <1>1, <3>1 DEF Core, Pointers
    <3>2. CASE ~(queries'[q] = queries[q] /\ q \notin lost)
      BY <1>1, <3>2 DEF QueriesMove
    <3>3. QED
      BY <3>1, <3>2
  <2>4. QED
    BY <2>2, <2>3
<1>2. Pointers'
  BY <1>1 DEF Pointers, Live
<1>3. Losses'
  BY DEF QueriesMove, Core, Losses
<1>4. QED
  BY <1>2, <1>3

\* The remotes under S are freed: the queries that point to them are in lost,
\* and the others keep their remotes.
LEMMA PointersFreed ==
  ASSUME Core, NEW S, lost' = lost \cup Orphans(S),
         \A q \in Queries : \/ queries'[q] = queries[q]
                            \/ queries'[q] = NoQuery /\ queries[q].ptr = "NULL",
         \A k \in CacheKeys(conns) \ S :
            rem'[conns.item[k].data] = rem[conns.item[k].data]
  PROVE  Pointers' /\ Losses'
<1>1. ASSUME NEW q \in Queries \ lost', queries'[q] # NoQuery, queries'[q].ptr # "NULL"
      PROVE  LET r == queries'[q].ptr
             IN  /\ rem'[r].state = "live"
                 /\ rem'[r].client = queries'[q].client
                 /\ rem'[r].af = "unspec"
  <2>1. /\ queries'[q] = queries[q] /\ q \notin lost /\ q \notin Orphans(S)
        /\ queries[q] # NoQuery /\ queries[q].ptr # "NULL"
    BY <1>1
  <2> DEFINE r == queries[q].ptr
  <2>2. /\ r \in Remotes /\ Live(r) /\ rem[r].client = queries[q].client
        /\ rem[r].af = "unspec"
    BY <2>1, SentQuery DEF SentQueries, Core, Pointers
  <2>3. PICK k \in CacheKeys(conns) : conns.item[k].data = r
    BY <2>2 DEF Core, CacheOwnsRemotes
  <2>4. k \notin S
    BY <2>1, <2>3 DEF Orphans
  <2>5. rem'[r] = rem[r]
    BY <2>3, <2>4
  <2> HIDE DEF r
  <2>6. rem'[r].state = "live" /\ rem'[r].client = queries[q].client /\ rem'[r].af = "unspec"
    BY <2>2, <2>5 DEF Live
  <2>7. QED
    BY <2>1, <2>6 DEF r
<1>2. Pointers'
  BY <1>1 DEF Pointers, Live
<1>3. ASSUME NEW q \in lost'
      PROVE  q \in Queries /\ queries'[q] # NoQuery /\ queries'[q].ptr # "NULL"
  <2>1. CASE q \in lost
    BY <2>1 DEF Core, Losses
  <2>2. CASE q \in Orphans(S)
    <3>1. PICK k \in CacheKeys(conns) : conns.item[k].data = queries[q].ptr
      BY <2>2 DEF Orphans
    <3>2. queries[q].ptr \in Remotes
      BY <3>1, FoundRemote
    <3>3. QED
      BY <2>2, <3>2, UdpAssumption DEF Orphans
  <2>3. QED
    BY <1>3, <2>1, <2>2
<1>4. QED
  BY <1>2, <1>3 DEF Losses

\* one remote is changed and stays whose it was, with its timer running
LEMMA OneRemote ==
  ASSUME Core, SameEntries, QueriesMove, NEW r \in Remotes, Live(r),
         NEW x \in LiveRecords, rem' = [rem EXCEPT ![r] = x],
         x.client = rem[r].client, x.af = rem[r].af, x.timer = "armed", KindOK(x)
  PROVE  Core'
<1>1. /\ rem' \in [Remotes -> RemoteRecords]
      /\ rem'[r] = x
      /\ \A s \in Remotes \ {r} : rem'[s] = rem[s]
  BY DEF Core, Shapes, RemoteRecords, LiveRecords
<1>2. x.state = "live" /\ rem'[r].state = "live"
  BY <1>1 DEF LiveRecords, Live
<1>3. \A s \in Remotes : /\ rem'[s].state = "live" <=> Live(s)
                         /\ rem'[s].state = "live" => /\ rem'[s].client = rem[s].client
                                        /\ rem'[s].af = rem[s].af
                                        /\ rem'[s].timer = "armed"
                                        /\ KindOK(rem'[s])
  BY <1>1, <1>2 DEF Live, Core, CacheOwnsRemotes, Kinds
<1>4. CacheOK'
  BY DEF SameEntries, Core, CacheOK
<1>5. CacheOwnsRemotes'
  <2>1. ASSUME NEW s \in Remotes, rem'[s].state = "live"
        PROVE  rem'[s].timer = "armed" /\ \E k \in CacheKeys(conns') : conns'.item[k].data = s
    BY <1>3, <2>1 DEF SameEntries, Core, CacheOwnsRemotes
  <2>2. ASSUME NEW k \in CacheKeys(conns')
        PROVE  LET s == conns'.item[k].data
               IN  rem'[s].state = "live" /\ k = <<rem'[s].af, rem'[s].client>>
    <3>1. k \in CacheKeys(conns) /\ conns'.item[k].data = conns.item[k].data
      BY <2>2 DEF SameEntries
    <3> DEFINE s == conns.item[k].data
    <3>2. s \in Remotes /\ Live(s) /\ k = <<rem[s].af, rem[s].client>>
      BY <3>1, FoundRemote
    <3> HIDE DEF s
    <3>3. rem'[s].state = "live" /\ k = <<rem'[s].af, rem'[s].client>>
      BY <1>3, <3>2
    <3>4. QED
      BY <3>1, <3>3 DEF s
  <2>3. QED
    BY <2>1, <2>2 DEF CacheOwnsRemotes, Live
<1>6. Kinds'
  BY <1>3 DEF Kinds, KindOK, Live
<1>7. Pointers' /\ Losses'
  BY <1>3, PointersMove
<1>8. QED
  BY <1>1, <1>4, <1>5, <1>6, <1>7 DEF Core, Shapes, QueriesMove

\* no remote is changed
LEMMA NoRemoteChanged ==
  ASSUME Core, SameEntries, QueriesMove, rem' = rem
  PROVE  Core'
<1>1. CacheOK'
  BY DEF SameEntries, Core, CacheOK
<1>2. CacheOwnsRemotes'
  BY DEF SameEntries, Core, CacheOwnsRemotes, Live
<1>3. Kinds'
  BY DEF Core, Kinds, KindOK, Live
<1>4. Pointers' /\ Losses'
  BY PointersMove DEF Live
<1>5. QED
  BY <1>1, <1>2, <1>3, <1>4 DEF Core, Shapes, QueriesMove

-----------------------------------------------------------------------------
(* What a step sends. *)

LEMMA SendsNothing == out' = Nothing => Sent'
BY DEF Nothing, Sent, Outs, Answered, AddressesKept

LEMMA SendsDatagram ==
  ASSUME NEW c \in Clients, NEW h \in Headers, NEW a \in Addrs, NEW r \in Remotes,
         out' = Datagram(c, h, a, r),
         h \in Addrs /\ ~(rem'[r].state = "live" /\ rem'[r].strayed) => a = h,
         h \in Names /\ rem'[r].state = "live" /\ ~rem'[r].strayed => rem'[r].af = "unspec"
  PROVE  Sent'
<1>1. out' = [kind |-> "datagram", client |-> c, hdr |-> h, addr |-> a, remote |-> r]
  BY DEF Datagram
<1>2. out' \in Outs
  BY <1>1 DEF Outs
<1>3. Answered' /\ AddressesKept'
  BY <1>1 DEF Answered, AddressesKept, Live
<1>4. QED
  BY <1>2, <1>3 DEF Sent

LEMMA SendsReply ==
  ASSUME NEW c \in Clients, NEW h \in Headers, NEW a \in Addrs, NEW r \in Remotes,
         out' = Reply(c, h, a, r), h \in Addrs => a = h,
         h \in Names => rem'[r].af = "unspec",
         ~rem'[r].strayed => Peer(c, a) \in rem'[r].peers
  PROVE  Sent'
<1>1. out' = [kind |-> "reply", client |-> c, hdr |-> h, addr |-> a, remote |-> r]
  BY DEF Reply
<1>2. out' \in Outs
  BY <1>1 DEF Outs
<1>3. Answered' /\ AddressesKept'
  BY <1>1 DEF Answered, AddressesKept, Live
<1>4. QED
  BY <1>2, <1>3 DEF Sent

\* y is the remote after what the callback did to it before it sends
LEMMA SendOnStep ==
  ASSUME Core, SameEntries, QueriesMove,
         NEW r \in Remotes, Live(r), NEW y \in LiveRecords,
         y.client = rem[r].client, y.af = rem[r].af, y.timer = "armed", KindOK(y),
         NEW c \in Clients, NEW h \in Headers, NEW a \in Addrs,
         SendOn([rem EXCEPT ![r] = y], c, h, a, r),
         ~y.strayed => /\ c = y.client
                       /\ h \in Addrs => a = h
                       /\ h \in Names => y.af = "unspec"
  PROVE  Core' /\ Sent'
<1>1. rem \in [Remotes -> RemoteRecords]
  BY DEF Core, Shapes
<1>2. CASE rem' = [rem EXCEPT ![r] = y] /\ out' = Nothing
  BY <1>2, OneRemote, SendsNothing
<1>3. CASE /\ rem' = [[rem EXCEPT ![r] = y] EXCEPT ![r].peers = @ \cup {Peer(c, a)}]
           /\ out' = Datagram(c, h, a, r)
  <2> DEFINE x == [y EXCEPT !.peers = @ \cup {Peer(c, a)}]
  <2>1. Peer(c, a) \in Peers /\ Peer(c, a).client = c
    BY DEF Peer, Peers
  <2>2. /\ x \in LiveRecords /\ x.client = y.client /\ x.af = y.af /\ x.state = "live"
        /\ x.timer = y.timer /\ x.hdr = y.hdr /\ x.dst = y.dst
        /\ x.strayed = y.strayed /\ x.peers = y.peers \cup {Peer(c, a)}
    BY <2>1 DEF LiveRecords
  <2>3. rem' = [rem EXCEPT ![r] = x]
    BY <1>1, <1>3
  <2>4. rem'[r] = x
    BY <1>1, <2>3
  <2> HIDE DEF x
  <2>5. KindOK(x)
    BY <2>1, <2>2 DEF KindOK
  <2>6. Core'
    BY <2>2, <2>3, <2>5, OneRemote
  <2>7. h \in Addrs /\ ~(rem'[r].state = "live" /\ rem'[r].strayed) => a = h
    BY <2>2, <2>4
  <2>8. h \in Names /\ rem'[r].state = "live" /\ ~rem'[r].strayed => rem'[r].af = "unspec"
    BY <2>2, <2>4
  <2>9. QED
    BY <1>3, <2>6, <2>7, <2>8, SendsDatagram
<1>4. QED
  BY <1>2, <1>3 DEF SendOn

-----------------------------------------------------------------------------
(* Remotes that are freed and made. *)

LEMMA FreedRemotes ==
  ASSUME Core, NEW S
  PROVE  /\ Freed(rem, S) \in [Remotes -> RemoteRecords]
         /\ \A s \in Remotes : Freed(rem, S)[s].state = "live" =>
               /\ Freed(rem, S)[s] = rem[s] /\ Live(s)
               /\ \E k \in CacheKeys(conns) \ S : conns.item[k].data = s
         /\ \A k \in CacheKeys(conns) \ S :
               Freed(rem, S)[conns.item[k].data] = rem[conns.item[k].data]
<1> DEFINE F == Freed(rem, S)
<1>1. F = [r \in Remotes |-> IF \E k \in S \cap CacheKeys(conns) : conns.item[k].data = r
                             THEN NoRemote ELSE rem[r]]
  BY DEF Freed
<1> HIDE DEF F
<1>2. F \in [Remotes -> RemoteRecords]
  BY <1>1 DEF Core, Shapes, RemoteRecords
<1>3. ASSUME NEW s \in Remotes, F[s].state = "live"
      PROVE  /\ F[s] = rem[s] /\ Live(s)
             /\ \E k \in CacheKeys(conns) \ S : conns.item[k].data = s
  <2>1. ~ \E k \in S \cap CacheKeys(conns) : conns.item[k].data = s
    BY <1>1, <1>3 DEF NoRemote
  <2>2. F[s] = rem[s] /\ Live(s)
    BY <1>1, <1>3, <2>1 DEF Live
  <2>3. \E k \in CacheKeys(conns) : conns.item[k].data = s
    BY <2>2 DEF Core, CacheOwnsRemotes
  <2>4. QED
    BY <2>1, <2>2, <2>3
<1>4. ASSUME NEW k \in CacheKeys(conns) \ S
      PROVE  F[conns.item[k].data] = rem[conns.item[k].data]
  <2>1. ASSUME NEW j \in S \cap CacheKeys(conns), conns.item[j].data = conns.item[k].data
        PROVE  FALSE
    <3>1. j = k
      BY <2>1, FoundRemote
    <3>2. QED
      BY <3>1
  <2>2. conns.item[k].data \in Remotes
    BY FoundRemote
  <2>3. QED
    BY <1>1, <2>1, <2>2
<1>5. QED
  BY <1>2, <1>3, <1>4 DEF F

\* the entries under S and their remotes go together
LEMMA DroppedStep ==
  ASSUME Core, NEW S, conns' = Dropped(conns, S), rem' = Freed(rem, S),
         lost' = lost \cup Orphans(S), queries' = queries
  PROVE  Core'
<1>1. Sound(conns) /\ IsCache(conns) /\ IsFiniteSet(CacheKeys(conns))
  BY DEF Core, CacheOK, Sound, IsCache
<1>2. /\ Sound(conns') /\ CacheKeys(conns') = CacheKeys(conns) \ S
      /\ \A k \in CacheKeys(conns) \ S : conns'.item[k] = conns.item[k]
  BY <1>1, DroppedSound DEF Sound
<1>3. Cardinality(CacheKeys(conns')) < Capacity
  <2>1. /\ Cardinality(CacheKeys(conns)) \in Nat
        /\ Cardinality(CacheKeys(conns')) \in Nat
        /\ Cardinality(CacheKeys(conns')) <= Cardinality(CacheKeys(conns))
    BY <1>1, <1>2, FS_Subset, FS_CardinalityType
  <2>2. QED
    BY <2>1, UdpAssumption DEF Core, CacheOK
<1>4. CacheOK'
  BY <1>2, <1>3 DEF Core, CacheOK
<1>5. /\ rem' \in [Remotes -> RemoteRecords]
      /\ \A s \in Remotes : rem'[s].state = "live" =>
            /\ rem'[s] = rem[s] /\ Live(s)
            /\ \E k \in CacheKeys(conns') : conns'.item[k].data = s
      /\ \A k \in CacheKeys(conns') :
            /\ conns'.item[k].data = conns.item[k].data
            /\ rem'[conns.item[k].data] = rem[conns.item[k].data]
  BY <1>2, FreedRemotes
<1>6. CacheOwnsRemotes'
  <2>1. ASSUME NEW k \in CacheKeys(conns')
        PROVE  LET s == conns'.item[k].data
               IN  rem'[s].state = "live" /\ k = <<rem'[s].af, rem'[s].client>>
    <3>1. k \in CacheKeys(conns)
      BY <1>2
    <3>2. QED
      BY <1>5, <3>1, FoundRemote DEF Live
  <2>2. ASSUME NEW s \in Remotes, rem'[s].state = "live" PROVE rem'[s].timer = "armed"
    BY <1>5, <2>2 DEF Core, CacheOwnsRemotes
  <2>3. QED
    BY <1>5, <2>1, <2>2 DEF CacheOwnsRemotes, Live
<1>7. Kinds'
  BY <1>5 DEF Core, Kinds, KindOK, Live
<1>8. \A k \in CacheKeys(conns) \ S : rem'[conns.item[k].data] = rem[conns.item[k].data]
  BY FreedRemotes
<1>9. Pointers' /\ Losses'
  BY <1>8, PointersFreed
<1>10. QED
  BY <1>4, <1>5, <1>6, <1>7, <1>9 DEF Core, Shapes

LEMMA NewRemoteShape ==
  ASSUME NEW c \in Clients, NEW h \in Headers, NEW a \in Addrs, h \in Addrs => a = h
  PROVE  LET x == NewRemote(c, h, a)
         IN  /\ x \in LiveRecords /\ x.client = c /\ x.af = HeaderFamily(h)
             /\ x.timer = "armed" /\ x.state = "live" /\ KindOK(x)
<1>1. /\ HeaderFamily(h) \in Families \cup {"unspec"}
      /\ HeaderFamily(h) = "unspec" <=> h \in Names
      /\ h \in Addrs <=> h \notin Names
  BY HeaderFamilyType
<1>2. Family[a] \in Families
  BY UdpAssumption DEF Families
<1>3. Peer(c, a) \in Peers /\ Peer(c, a).client = c
  BY DEF Peer, Peers
<1>4. QED
  BY <1>1, <1>2, <1>3 DEF NewRemote, LiveRecords, KindOK

LEMMA EnterStep ==
  ASSUME Core, NEW c \in Clients, NEW h \in Headers, NEW a \in Addrs, NEW r \in Remotes,
         Enter(c, h, a, r), Key(HeaderFamily(h), c) \notin CacheKeys(conns),
         h \in Addrs => a = h,
         queries' \in [Queries -> QueryRecords],
         \A q \in Queries : \/ queries'[q] = queries[q]
                            \/ queries'[q] = NoQuery /\ queries[q].ptr = "NULL"
  PROVE  Core' /\ Sent'
<1> DEFINE k == Key(HeaderFamily(h), c)
           ev == Evicted(conns, k, r, Capacity)
           F  == Freed(rem, ev)
           x  == NewRemote(c, h, a)
<1>1. /\ x \in LiveRecords /\ x.client = c /\ x.af = HeaderFamily(h)
      /\ x.timer = "armed" /\ x.state = "live" /\ KindOK(x)
  BY NewRemoteShape
<1>2. /\ r \in FreshPlaces /\ conns' = Inserted(conns, k, r, Capacity)
      /\ rem' = [F EXCEPT ![r] = x] /\ out' = Datagram(c, h, a, r)
      /\ lost' = lost \cup Orphans(ev)
  BY DEF Enter
<1>3. ~Live(r)
  BY <1>2 DEF FreshPlaces
<1>4. k = <<HeaderFamily(h), c>> /\ k \in KeySpace /\ k \notin CacheKeys(conns)
  BY HeaderFamilyType DEF Key, KeySpace
<1>5. Sound(conns) /\ Cardinality(CacheKeys(conns)) < Capacity
  BY DEF Core, CacheOK
<1>6. /\ F \in [Remotes -> RemoteRecords]
      /\ \A s \in Remotes : F[s].state = "live" =>
            /\ F[s] = rem[s] /\ Live(s)
            /\ \E j \in CacheKeys(conns) \ ev : conns.item[j].data = s
      /\ \A j \in CacheKeys(conns) \ ev : F[conns.item[j].data] = rem[conns.item[j].data]
  BY FreedRemotes
<1>7. /\ Sound(conns') /\ ev \subseteq CacheKeys(conns)
      /\ CacheKeys(conns') = (CacheKeys(conns) \cup {k}) \ ev
      /\ Cardinality(CacheKeys(conns')) < Capacity
      /\ conns'.item[k] = [age |-> 0, data |-> r]
      /\ \A j \in CacheKeys(conns) \ ev : conns'.item[j] = conns.item[j]
  BY <1>2, <1>4, <1>5, InsertedSound, UdpAssumption
<1> HIDE DEF k, ev, F, x
<1>8. /\ rem' \in [Remotes -> RemoteRecords] /\ rem'[r] = x
      /\ \A s \in Remotes \ {r} : rem'[s] = F[s]
  BY <1>1, <1>2, <1>6 DEF RemoteRecords, LiveRecords
<1>9. CacheOK'
  <2>1. \A j \in CacheKeys(conns') : conns'.item[j].data \in Remotes
    BY <1>7 DEF Core, CacheOK
  <2>2. CacheKeys(conns') \subseteq KeySpace
    BY <1>4, <1>7 DEF Core, CacheOK
  <2>3. QED
    BY <1>7, <2>1, <2>2 DEF CacheOK
<1>10. ASSUME NEW s \in Remotes, s # r, rem'[s].state = "live"
       PROVE  /\ rem'[s] = rem[s] /\ Live(s)
              /\ \E j \in CacheKeys(conns') : conns'.item[j].data = s
  <2>1. rem'[s] = rem[s] /\ Live(s)
    BY <1>6, <1>8, <1>10
  <2>2. PICK j \in CacheKeys(conns) \ ev : conns.item[j].data = s
    BY <1>6, <1>8, <1>10
  <2>3. j \in CacheKeys(conns') /\ conns'.item[j].data = s
    BY <1>7, <2>2
  <2>4. QED
    BY <2>1, <2>3
<1>11. CacheOwnsRemotes'
  <2>1. ASSUME NEW s \in Remotes, rem'[s].state = "live"
        PROVE  rem'[s].timer = "armed" /\ \E j \in CacheKeys(conns') : conns'.item[j].data = s
    <3>1. CASE s = r
      <4>1. k \in CacheKeys(conns') /\ conns'.item[k].data = r
        BY <1>4, <1>7
      <4>2. QED
        BY <1>1, <1>8, <3>1, <4>1
    <3>2. CASE s # r
      BY <1>10, <2>1, <3>2 DEF Core, CacheOwnsRemotes
    <3>3. QED
      BY <3>1, <3>2
  <2>2. ASSUME NEW j \in CacheKeys(conns')
        PROVE  LET s == conns'.item[j].data
               IN  rem'[s].state = "live" /\ j = <<rem'[s].af, rem'[s].client>>
    <3>1. CASE j = k
      BY <1>1, <1>4, <1>7, <1>8, <3>1
    <3>2. CASE j # k
      <4>1. j \in CacheKeys(conns) \ ev /\ conns'.item[j].data = conns.item[j].data
        BY <1>7, <2>2, <3>2
      <4> DEFINE s == conns.item[j].data
      <4>2. s \in Remotes /\ Live(s) /\ j = <<rem[s].af, rem[s].client>> /\ F[s] = rem[s]
        BY <1>6, <4>1, FoundRemote
      <4>3. s # r
        BY <1>3, <4>2
      <4> HIDE DEF s
      <4>4. rem'[s] = rem[s]
        BY <1>8, <4>2, <4>3
      <4>5. rem'[s].state = "live" /\ j = <<rem'[s].af, rem'[s].client>>
        BY <4>2, <4>4 DEF Live
      <4>6. QED
        BY <4>1, <4>5 DEF s
    <3>3. QED
      BY <3>1, <3>2
  <2>3. QED
    BY <2>1, <2>2 DEF CacheOwnsRemotes, Live
<1>12. Kinds'
  BY <1>1, <1>8, <1>10 DEF Core, Kinds, KindOK, Live
<1>13. Pointers' /\ Losses'
  <2>1. ASSUME NEW j \in CacheKeys(conns) \ ev
        PROVE  rem'[conns.item[j].data] = rem[conns.item[j].data]
    <3>1. conns.item[j].data \in Remotes /\ Live(conns.item[j].data)
      BY <2>1, FoundRemote
    <3>2. conns.item[j].data # r
      BY <1>3, <3>1
    <3>3. QED
      BY <1>6, <1>8, <2>1, <3>1, <3>2
  <2>2. QED
    BY <1>2, <2>1, PointersFreed
<1>14. Sent'
  BY <1>1, <1>2, <1>8, HeaderFamilyType, SendsDatagram
<1>15. QED
  BY <1>8, <1>9, <1>11, <1>12, <1>13, <1>14 DEF Core, Shapes

-----------------------------------------------------------------------------
(* The steps of Next. *)

LEMMA AskStep ==
  ASSUME Core, NEW c \in Clients, NEW h \in Names, NEW p \in Remotes \cup {"NULL"},
         Ask(c, h, p), lost' = lost,
         p # "NULL" => Live(p) /\ rem[p].client = c /\ rem[p].af = "unspec"
  PROVE  QueriesMove /\ Sent'
<1>1. QueriesMove
  <2>1. CASE queries' = queries
    BY <2>1 DEF QueriesMove, Core, Shapes
  <2>2. ASSUME NEW q \in Queries, queries[q] = NoQuery,
               queries' = [queries EXCEPT ![q] =
                     [state |-> "sent", client |-> c, hdr |-> h, ptr |-> p]]
        PROVE  QueriesMove
    <3> DEFINE x == [state |-> "sent", client |-> c, hdr |-> h, ptr |-> p]
    <3>1. x \in QueryRecords
      BY DEF QueryRecords
    <3>2. x.client = c /\ x.ptr = p
      OBVIOUS
    <3> HIDE DEF x
    <3>3. /\ queries' \in [Queries -> QueryRecords] /\ queries'[q] = x
          /\ \A i \in Queries \ {q} : queries'[i] = queries[i]
      BY <2>2, <3>1 DEF Core, Shapes, x
    <3>4. q \notin lost /\ lost \subseteq Queries
      BY <2>2 DEF Core, Losses
    <3>5. QED
      BY <3>2, <3>3, <3>4 DEF QueriesMove
  <2>3. QED
    BY <2>1, <2>2 DEF Ask
<1>2. QED
  BY <1>1, SendsNothing DEF Ask

LEMMA QueriesStay == Core /\ queries' = queries /\ lost' = lost => QueriesMove
BY DEF QueriesMove, Core, Shapes

LEMMA QueryEnds ==
  ASSUME Core, NEW q \in Queries, QueryDone(q), lost' = lost \ {q}
  PROVE  QueriesMove
<1>1. /\ queries' \in [Queries -> QueryRecords] /\ queries'[q] = NoQuery
      /\ \A i \in Queries \ {q} : queries'[i] = queries[i]
  BY DEF QueryDone, Core, Shapes, QueryRecords
<1>2. lost \subseteq Queries
  BY DEF Core, Losses
<1>3. QED
  BY <1>1, <1>2 DEF QueriesMove

LEMMA RecvDroppedStep == Core /\ RecvDropped => Core' /\ Sent'
<1> SUFFICES ASSUME Core, RecvDropped PROVE Core' /\ Sent'
  OBVIOUS
<1> QED
  BY UntouchedSame, QueriesStay, NoRemoteChanged, SendsNothing DEF RecvDropped

LEMMA RecvHitStep ==
  ASSUME Core, NEW c \in Clients, NEW h \in Headers, RecvHit(c, h)
  PROVE  Core' /\ Sent'
<1> DEFINE k == Key(HeaderFamily(h), c)
<1>1. PICK r \in Found(k, c) :
        /\ conns' = Touched(conns, k)
        /\ IF h \in Addrs \/ rem[r].hdr = h
           THEN /\ SendOn([rem EXCEPT ![r].timer = "armed"], c, h, KnownTarget(r, h), r)
                /\ UNCHANGED queries
           ELSE /\ rem' = [rem EXCEPT ![r].timer = "armed"]
                /\ Ask(c, h, r)
  BY DEF RecvHit
<1>2. /\ r \in Remotes /\ Live(r) /\ rem[r].af = HeaderFamily(h) /\ rem[r].client = c
      /\ KindOK(rem[r])
  BY FoundOrMissed DEF Core, Kinds
<1>3. /\ HeaderFamily(h) = "unspec" <=> h \in Names
      /\ h \in Addrs <=> h \notin Names
  BY HeaderFamilyType
<1>4. SameEntries
  BY <1>1, TouchedSame
<1> DEFINE y == [rem[r] EXCEPT !.timer = "armed"]
<1>5. rem[r] \in LiveRecords
  BY <1>2, LiveRecord DEF Core
<1>6. /\ y \in LiveRecords /\ y.client = c /\ y.af = rem[r].af /\ y.timer = "armed"
      /\ y.hdr = rem[r].hdr /\ y.dst = rem[r].dst
      /\ y.strayed = rem[r].strayed /\ y.peers = rem[r].peers
  BY <1>2, <1>5 DEF LiveRecords
<1>7. KindOK(y)
  BY <1>2, <1>6 DEF KindOK
<1>8. [rem EXCEPT ![r].timer = "armed"] = [rem EXCEPT ![r] = y]
  OBVIOUS
<1>9. CASE h \in Addrs \/ rem[r].hdr = h
  <2> DEFINE a == KnownTarget(r, h)
  <2>1. a \in Addrs /\ (~y.strayed => (h \in Addrs => a = h))
    BY <1>6, <1>2, <1>3, <1>5, <1>9 DEF KnownTarget, KindOK, LiveRecords
  <2>2. SendOn([rem EXCEPT ![r] = y], c, h, a, r)
    BY <1>1, <1>8, <1>9
  <2> HIDE DEF y, a
  <2>3. QueriesMove
    BY <1>1, <1>9, QueriesStay DEF RecvHit
  <2>4. QED
    BY <1>2, <1>3, <1>4, <1>6, <1>7, <2>1, <2>2, <2>3, SendOnStep
<1>10. CASE ~(h \in Addrs \/ rem[r].hdr = h)
  <2>1. h \in Names /\ Ask(c, h, r) /\ rem' = [rem EXCEPT ![r] = y]
    BY <1>1, <1>3, <1>8, <1>10
  <2> HIDE DEF y
  <2>2. QueriesMove /\ Sent'
    BY <1>2, <1>3, <2>1, AskStep DEF RecvHit
  <2>3. QED
    BY <1>2, <1>4, <1>6, <1>7, <2>1, <2>2, OneRemote
<1>11. QED
  BY <1>9, <1>10

LEMMA RecvMissAddrStep ==
  ASSUME Core, NEW c \in Clients, NEW h \in Headers, RecvMissAddr(c, h)
  PROVE  Core' /\ Sent'
<1>1. PICK r \in FreshPlaces : Enter(c, h, h, r)
  BY DEF RecvMissAddr
<1>2. /\ h \in Addrs /\ r \in Remotes /\ queries' = queries
      /\ Key(HeaderFamily(h), c) \notin CacheKeys(conns)
  BY FoundOrMissed DEF RecvMissAddr, FreshPlaces
<1>3. queries' \in [Queries -> QueryRecords]
  BY <1>2 DEF Core, Shapes
<1>4. QED
  BY <1>1, <1>2, <1>3, EnterStep

LEMMA RecvMissNameStep ==
  ASSUME Core, NEW c \in Clients, NEW h \in Headers, RecvMissName(c, h)
  PROVE  Core' /\ Sent'
<1>1. SameEntries
  BY TouchedSame DEF RecvMissName
<1>2. QueriesMove /\ Sent'
  BY AskStep DEF RecvMissName
<1>3. QED
  BY <1>1, <1>2, NoRemoteChanged DEF RecvMissName

LEMMA ResolveFailedStep ==
  ASSUME Core, NEW q \in Queries, ResolveFailed(q)
  PROVE  Core' /\ Sent'
BY UntouchedSame, QueryEnds, NoRemoteChanged, SendsNothing DEF ResolveFailed, Forgotten

\* The remote that meets an answer is the asking client's, or is marked.
LEMMA ResolvedHitStep ==
  ASSUME Core, NEW q \in Queries, NEW a \in Addrs, ResolvedHit(q, a)
  PROVE  Core' /\ Sent'
<1> DEFINE r == Target(q)
           c == queries[q].client
           h == queries[q].hdr
           k == Key("unspec", c)
<1>1. /\ queries[q] \in SentQueries /\ c \in Clients /\ h \in Names
      /\ queries[q].ptr \in Remotes \cup {"NULL"}
  BY SentQuery DEF ResolvedHit, SentQueries, Core
<1>2. /\ r \in Remotes /\ Live(r) /\ rem[r].timer = "armed"
      /\ q \notin lost => rem[r].client = c /\ rem[r].af = "unspec"
  <2>1. r # "NULL" /\ Live(r) /\ queries[q] # NoQuery
    BY DEF ResolvedHit
  <2>2. CASE queries[q].ptr # "NULL"
    <3>1. r = queries[q].ptr /\ r \in Remotes
      BY <1>1, <2>2 DEF Target
    <3>2. QED
      BY <2>1, <2>2, <3>1 DEF Core, Pointers, CacheOwnsRemotes
  <2>3. CASE queries[q].ptr = "NULL"
    <3>1. k \in CacheKeys(conns) /\ r = conns.item[k].data
      BY <2>1, <2>3 DEF Target
    <3>2. k = <<"unspec", c>>
      BY DEF Key
    <3> HIDE DEF k
    <3>3. QED
      BY <3>1, <3>2, FoundRemote
  <2>4. QED
    BY <2>2, <2>3
<1>3. SameEntries
  BY TouchedSame, UntouchedSame DEF ResolvedHit, Looked
<1>4. QueriesMove
  BY QueryEnds DEF ResolvedHit, Forgotten
<1> DEFINE v == rem[r].strayed \/ q \in lost
           y == [rem[r] EXCEPT !.dst = a, !.strayed = v]
<1>5. rem[r] \in LiveRecords /\ KindOK(rem[r])
  BY <1>2, LiveRecord DEF Core, Kinds
<1>6. v \in BOOLEAN /\ (~v => q \notin lost /\ ~rem[r].strayed)
  OBVIOUS
<1>7. SendOn([rem EXCEPT ![r] = y], c, h, a, r)
  <2>1. [rem EXCEPT ![r].dst = a, ![r].strayed = @ \/ q \in lost] = [rem EXCEPT ![r] = y]
    BY <1>2, <1>5 DEF Core, Shapes, LiveRecords
  <2>2. QED
    BY <2>1 DEF ResolvedHit
<1> HIDE DEF v
<1>8. /\ y \in LiveRecords /\ y.client = rem[r].client /\ y.af = rem[r].af
      /\ y.timer = "armed" /\ y.hdr = rem[r].hdr /\ y.peers = rem[r].peers
      /\ y.strayed = v
  BY <1>2, <1>5, <1>6 DEF LiveRecords
<1> HIDE DEF y
<1>9. KindOK(y)
  BY <1>2, <1>5, <1>6, <1>8 DEF KindOK
<1>10. h \in Headers /\ h \notin Addrs
  BY <1>1, UdpAssumption DEF Headers
<1>11. ~y.strayed => c = y.client /\ y.af = "unspec"
  BY <1>2, <1>6, <1>8
<1> HIDE DEF r, c, h, k
<1>12. QED
  BY <1>1, <1>2, <1>3, <1>4, <1>7, <1>8, <1>9, <1>10, <1>11, SendOnStep

LEMMA ResolvedMissStep ==
  ASSUME Core, NEW q \in Queries, NEW a \in Addrs, ResolvedMiss(q, a)
  PROVE  Core' /\ Sent'
<1> DEFINE c == queries[q].client
           h == queries[q].hdr
           k == Key("unspec", c)
<1>1. /\ c \in Clients /\ h \in Names /\ queries[q].ptr \in Remotes \cup {"NULL"}
  BY SentQuery DEF ResolvedMiss, SentQueries, Core
<1>2. h \in Headers /\ h \notin Addrs /\ HeaderFamily(h) = "unspec"
  BY <1>1, HeaderFamilyType DEF Headers
<1>3. k \notin CacheKeys(conns)
  <2>1. Target(q) = "NULL"
    BY DEF ResolvedMiss
  <2>2. ASSUME k \in CacheKeys(conns) PROVE FALSE
    <3>1. conns.item[k].data = "NULL"
      BY <2>1, <2>2 DEF Target
    <3>2. conns.item[k].data \in Remotes
      BY <2>2, FoundRemote
    <3>3. QED
      BY <3>1, <3>2, UdpAssumption
  <2>3. QED
    BY <2>2
<1>4. queries[q].ptr = "NULL"
  <2>1. Target(q) = "NULL"
    BY DEF ResolvedMiss
  <2>2. QED
    BY <2>1 DEF Target
<1>5. /\ queries' \in [Queries -> QueryRecords]
      /\ \A i \in Queries : \/ queries'[i] = queries[i]
                            \/ queries'[i] = NoQuery /\ queries[i].ptr = "NULL"
  BY <1>4 DEF ResolvedMiss, QueryDone, Core, Shapes, QueryRecords
<1> HIDE DEF c, h
<1>6. ASSUME NEW r \in FreshPlaces, Enter(c, h, a, r) PROVE Core' /\ Sent'
  <2>1. r \in Remotes
    BY <1>6 DEF FreshPlaces
  <2>2. QED
    BY <1>1, <1>2, <1>3, <1>5, <1>6, <2>1, EnterStep
<1>7. CASE out' = Nothing /\ UNCHANGED <<conns, rem, lost>>
  <2>1. lost' = lost \ {q}
    BY <1>4, <1>7 DEF Core, Losses
  <2>2. QueriesMove
    BY <2>1, QueryEnds DEF ResolvedMiss
  <2>3. QED
    BY <1>7, <2>2, UntouchedSame, NoRemoteChanged, SendsNothing
<1>8. QED
  BY <1>6, <1>7 DEF ResolvedMiss, c, h

LEMMA RemoteRecvStep ==
  ASSUME Core, NEW r \in Remotes, NEW a \in Addrs, RemoteRecv(r, a)
  PROVE  Core' /\ Sent'
<1> DEFINE y == [rem[r] EXCEPT !.timer = "armed"]
           h == Label(r, a)
<1>1. /\ Live(r) /\ rem' = [rem EXCEPT ![r] = y]
      /\ out' = Reply(rem[r].client, h, a, r)
      /\ conns' = conns /\ queries' = queries /\ lost' = lost
  BY DEF RemoteRecv
<1>2. rem[r] \in LiveRecords /\ KindOK(rem[r])
  BY <1>1, LiveRecord DEF Core, Kinds
<1>3. /\ y \in LiveRecords /\ y.client = rem[r].client /\ y.af = rem[r].af
      /\ y.timer = "armed" /\ y.hdr = rem[r].hdr /\ y.dst = rem[r].dst
      /\ y.strayed = rem[r].strayed /\ y.peers = rem[r].peers
  BY <1>2 DEF LiveRecords
<1>4. KindOK(y)
  BY <1>2, <1>3 DEF KindOK
<1>5. rem[r].client \in Clients
  BY <1>2 DEF LiveRecords
<1>6. ~y.strayed => Peer(rem[r].client, a) \in y.peers
  <2>1. PICK p \in rem[r].peers : a = p.addr
    BY DEF RemoteRecv
  <2>2. p = Peer(p.client, p.addr)
    BY <1>2 DEF LiveRecords, Peers, Peer
  <2>3. ~rem[r].strayed => p.client = rem[r].client
    BY <1>2 DEF KindOK
  <2>4. QED
    BY <1>3, <2>1, <2>2, <2>3
<1>7. h \in Headers /\ (h \in Addrs => h = a) /\ (h \in Names => rem[r].af = "unspec")
  BY <1>2, UdpAssumption DEF Label, KindOK, Headers
<1> HIDE DEF y, h
<1>8. Core'
  BY <1>1, <1>3, <1>4, UntouchedSame, QueriesStay, OneRemote
<1>9. rem'[r] = y
  BY <1>1 DEF Core, Shapes
<1>10. QED
  BY <1>1, <1>3, <1>5, <1>6, <1>7, <1>8, <1>9, SendsReply

LEMMA RemoteTimeoutStep ==
  ASSUME Core, NEW r \in Remotes, RemoteTimeout(r)
  PROVE  Core' /\ Sent'
BY DroppedStep, SendsNothing DEF RemoteTimeout

\* with the whole cache the last remote goes
LEMMA FreeUdprelayStep ==
  ASSUME Core, FreeUdprelay
  PROVE  Core' /\ Sent'
<1>1. /\ rem' \in [Remotes -> RemoteRecords]
      /\ \A s \in Remotes : rem'[s].state # "live"
  BY FreedRemotes DEF FreeUdprelay
<1>2. CacheKeys(conns') = {} /\ Sound(conns')
  BY EmptyCacheSound DEF FreeUdprelay
<1>3. CacheOK'
  <2>1. Cardinality({}) = 0
    BY FS_EmptySet
  <2>2. QED
    BY <1>2, <2>1, UdpAssumption DEF CacheOK
<1>4. CacheOwnsRemotes' /\ Kinds'
  BY <1>1, <1>2 DEF CacheOwnsRemotes, Kinds, Live
<1>5. Pointers' /\ Losses'
  <2>1. \A k \in CacheKeys(conns) \ CacheKeys(conns) :
           rem'[conns.item[k].data] = rem[conns.item[k].data]
    OBVIOUS
  <2>2. QED
    BY <2>1, PointersFreed DEF FreeUdprelay
<1>6. Shapes'
  BY <1>1 DEF FreeUdprelay, Core, Shapes
<1>7. QED
  BY <1>3, <1>4, <1>5, <1>6, SendsNothing DEF Core, FreeUdprelay

LEMMA Unchanged ==
  ASSUME Core, Sent, conns' = conns, rem' = rem, queries' = queries, lost' = lost,
         out' = out
  PROVE  Core' /\ Sent'
<1>1. Core'
  BY UntouchedSame, QueriesStay, NoRemoteChanged
<1>2. Sent'
  BY DEF Sent, Answered, AddressesKept, Live
<1>3. QED
  BY <1>1, <1>2

LEMMA InitInv == Init => Inv
<1> SUFFICES ASSUME Init PROVE Inv
  OBVIOUS
<1>1. Sound(conns) /\ CacheKeys(conns) = {}
  BY EmptyCacheSound DEF Init
<1>2. Cardinality({}) = 0
  BY FS_EmptySet
<1>3. CacheOK
  BY <1>1, <1>2, UdpAssumption DEF CacheOK
<1>4. \A r \in Remotes : ~Live(r)
  BY DEF Init, Live, NoRemote
<1>5. Shapes
  BY DEF Init, Shapes, RemoteRecords, QueryRecords
<1>6. Pointers /\ Losses
  BY DEF Init, Pointers, Losses
<1>7. CacheOwnsRemotes /\ Kinds
  BY <1>1, <1>4 DEF CacheOwnsRemotes, Kinds
<1>8. Sent
  BY DEF Init, Nothing, Sent, Outs, Answered, AddressesKept
<1>9. QED
  BY <1>3, <1>5, <1>6, <1>7, <1>8 DEF Inv, Core, Init

LEMMA PhaseStep == Next => phase' = phase \/ phase' \in {"undefined", "stopped"}
BY DEF Next, Running, Done, vars, RecvDropped, Recv, RecvHit, RecvMissAddr, RecvMissName,
       Resolve, ResolveFailed, ResolvedDangling, ResolvedHit, ResolvedMiss,
       Remote, RemoteTimeout, RemoteRecv, FreeUdprelay

LEMMA NextInv == Inv /\ [Next]_vars => Inv'
<1> SUFFICES ASSUME Inv, [Next]_vars PROVE Inv'
  OBVIOUS
<1> USE DEF Inv
<1>1. Core' /\ Sent'
  <2>1. CASE RecvDropped
    BY <2>1, RecvDroppedStep
  <2>2. ASSUME NEW c \in Clients, NEW h \in Headers, Recv(c, h) PROVE Core' /\ Sent'
    BY <2>2, RecvHitStep, RecvMissAddrStep, RecvMissNameStep DEF Recv
  <2>3. ASSUME NEW q \in Queries, Resolve(q) PROVE Core' /\ Sent'
    <3>1. CASE ResolveFailed(q)
      BY <3>1, ResolveFailedStep
    <3>2. CASE ResolvedDangling(q)
      BY <3>2, Unchanged DEF ResolvedDangling
    <3>3. ASSUME NEW a \in Addrs, ResolvedHit(q, a) \/ ResolvedMiss(q, a)
          PROVE  Core' /\ Sent'
      BY <3>3, ResolvedHitStep, ResolvedMissStep
    <3>4. QED
      BY <2>3, <3>1, <3>2, <3>3 DEF Resolve
  <2>4. ASSUME NEW r \in Remotes, Remote(r) PROVE Core' /\ Sent'
    BY <2>4, RemoteTimeoutStep, RemoteRecvStep DEF Remote
  <2>5. CASE FreeUdprelay
    BY <2>5, FreeUdprelayStep
  <2>6. CASE UNCHANGED vars
    BY <2>6, Unchanged DEF vars
  <2>7. QED
    BY <2>1, <2>2, <2>3, <2>4, <2>5, <2>6 DEF Next, Running, Done
<1>2. phase' \in {"running", "undefined", "stopped"}
  BY PhaseStep DEF vars
<1>3. QED
  BY <1>1, <1>2

\* The invariant holds in every reachable state.
THEOREM Invariance == Spec => []Inv
BY InitInv, NextInv, PTL DEF Spec

\* The cache stays below MAX_UDP_CONN_NUM and remotes, queries and datagrams
\* keep their shapes, for any numbers of them (cache_insert, new_remote).
THEOREM TypesHold == Spec => []TypeOK
<1>1. Inv => TypeOK
  BY DEF Inv, Core, CacheOK, Shapes, Losses, Sent, TypeOK, KeySpace
<1>2. QED
  BY <1>1, Invariance, PTL

\* Remotes and entries of conn_cache stay in one-to-one correspondence, under
\* the key each remote's timer will remove it by: none is leaked or freed twice
\* by a timeout, an eviction or the end (remote_timeout_cb, free_cb).
THEOREM RemotesOwned == Spec => []CacheOwnsRemotes
<1>1. Inv => CacheOwnsRemotes
  BY DEF Inv, Core
<1>2. QED
  BY <1>1, Invariance, PTL

\* No datagram leaves by another client's socket, also when it was resolved
\* long after it came and its remote was found by a pointer kept since then,
\* and a reply goes to the client that sent to its source by the socket it
\* came by: however places are given out again, the sole exception is a socket
\* used by a query whose own remote was freed (hash_key, query_resolve_cb).
THEOREM ClientsApart == Spec => []ClientsKeptApart
<1>1. Inv => ClientsKeptApart
  BY DEF Inv, Core, Kinds, KindOK, Sent, Answered, ClientsKeptApart
<1>2. QED
  BY <1>1, Invariance, PTL

\* A datagram for an address goes there and its reply names it: dst_addr of a
\* remote made for an address is never overwritten by an answer for a name,
\* since only remotes under AF_UNSPEC meet answers, and those that found a
\* remote at a freed place (server_recv_cb, query_resolve_cb).
THEOREM AddressesHold == Spec => []AddressesKept
<1>1. Inv => AddressesKept
  BY DEF Inv, Sent
<1>2. QED
  BY <1>1, Invariance, PTL
=============================================================================
