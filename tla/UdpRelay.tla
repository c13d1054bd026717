------------------------------- MODULE UdpRelay -------------------------------
(***************************************************************************)
(* The UDP relay of udprelay.c (built with MODULE_REMOTE).  A datagram of a*)
(* client carries a header that says where it goes: an address, or a name  *)
(* that is looked up.  The socket it leaves by, a remote_ctx_t, is shared  *)
(* by all datagrams of the client with the same kind of header: conn_cache *)
(* finds it under hash_key(af, source), af being AF_UNSPEC for names.      *)
(* Queries outlive the step that starts them and hold plain pointers, and a*)
(* place that was freed may be given out again under such a pointer.       *)
(***************************************************************************)
EXTENDS Cache

CONSTANTS
    Clients,
    Addrs,      \* addresses of targets
    Names,      \* names of targets
    Family,     \* address -> "v4" or "v6"
    Zone,       \* name -> the addresses the resolver may answer
    Remotes,    \* places a remote_ctx_t can be allocated at
    Queries,    \* bound: queries outstanding at a time
    Capacity    \* MAX_UDP_CONN_NUM

Headers == Addrs \cup Names

ASSUME UdpAssumption ==
    /\ Addrs \cap Names = {}
    /\ Family \in [Addrs -> {"v4", "v6"}]
    /\ Zone \in [Names -> SUBSET Addrs]
    /\ Capacity \in Nat \ {0, 1}
    /\ "NULL" \notin Remotes

VARIABLES
    conns,      \* conn_cache: key -> remote
    rem,        \* the remote_ctx_t at each place
    queries,    \* the query_ctx of each outstanding query
    lost,       \* history: the queries whose remote was freed since they began
    out,        \* history: what the last step sent
    phase       \* "running", "undefined" (freed memory was used), "stopped"

vars == <<conns, rem, queries, lost, out, phase>>

Families == {"v4", "v6"}
NoRemote == [state |-> "free"]
NoQuery == [state |-> "free"]
Nothing == [kind |-> "none"]

Peer(c, a) == [client |-> c, addr |-> a]
Peers == [client : Clients, addr : Addrs]

RemoteRecords ==
    {NoRemote} \cup
    [state : {"live"}, client : Clients, af : Families \cup {"unspec"},
     fam : Families,            \* of the socket
     hdr : Headers,             \* addr_header
     dst : Addrs,               \* dst_addr
     timer : {"armed", "off"},
     peers : SUBSET Peers,      \* history: for whom, and where, it has sent
     strayed : BOOLEAN]         \* history: a query of lost has used it

QueryRecords ==
    {NoQuery} \cup
    [state : {"sent"}, client : Clients, hdr : Names,
     ptr : Remotes \cup {"NULL"}]   \* remote_ctx

Init ==
    /\ conns = EmptyCache
    /\ rem = [r \in Remotes |-> NoRemote]
    /\ queries = [q \in Queries |-> NoQuery]
    /\ lost = {}
    /\ out = Nothing
    /\ phase = "running"

\* parse_udprealy_header leaves ss_family 0 for a name
HeaderFamily(h) == IF h \in Addrs THEN Family[h] ELSE "unspec"

KeyAnyClient(af, c) == <<af>>   \* fault
Key(af, c) == <<af, c>>

Live(r) == rem[r].state = "live"

\* malloc returns a place that is not in use, whoever still points to it
FreshPlaces == {r \in Remotes : ~Live(r)}

-----------------------------------------------------------------------------
(* Steps of the handlers. *)

Datagram(c, h, a, r) == [kind |-> "datagram", client |-> c, hdr |-> h, addr |-> a, remote |-> r]
Reply(c, h, a, r) == [kind |-> "reply", client |-> c, hdr |-> h, addr |-> a, remote |-> r]

NewRemote(c, h, a) ==
    [state |-> "live", client |-> c, af |-> HeaderFamily(h), fam |-> Family[a],
     hdr |-> h, dst |-> a, timer |-> "armed", peers |-> {Peer(c, a)}, strayed |-> FALSE]

\* free_cb: the remotes under the keys in S are closed and freed
FreedNothing(rm, S) == rm   \* fault
Freed(rm, S) ==
    [r \in Remotes |-> IF \E k \in S \cap CacheKeys(conns) : conns.item[k].data = r
                       THEN NoRemote ELSE rm[r]]

\* ... and the queries that point to one of them are not told
Orphans(S) ==
    {q \in Queries : queries[q] # NoQuery
                     /\ \E k \in S \cap CacheKeys(conns) : conns.item[k].data = queries[q].ptr}

\* The first datagram of a new remote has left: it enters the cache, which
\* may evict another.  af selects the key.
Enter(c, h, a, r) ==
    LET k == Key(HeaderFamily(h), c)
        ev == Evicted(conns, k, r, Capacity)
    IN
    /\ r \in FreshPlaces
    /\ conns' = Inserted(conns, k, r, Capacity)
    /\ rem' = [Freed(rem, ev) EXCEPT ![r] = NewRemote(c, h, a)]
    /\ lost' = lost \cup Orphans(ev)
    /\ out' = Datagram(c, h, a, r)

\* A datagram leaves by a remote of the cache; a family the socket does not
\* have is refused, and so may any other be.
SendOn(rm, c, h, a, r) ==
    \/ /\ Family[a] = rm[r].fam
       /\ rem' = [rm EXCEPT ![r].peers = @ \cup {Peer(c, a)}]
       /\ out' = Datagram(c, h, a, r)
    \/ rem' = rm /\ out' = Nothing

\* resolv_query may fail: then the datagram is dropped
Ask(c, h, ptr) ==
    /\ \/ \E q \in Queries :
              /\ queries[q] = NoQuery
              /\ queries' = [queries EXCEPT ![q] =
                     [state |-> "sent", client |-> c, hdr |-> h, ptr |-> ptr]]
       \/ UNCHANGED queries
    /\ out' = Nothing

-----------------------------------------------------------------------------
(* server_recv_cb. *)

\* a bad datagram, or a socket or a first sendto that fails, leaves no trace
RecvDropped == out' = Nothing /\ UNCHANGED <<conns, rem, queries, lost, phase>>

\* the remote the key finds, unless sockaddr_cmp says it is another client's
Found(k, c) ==
    {r \in Remotes : k \in CacheKeys(conns) /\ conns.item[k].data = r /\ rem[r].client = c}

\* A header the remote knows goes where dst_addr says, whatever it says.
KnownTargetStored(r, h) == rem[r].dst   \* fault
KnownTarget(r, h) == IF rem[r].hdr = h THEN rem[r].dst ELSE h

RecvHit(c, h) ==
    LET k == Key(HeaderFamily(h), c)
        rearmed(r) == [rem EXCEPT ![r].timer = "armed"]
    IN
    \E r \in Found(k, c) :
        /\ conns' = Touched(conns, k)
        /\ IF h \in Addrs \/ rem[r].hdr = h
           THEN /\ SendOn(rearmed(r), c, h, KnownTarget(r, h), r)
                /\ UNCHANGED queries
           ELSE /\ rem' = rearmed(r)
                /\ Ask(c, h, r)
        /\ UNCHANGED <<lost, phase>>

RecvMissAddr(c, h) ==
    /\ h \in Addrs
    /\ Found(Key(HeaderFamily(h), c), c) = {}
    /\ \E r \in FreshPlaces : Enter(c, h, h, r)
    /\ UNCHANGED <<queries, phase>>

RecvMissName(c, h) ==
    /\ h \in Names
    /\ Found(Key("unspec", c), c) = {}
    /\ Ask(c, h, "NULL")
    /\ conns' = Touched(conns, Key("unspec", c))
    /\ UNCHANGED <<rem, lost, phase>>

-----------------------------------------------------------------------------
(* query_resolve_cb. *)

QueryDone(q) == queries' = [queries EXCEPT ![q] = NoQuery]
Forgotten(q) == lost' = lost \ {q}

ResolveFailed(q) ==
    /\ queries[q] # NoQuery
    /\ QueryDone(q)
    /\ Forgotten(q)
    /\ out' = Nothing
    /\ UNCHANGED <<conns, rem, phase>>

\* the remote of the query, or else the one under the client's key
Target(q) ==
    IF queries[q].ptr # "NULL" THEN queries[q].ptr
    ELSE LET k == Key("unspec", queries[q].client)
         IN  IF k \in CacheKeys(conns) THEN conns.item[k].data ELSE "NULL"

Looked(q) ==
    IF queries[q].ptr = "NULL" THEN Touched(conns, Key("unspec", queries[q].client)) ELSE conns

\* dst_addr is the answer from now on; addr_header stays what it was.  A
\* query that lost its remote finds the one made since at the same place,
\* and its datagram leaves by that one's socket, whoever's it is.
ResolvedHit(q, a) ==
    LET r == Target(q) IN
    /\ queries[q] # NoQuery
    /\ a \in Zone[queries[q].hdr]
    /\ r # "NULL" /\ Live(r)
    /\ conns' = Looked(q)
    /\ SendOn([rem EXCEPT ![r].dst = a, ![r].strayed = @ \/ q \in lost],
              queries[q].client, queries[q].hdr, a, r)
    /\ QueryDone(q)
    /\ Forgotten(q)
    /\ UNCHANGED phase

ResolvedMiss(q, a) ==
    /\ queries[q] # NoQuery
    /\ a \in Zone[queries[q].hdr]
    /\ Target(q) = "NULL"
    /\ \/ \E r \in FreshPlaces : Enter(queries[q].client, queries[q].hdr, a, r)
       \/ out' = Nothing /\ UNCHANGED <<conns, rem, lost>>
    /\ QueryDone(q)
    /\ UNCHANGED phase

\* the remote of the query has been freed and no other is at its place, which
\* anything else may have been given: what the callback does is undefined
ResolvedDangling(q) ==
    /\ queries[q] # NoQuery
    /\ Target(q) # "NULL" /\ ~Live(Target(q))
    /\ phase' = "undefined"
    /\ UNCHANGED <<conns, rem, queries, lost, out>>

-----------------------------------------------------------------------------
(* remote_recv_cb, remote_timeout_cb and free_udprelay. *)

\* A reply gets the header of its source, or the stored one when the remote
\* was made for a name (af is 0); it goes to the remote's client.  Sources
\* the socket never sent to are relayed alike and not recorded.
Label(r, a) == IF rem[r].af = "unspec" THEN rem[r].hdr ELSE a

RemoteRecv(r, a) ==
    /\ Live(r)
    /\ \E p \in rem[r].peers : a = p.addr
    /\ rem' = [rem EXCEPT ![r].timer = "armed"]
    /\ out' = Reply(rem[r].client, Label(r, a), a, r)
    /\ UNCHANGED <<conns, queries, lost, phase>>

RemoteTimeout(r) ==
    LET k == Key(rem[r].af, rem[r].client) IN
    /\ Live(r)
    /\ rem[r].timer = "armed"
    /\ conns' = Dropped(conns, {k})
    /\ rem' = Freed(rem, {k})
    /\ lost' = lost \cup Orphans({k})
    /\ out' = Nothing
    /\ UNCHANGED <<queries, phase>>

\* cache_delete; the queries are left behind
FreeUdprelay ==
    /\ conns' = EmptyCache
    /\ rem' = Freed(rem, CacheKeys(conns))
    /\ lost' = lost \cup Orphans(CacheKeys(conns))
    /\ out' = Nothing
    /\ phase' = "stopped"
    /\ UNCHANGED queries

Recv(c, h) == RecvHit(c, h) \/ RecvMissAddr(c, h) \/ RecvMissName(c, h)

Resolve(q) ==
    \/ ResolveFailed(q) \/ ResolvedDangling(q)
    \/ \E a \in Addrs : ResolvedHit(q, a) \/ ResolvedMiss(q, a)

Remote(r) == RemoteTimeout(r) \/ \E a \in Addrs : RemoteRecv(r, a)

Running ==
    \/ RecvDropped
    \/ \E c \in Clients, h \in Headers : Recv(c, h)
    \/ \E q \in Queries : Resolve(q)
    \/ \E r \in Remotes : Remote(r)
    \/ FreeUdprelay

Done == phase # "running" /\ UNCHANGED vars

Next == (phase = "running" /\ Running) \/ Done

Spec == Init /\ [][Next]_vars

-----------------------------------------------------------------------------
(* Properties. *)

Outs == {Nothing} \cup
    [kind : {"datagram", "reply"}, client : Clients, hdr : Headers, addr : Addrs,
     remote : Remotes]

\* The cache holds fewer remotes than its capacity, under keys of clients.
TypeOK ==
    /\ CacheKeys(conns) \subseteq (Families \cup {"unspec"}) \X Clients
    /\ Cardinality(CacheKeys(conns)) < Capacity
    /\ \A k \in CacheKeys(conns) : conns.item[k].data \in Remotes
    /\ rem \in [Remotes -> RemoteRecords]
    /\ queries \in [Queries -> QueryRecords]
    /\ lost \in SUBSET {q \in Queries : queries[q] # NoQuery}
    /\ out \in Outs
    /\ phase \in {"running", "undefined", "stopped"}

\* Every remote that exists has its timer running and is in the cache, once,
\* under the key the timer will remove it by, and every entry has a remote:
\* none is leaked, freed twice or left in the cache after it was freed
\* (cache_insert's eviction, remote_timeout_cb, free_udprelay).
CacheOwnsRemotes ==
    /\ \A r \in Remotes : Live(r) =>
           rem[r].timer = "armed" /\ \E k \in CacheKeys(conns) : conns.item[k].data = r
    /\ \A k \in CacheKeys(conns) :
           LET r == conns.item[k].data
           IN  Live(r) /\ k = <<rem[r].af, rem[r].client>>

\* A socket sends for its own client only, and a reply that comes by it goes
\* to the client that sent to its source by it (hash_key, sockaddr_cmp, the
\* pointer and the lookup of query_resolve_cb), unless a query whose remote
\* was freed in between has used it: PointersLive is about those.
ClientsKeptApart ==
    /\ \A r \in Remotes : Live(r) /\ ~rem[r].strayed =>
           \A p \in rem[r].peers : p.client = rem[r].client
    /\ out # Nothing /\ out.kind = "reply" /\ Live(out.remote) /\ ~rem[out.remote].strayed =>
           Peer(out.client, out.addr) \in rem[out.remote].peers

\* A datagram for an address goes there, and its reply says where it came
\* from, whatever was sent by the same socket before (server_recv_cb's
\* destination mismatch, construct_udprealy_header), with the same exception.
AddressesKept ==
    out # Nothing =>
        /\ out.hdr \in Addrs /\ ~(Live(out.remote) /\ rem[out.remote].strayed) =>
               out.addr = out.hdr
        /\ out.hdr \in Names /\ Live(out.remote) /\ ~rem[out.remote].strayed =>
               rem[out.remote].af = "unspec"

\* A datagram for a name goes to an address of that name: what the mismatch
\* detection of server_recv_cb is for.
NamesKept ==
    out # Nothing /\ out.kind = "datagram" /\ out.hdr \in Names => out.addr \in Zone[out.hdr]

\* The answer of a query finds the remote the query was started for: never
\* freed memory, and never a remote made since at the same place.
PointersLive ==
    /\ phase # "undefined"
    /\ \A r \in Remotes : Live(r) => ~rem[r].strayed
=============================================================================
