# TLA+ models and proofs for ss-server

The repository is a tree for building OpenWrt images: scripts, workflows,
kernel and feed patches, board configurations, web pages, and the packages
that go into an image. One of those packages holds a complete program,
`ss-server` of shadowsocksr-libev (C, one process, one libev loop), under
`src/openwrt-2203/package-for-istoreos/kochiya-istore/shadowsocksr-libev/src/server/`.
It has nearly all the state and nearly all the concurrency of the tree, and is
what is modelled here. File names below without a path are in that directory.

Contents

1. The system: components, state, operations, interactions
2. The modules and how they correspond to the code
3. What the runs check and show
4. Bounds, and why they are enough
5. Fairness, and why the code justifies it
6. What is proved, from what, and how
7. Where the code and its own words disagree
8. What is not modelled
9. The plan

To check: `tlc -config MCTcpRelay_one.cfg MCTcpRelay`, and likewise for each
run of section 3; `tlapm TcpRelayProofs.tla`, and likewise for each
`*Proofs.tla`. `PROJECT.json` lists the runs, maps every definition to its
lines of source, and gives for each property a mutation of a definition that
the property rejects.

## 1. The system

### How ss-server is put together

    client --TCP--> accept_cb --acl/block list--> server_t <==> remote_t --TCP--> target
                                                    |
                                     resolv_query <-+-> server_resolve_cb
                                                    |
                                  ss_decrypt, plugins, ss_check_hash

    client --UDP--> udp server_recv_cb --conn_cache--> remote_ctx_t --UDP--> target
                                     \-> resolv_query -> query_resolve_cb

There are no threads. The loop calls one callback at a time and each runs to
its end, so the interleavings are those of *callbacks*: of the four watchers of
a connection, its timer, the resolver's answer, and those of all other
connections. What goes wrong in such a program is that something which one
callback leaves for a later one (a watcher, an index, a pointer, a flag) is
not what the later one takes it to be. A client and a target can close, stall
or send any number of bytes at any moment, and TCP cuts a stream into reads as
it likes.

| component | files | state | operations | talks to |
|---|---|---|---|---|
| TCP relay | server.c, server.h | per connection `server_t` (stage, buffer, header_buf, query, watchers, timer) and `remote_t` (buffer, watchers, connected); global `fast_open` | `accept_cb`, `server_recv_cb`, `server_send_cb`, `server_timeout_cb`, `server_resolve_cb`, `remote_recv_cb`, `remote_send_cb`, `signal_cb`, `free_connections` | resolver (call and callback), block list (`report_addr`, `reset_addr`), cipher, plugins, chunk authentication |
| UDP relay | udprelay.c | `conn_cache` of `remote_ctx_t`, outstanding `query_ctx` | `server_recv_cb`, `query_resolve_cb`, `remote_recv_cb`, `remote_timeout_cb`, `free_udprelay` | cache, resolver, cipher |
| Resolver | resolv.c | per call a `ResolvQuery`: two udns queries, responses | `resolv_query`, `dns_query_v4_cb`, `dns_query_v6_cb`, `resolv_cancel`, `resolv_timeout_cb` | udns, both relays |
| LRU cache | cache.c | hash table in order of use, limit, time stamps | create, insert, lookup, remove, clear, delete | block list, UDP relay, IV replay cache |
| Access and block list, firewall | acl.c | static lists, `block_list` cache, firewall chain, shell | `acl_match_host`, `check_block_list`, `update_block_list`, `remove_from_block_list`, `clear_block_list`, `free_block_list` | TCP relay; iptables or firewalld through a shell |
| Chunk authentication | encrypt.c | `chunk_t` (buffer, idx, len, counter) | `ss_gen_hash`, `ss_check_hash` | TCP relay |
| Ciphers, IV replay cache | encrypt.c | cipher contexts, `iv_cache` | `ss_encrypt`, `ss_decrypt`, `ss_decrypt_all` | both relays |
| Obfuscation plug-ins | obfs.c, obfsutil.c, http_simple.c, tls1.2_ticket.c, list.c | per connection and end: handshake status, `recv_buffer`, `send_buffer`, flags; global: the ids of hellos | `client_encode`, `client_decode`, `server_encode`, `server_decode` | TCP relay, cipher |
| Protocol plug-ins | verify.c, auth.c | per connection: receive buffer, frame numbers, header sent or not; global: client id, connection id | `client_pre_encrypt`, `client_post_decrypt`, and of verify.c the server's halves | cipher, TCP relay |
| Sniffing and rules | tls.c, http.c, rule.c | list of patterns | parse, match | TCP relay |
| Options and utilities | jconf.c, json.c, utils.c, netutils.c, check.c | read at start | - | - |

The rest of the tree: image build scripts (`core.sh`, `diy-*.sh`,
`after_build.sh`, `refineconfig.sh`), build workflows, LuCI pages (dockerman,
diskman, partexp, banmac, others), set-up scripts, packaging of third-party
programs, patches, configurations, an archive. `PROJECT.json` lists each with
the reason it is not modelled; section 8 says more.

### What is hard, and what makes each part correct

**TCP relay.** Two sockets and two buffers are shared by four I/O callbacks.
`server->buf` holds the client's request, then the payload that waits for the
resolver, then (used for the other direction) what the target answered.
Partial sends leave `idx` and `len` behind for another callback. The request
header may come in any number of reads. Fast open lets part of the payload
leave inside `connect_to_remote`. Each error branch frees a different
selection of objects. Correct means: each direction delivers a prefix of what
was read, in order and without gaps; exactly one watcher per direction while
streaming; objects and the resolver's query live and die together; every
connection has a timer and ends; nobody is put on the block list for what
another did.

**UDP relay.** A remote is owned by the cache, freed by its own timer or by
eviction, and reached by a raw pointer in a query that outlives both. One
socket serves all targets of a client. Correct means: cache and remotes stay
in one-to-one correspondence; a datagram goes where its own header says, by a
socket of its own client, and a reply back to that client; no query touches a
freed remote, or another that was made since at the same place.

**Resolver.** Two queries per call, answered in either order or not at all;
the callback may close the connection that holds the handle; the connection's
timer may cancel at any time. Correct means: one answer or one cancellation
per call, no use after the end, and the preferred family whenever it was found.

**Block list.** One table, touched by every accept, report, success, 30 s
timer and eviction, mirrored by rules *outside* the process. Correct means:
rules and list agree on every path; evictions take the least recently seen
address; an address is let in again only for a reason.

**Plug-in path.** Between a socket and the relay a read passes the
obfuscation plug-in and the cipher, each with a state of its own and a first
read that is unlike the others: a handshake flight, a head, an IV. The states
must move together however TCP cuts the stream, also when flight and data share
a read, and when `obfs_compatible` takes a refusal back. `iv_cache` is shared by
all connections. Correct means: units pass once, in order, both ways; nobody
is refused for what others do; an IV is not accepted again while it is
remembered; a client that is not refused is served, while the process lives.

**Framing.** A write becomes frames with random padding in a buffer whose size
was computed before; a read is appended to a buffer of fixed size, and whole
frames are taken off its front. Correct means: neither buffer is outgrown by
any draw or cut, the two ends agree about lengths and numbers over any number
of frames, no complete frame is left lying, and ids of connections are not
used twice.

**Chunk authentication.** One loop reads a buffer and writes the released
payload back into it, with a chunk that may have begun pieces ago. Correct
means: both buffers are large enough, and exactly the verified payload leaves.

The list of hazards in `PROJECT.json` says at which line each of these bites
and which property would catch it.

## 2. The modules and how they correspond to the code

    BytePipe <---refines--- TcpRelay <--- MCTcpRelay       TcpRelay <--- TcpRelayProofs
    ResolverPromise <-refines- Resolver <--- MCResolver    Resolver <--- ResolverProofs
    Cache <--- BlockList <--- MCBlockList                  Cache <--- CacheProofs
      ^------- UdpRelay <--- MCUdpRelay                    BlockList, CacheProofs <--- BlockListProofs
                                                           UdpRelay, CacheProofs <--- UdpRelayProofs
    ChunkAuth <--- MCChunkAuth                             ChunkAuth <--- ChunkAuthProofs
    TicketAuth, HttpObfs, Cache <--- PluginPath <--- MCPlugins
                                                           PluginPath, CacheProofs <--- PluginPathProofs
    Frames <--- MCFrames                                   Frames <--- FramesProofs

An operator whose comment ends in "fault" is a seeded defect. No action uses
it: it is what stands in for the operator after it when a property is tested.

**TcpRelay** (server.c). One action is one libev callback run to its end, one
disjunct of it is one of its outcomes. `srv[c]` is the `server_t`: `stage`,
`query` (the pointer is set), `io` (the watchers that are active), `timer`,
`buf`, `hdr` (units in `header_buf`), `held` (units in the chunk buffer),
`auth`. `rem[c]` is the `remote_t`. `dns` is the set of connections a query
will call back. `wire[c]` is history: what the client asks, how much was read
and what was sent each way, and which levels the client was reported with.
Bytes are counted in units and a client's stream is 1, 2, 3, ..., so
`[base, idx, len]` says of a `buffer_t` *which* bytes it holds, and a send from
the wrong offset shows in `wire[c].up`.

| code | actions |
|---|---|
| `accept_cb` | `Accept` |
| `server_recv_cb` | `RecvInit`, `RecvHandshake`, `RecvDrop` (STAGE_ERROR), `RecvStream`, `RecvBadChunk`, `RecvUndecipherable`, `RecvClose` (also a plugin's refusal), `RecvAgain` |
| `connect_to_remote`, `new_remote` | `ConnectDirect`, `ConnectResults`, `LinkedRemote` inside those |
| `server_resolve_cb` | `Resolved`, `ResolveFailed` |
| `remote_send_cb` | `RemoteSend` (first call: the connect's outcome), `RemoteSendFails` |
| `remote_recv_cb` | `RemoteRecv`, `RemoteRecvClose`, `RemoteRecvAgain` |
| `server_send_cb` | `ServerSend`, `ServerSendFails` |
| `server_timeout_cb` | `TimerExpires` (the time passes), `Timeout` (the callback) |
| `signal_cb`, `free_connections` | `Signal`, `Shutdown` |

A timer that is `due` may still see other callbacks first: libev collects all
pending events of a round and then calls them one by one, and any of them may
stop the timer or re-arm it. Whether chunk hashes verify, whether a header is
judged complete when the judged bytes are not the header's first, how much a
plugin lets through and what `connect` and `send` return is chosen with `\E`.

**BytePipe** is what the TCP relay promises: a connection is two pipes that
send prefixes of what they read, and closing loses at most the tail. `TcpRelay`
refines it by forgetting stages, watchers, timers, buffers and the resolver.

**Cache** (cache.c on uthash). A cache is a function from keys to
`[age, data]` and the relation `older`, the order of uthash's list. Pure
operators: `Touched` (lookup: delete, re-add, new time), `Inserted`,
`Dropped`, `Expired`, `Aged`. The users hold a cache in a variable.

**BlockList** (acl.c and its callers in server.c). `Deny`, `Refuse`, `Admit`,
`AdmitUnchecked` are `accept_cb`; `Report` is `report_addr` with its levels'
weights; `ResetAddr` is `reset_addr`, called when a connection reaches its
target; `ClearTimer` is `block_list_clear_cb`; `Tick` is time;
`FreeBlockList` is the end of `main`. `rules` is the firewall chain, written
through `shell`; `seen` and `stray` are history.

**UdpRelay** (udprelay.c, built with MODULE_REMOTE). `conns` is `conn_cache`
under `<<af, client>>`, `rem` the memory places of remotes, `queries` what the
resolver holds, each with its raw pointer. `RecvHit`, `RecvMissAddr`,
`RecvMissName`, `RecvDropped` are `server_recv_cb`; `ResolvedHit`,
`ResolvedMiss`, `ResolvedDangling`, `ResolveFailed` are `query_resolve_cb`.
Using freed memory sets `phase` to "undefined" and ends the behaviour: what a
program does from there on is not its code's to say. A place that was freed may
be given out again (`FreshPlaces`), also while a query still points to it; the
query then finds the new remote, whoever's it is, and goes on. `lost` is
history, the queries whose remote was freed since they began, and so are a
remote's `peers`, for whom and where it has sent, and `strayed`, that a query of
`lost` has used it.

**Resolver** (resolv.c). `Query` submits none, one or both udns queries;
`End(k, p, n)` is the callback of query `p` with `n` records (0 also stands
for an error or a timeout), which on the last one chooses an address and calls
the client, who may close (`closes`); `Cancel` is `resolv_cancel` from
`close_and_free_server`. **ResolverPromise** is what both relays assume of it:
`TcpRelay`'s `dns` and `UdpRelay`'s `queries` are clients of that promise.

**ChunkAuth** (encrypt.c, `ss_gen_hash` and `ss_check_hash`). One action is
one iteration of the loop: `Copy` (a byte that does not end a chunk),
`Release`, `Mismatch`; `Recv` is the call, `Return` its end. A byte is a record
of its chunk and its place there, so a byte moved to the wrong place is seen.
It justifies what `TcpRelay` assumes with `held` and `Released`: of n units
received, some leave now and the others later.

**TicketAuth** (tls1.2_ticket.c) and **HttpObfs** (http_simple.c, for
`http_simple` and `http_post`) are the obfuscation plug-ins as pure operators.
A stream is a sequence of atoms: the parts of a flight, a record's head with
its length, a unit of data. Each of `TicketClientEncode`, `TicketClientDecode`,
`TicketServerEncode`, `TicketServerDecode`, and their namesakes of HttpObfs,
takes one end's local data and what it is given and yields the new local data,
what it hands on, whether it refuses and whether it wants to send back. The
server's half of the ticket plug-in also takes and yields the global data, the
set of ids of the hellos seen. Where the code draws lots (how a write is cut
into records) or reads memory it does not own, the operator yields a set.

**PluginPath** composes them with the cipher and the relay's callbacks, for
several connections. `client[c]` and `server[c]` are the two ends' plug-in
states, `up[c]` and `down[c]` what TCP carries, `got[c]` what the relay was
handed, `back[c]` what the client was, `ivCache` the cache of module Cache.

| code | actions |
|---|---|
| `server_recv_cb` to the end of `ss_decrypt` (server.c:664-760, encrypt.c:1330) | `ServerRecv`, with `Waits` ("incomplete header part 1"), `Deobfuscated`, `DecryptFirst`, `DecryptMore` |
| `remote_recv_cb`: `ss_encrypt`, `server_encode` | `RemoteRecv` |
| the program at the other end, not in this tree, which calls the plug-in's client halves | `ClientWrite`, `ClientRecv` (external) |

A client's first write is its request header with the IV before it, as
`ss_encrypt` makes it. A first read that leaves less than an IV makes
`ss_decrypt` subtract below zero (`Underflow`). What becomes of that is up to
`method`: OpenSSL's ciphers return an error, which ends the connection; for
salsa20, chacha20 and chacha20-ietf the result is a length to allocate
(encrypt.c:1382), and `ss_realloc` exits (utils.c:236): the status is "exit",
and no connection takes another step (`Running`). `cut` is history: it is set for a connection whose
handshake flight or head was not read in one piece, which the plug-ins do not
put up with. `presented` is history too: what `iv_cache` was asked, and what
it said.

**Frames** (verify.c and the client half of auth.c). The six protocol
plug-ins repeat one another's code with other constants, so there is one
model with the plug-in as a parameter, `proto`: `Overhead`, `Slack`,
`Padding`, `FirstSizes` and the like say what each of them puts there.
`PROJECT.json` maps each definition to the plug-in it is read from first.
`BeginPack`, `PackAuth`, `PackOne`, `EndPack` are one call of `pre_encrypt`
(entered, first frame, one turn of the loop, left); `Recv`, `TakeFrame`,
`RefuseFrame`, `Return` one call of `post_decrypt`. Lengths are the code's own.
A behaviour is a sequence of connections, each looked at in one direction, and
`global` (the pair of ids that all connections of a client share) lives on
through `NewConnection`. Of the `auth_*` plug-ins the tree has the client half
only; what it reads is packed by a server in the layout it reads.
`garbage` is the length a head seems to say under another key. `Char` is how the
platform's char has a byte (`CharSigned`), and `PackOverrun` the first frame of
a request whose name is so long that its head's length comes out negative.

## 3. What the runs check and show

| run | module, cfg | shows |
|---|---|---|
| relay_one | MCTcpRelay_one | one connection of every kind, with and without hashes, against any behaviour of client, target, resolver and timer: `Conserved` (both ways, read = sent + buffered at each moment), `OneWatcherPerDirection`, `WritersHaveData`, `NoOrphans`, `SlowTargetNotBlamed`, the refinement `ImplementsPipe` (prefixes, in order), and `EveryConnectionEnds` |
| relay_flow | MCTcpRelay_flow | fast open to a resolved name, whatever the SYN took: `UpInOrder`, and no lost wake-up: with accepting peers and no help from timers everything read is delivered (`Delivered`) and reading resumes (`ReadingResumes`) |
| relay_fastopen_literal | MCTcpRelay_tfo_literal | *violated*, `UpInOrder`: fast open to a literal address repeats the SYN's bytes (section 7) |
| relay_split_header | MCTcpRelay_split | *violated*, `SplitHeaderAccepted`: a valid header in two reads can be taken for an error |
| block_lists | MCBlockList_lists | `RulesMirrorList`, `RecencyOrder`, `UnblockedForCause`, `Forgotten`, the list below its capacity |
| udp_cache | MCUdpRelay_cache | with places that are used again: `CacheOwnsRemotes`, `ClientsKeptApart`, `AddressesKept` |
| udp_names | MCUdpRelay_names | *violated*, `NamesKept`: datagrams for one name go to another's address |
| udp_stale | MCUdpRelay_stale | *violated*, `PointersLive`: an answer uses a freed remote, or the one made since at its place |
| resolver | MCResolver | `RepliesFindCall`, `HandleIsPending`, `PreferenceKept`, the refinement `ImplementsPromise`, `CallsEnd` |
| chunks | MCChunkAuth | `WithinCapacity`, `ReleasedExactly`, `RefusedForCause` |
| plugins | MCPlugins | two connections with no plug-in, `http_simple`, `tls1.2_ticket_auth`, with and without `obfs_compatible`; one client is good, the other may have another key, a late clock, a host without a port, or not speak the plug-in; the cipher is OpenSSL's or libsodium's: `Intact`, `IvFresh`, `RefusedForCause`, `Served` |
| frames | MCFrames | the six framings with the code's lengths, both directions, this key and another, names in requests on both sides of the sign of a char: `OutFits`, `CapacitySuffices`, `OnlyGarbageRefused`, `DataIntact`, `IdsFresh`, `AllArrives` |

A few of these say more than their names:

- `WritersHaveData` shows that the branches of `server_send_cb` and
  `remote_send_cb` for an empty buffer, which close the connection, are dead
  code once a connection is established.
- `EveryConnectionEnds` (and the theorem `TimerNeverLost`) covers the states
  that nothing else gets a connection out of: STAGE_RESOLVE after `resolv_query` returned NULL
  (no watcher, no query), STAGE_ERROR with a client that neither sends nor
  closes, a connect that hangs.
- `UnblockedForCause` lists the four ways out of the block list that the code
  has. One of them, eviction, needs as many *other* addresses as the list
  holds to have been seen since, and the lookup that refuses an address counts
  as seeing it.
- `HandleIsPending` includes the case that a test hardly reaches: the client's
  callback closes the connection, whose close would cancel the very query that
  is calling back.
- `RulesMirrorList` also says that no command reaches a closed or absent shell
  before the exit.
- `IvFresh` counts what else was presented: every first read takes a place in
  `iv_cache`, also one under another key, so an IV is remembered until one less
  than the cache's limit of other keys have come, and no longer.
- `ClientsKeptApart` is about datagrams and about replies: whatever a socket has
  sent was for its own client, and a reply that comes by it goes to the client
  that sent to its source by it. The formula excepts sockets that a query used
  after its own remote was freed (`strayed`): that such a query may send by, and
  so draw replies to, another client's socket is what udp_stale shows.
- `RefusedForCause` of the plug-ins says that no connection pays for another's
  client, but for the repetition of its IV, and that a good client that is
  refused had a flight cut by TCP or met the stray byte of `Intact`. The point of
  encrypt.c:1363, where `ss_decrypt` takes an IV from fewer bytes than it has, is
  reached only by a cut, or by a client that is at fault itself. With a cipher of
  libsodium that point is the end of the process and of everybody's connections;
  the second conjunct says what this takes: a plug-in, and a cut flight. `Served`
  promises nothing once the process has exited.
- `OutFits` has an exception too, for names that make `get_head_size` negative
  (section 7), and its second conjunct says that nothing else overruns the buffer.
- `Intact` allows for one wrong unit: the last number of a URL can be three
  characters long and is read from a copy of two bytes that nothing terminates
  (http_simple.c:93). With a digit behind it in memory (`StrayHex`) one byte of
  the IV or header is wrong, and nothing else.
- `CapacitySuffices` holds under another key as well: the length in a head is
  below 8192 or refused, so what waits for a frame's rest and a read together
  stay under 16 KiB.

## 4. Bounds, and why they are enough

| bound | value | why |
|---|---|---|
| `Conns` (relay) | 1 | connections share only `fast_open` (and the block list, modelled apart); `ConnectResults` may find it cleared at any step, which is all that another connection can do |
| `IvLen`, `HdrLen`, `BufSize` | 1, 3, 6 | the header can be cut after each unit, in INIT (which needs IV + 2) and in HANDSHAKE; a buffer holds IV, header and payload, or less than one burst |
| `MaxUp`, `MaxDown` | 9, 3 | payload up to five units: more than one refill of a buffer, and every way to cut it into partial sends; the target's side repeats the same pattern with fewer |
| `Spurious` | FALSE in the passing runs | an EAGAIN of a readable socket re-arms the timer of a streaming connection and does nothing else, so for ever many of them would only hide what ends a connection; the same states are reached with TRUE, as in the violated runs, and the theorems hold for both |
| `Addrs`, `Capacity` | 4, 3 | the list holds at most two entries, so two others suffice to evict |
| `MaxTries`, `MaxAge`, `MaxConns` | 2, 1, 1 | MALFORMED (1) stays below the limit twice and passes on the third, MALICIOUS (8) passes at once; one tick is within MaxAge, two are beyond |
| `Clients`, addresses, names | 2; 2 IPv4 + 1 IPv6; 2 | both families; udp_cache has one address for both names, which makes them alike, and udp_names an address for each; the key of a client has three values, so one client alone fills and evicts |
| `Remotes`, `Queries` | 3, 2 (udp_stale: 1) | the cache holds two remotes, and a third is made before one of them is evicted; the freed place can be used again at once, or stay free, while a query points to it |
| `Calls`, `MaxRecords` | 2, 2 | calls do not share state in resolv.c; two records give replies with more than one address of a family |
| `ClenBytes`, `AuthBytes`, `BufSize`, plans | 2, 3, 6; up to 3 chunks of 0, 1 or 4 bytes | a header that can be cut in and after its length field; chunks that are empty, shorter and longer than a piece; several in a piece and one in several |
| plugins: `Conns`, `Ivs`, `IvCapacity` | 2, 2, 2 | the cache remembers one key, so a second connection repeats an IV or evicts the first's |
| plugins: `FirstWrite`, `MaxUnits`, `MaxReplies`, `ReplySizes` | 2, 3, 2 and 0, 1 and 2 | a first write that is more than its header can be, and one after it, which may meet the handshake before, in or after it; the answer in one piece or in two; the second connection is there for what the two share |
| plugins: `Methods` | both | libsodium only with a plug-in and two good clients: it differs in what becomes of a cut flight, and nothing else |
| plugins: `MaxCuts` | 1 | one read of the run ends anywhere, all others bring all that has arrived: one cut reaches every flight, head and record |
| plugins: `HelloLength`, `ReplyLength`, `ReplyLeast`, `FinishLength`, `SplitOver` | 4, 3, 2, 3, 1 | each flight can be cut before, in and after what is checked of it; a write of more than one unit may become several records |
| frames: `SendSizes`, `ReadSizes` | 1, 450, 4500; 700, 2010 | both sides of the padding's thresholds (400, 1300) and of a full frame, a write of three frames; reads that end in a frame, and one or three bytes into the next |
| frames: `NameLengths`, `CharSigned` | 127, 128, 255; TRUE | the longest name with a positive length, the one whose length is -128, and -1, which gives a head of 3 bytes; where char is unsigned 128 is a length like 127, and the theorems hold for both |
| frames: `Paddings` | 0, 1, 128, 513, 1024 | padding at the edge of the one-byte form, one of auth_aes128 behind the escape, and the longest |
| frames: `GarbageLengths` | 6, 700, 8191, 8192 | both sides of both limits, and one that waits for more |
| frames: `IdMask`, `IdLimit`, `MaxWrites`, `MaxConns` | 1, 2, 2, 3 | ids pass their limit and start afresh within three connections |

All counters are bounded by these constants in the guards, not by a constraint
on states. Only udp_cache uses symmetry, and it checks invariants only.
Deadlock is checked in the relay, block list, UDP, resolver and chunk models,
each of which has a `Done` step for the states in which the program has ended.
In `Frames` and `PluginPath` it is not: there the bounds (writes, connections,
replies) are what stops them. `AllArrives` and `Served` say that they do not
stop too early.

## 5. Fairness, and why the code justifies it

- `FlowSpec` (relay_flow): weak fairness of `RemoteSend`, `ServerSend` and of
  the resolver's answer. libev is level-triggered and calls an active write
  watcher as long as its socket is writable; a writable socket takes at least
  one byte; `resolv_timeout_cb` drives udns, which answers or gives up. Reading
  is *not* fair: a peer need not send. Timers are not fair either, so delivery
  does not hide behind a connection being closed by its timer.
- `TimedSpec` (relay_one): weak fairness of the timer and of its callback
  only. Peers and resolver may be silent for ever. The amount of data is
  bounded, so "a timer fires" means "once traffic stops", which is what the
  code promises: each read and write re-arms the timer.
- `RunningSpec` (block_lists): time passes and the repeating 30 s timer runs.
- `FairSpec` (plugins): what has arrived is read at both ends, and the client's
  program makes its writes. The target need not answer.
- `FairSpec` (frames): a call that was entered runs to its end, and a readable
  socket is read.
- `FairSpec` (resolver): each udns query ends, by a reply or after its retries.

The UDP model has no fairness: its properties are safety properties, and a
remote that keeps getting traffic never ends, by design.

## 6. What is proved, from what, and how

The proofs hold for every value of the constants that satisfies the module's
named assumption (`RelayAssumption`, `UdpAssumption`, `BlockListAssumption`,
`ResolverAssumption`, `ChunkAssumption`, `TicketAssumption` and
`PathAssumption`, `ConstantsAssumption` of Frames). They say what the code, its
constants and its callers fix: kinds of requests, positive sizes, a cache limit of
at least 2, a name's length in one byte (0 to 255, with a char of either sign),
reads of at most 8192 bytes, a null pointer that is no object.
Nothing else is assumed.

**TcpRelayProofs**: `TypesHold`, `WatchersExclude`, `WritersFed`,
`ObjectsTogether`, `TimerNeverLost`. The properties are not inductive one by
one: that a direction has one watcher after `Resolved` depends on what a
RESOLVE connection had before, that a send callback has data depends on which
branch armed it, and both depend on there being no remote without a server.
`Control(s, m, q)` says for one connection what its stage implies for its
watchers, its remote, its query and its buffers; `ControlInv` is `TypeOK` and
`Control` of every connection. Each callback changes one connection, so there
is one lemma per callback, stated about the two records and reduced to facts
about record updates; `Shutdown`, which changes all, has its own.

**TcpRelayProofs**, second part: `NothingLost`, `PayloadInOrder`, `SlowTargetsExcused`
and `RelayIsPipes`, the refinement of `BytePipe`. `DataInv` adds to `ControlInv`
what a connection's buffers hold: `EarlyData` ties the INIT and HANDSHAKE
buffers to the units read; `UpData` says that read = sent + waiting from the
request on, and that the unit at `array + idx` of a buffer to be flushed is the
one after the last sent; `DownData` the same of the way back; `BlameData` that
only a client which was closed before a byte of it went on is suspicious. The
control part is needed at each step: that `RecvStream` may overwrite the
remote's buffer follows from "send" not being armed. Every callback is shown to
make one connection `Moved`: to begin anew, or to go on with counts that grow,
into records for which `Data` holds; the invariant and the refinement both
follow from that. `Conserved` and `SlowTargetNotBlamed` hold unconditionally.
`PayloadInOrder` and `RelayIsPipes` assume `NoRepeat`, that fast open is off or
no request has a literal address: with both, the copy at server.c:1055 repeats
bytes (section 7), and the theorems would be false. The condition guards just
the two conjuncts of `UpData` that speak of order; relay_one (no fast open) and
relay_flow (names only) satisfy it.

**CacheProofs**: lemmas on the operators of `Cache`: a cache stays `Sound`
(its order total, its keys finite) under every operator, what an operator does
to the keys and to their order, and that a nonempty cache has an oldest entry,
and that the one just inserted is not it; and that an eviction takes a key all
the others come after, out of a cache that is then as full as it gets.

**UdpRelayProofs**: `TypesHold`, `RemotesOwned`, `ClientsApart`,
`AddressesHold`, up to the first use of freed memory, where `phase` becomes
"undefined". That each remote is in the cache under the key its own fields
give (`CacheOwnsRemotes`) rests on the lemmas of `CacheProofs`: an eviction
takes an entry other than the new one, and frees its remote. That a socket sends
for its own client needs `Pointers`: the pointer of a query that is not in `lost`
leads to a live remote of the query's own client with family AF_UNSPEC. Whoever
frees a place puts the queries that point to it in `lost` (`Orphans`), and only a
place that is not live is given out, so a query outside `lost` cannot find another
remote at its place. One inside `lost` can, and then marks it `strayed`: about
those sockets the theorems promise nothing, which is the exception that
`ClientsKeptApart` and `AddressesKept` spell out and `PointersLive` refutes.
`Kinds` says why addresses are kept though names are not: a remote made for an
address is pointed to by no query but a lost one, so no other answer overwrites
its `dst`.

**BlockListProofs**: `ListBounded`, `RulesFollowList`, `ListInOrderOfUse`.
The invariant joins the size of the list, the totality of its order, one rule
per entry, the shell open for as long as there is a chain to write to, and the
agreement of the order with `seen`. Totality is needed for
the other parts: without an oldest entry an eviction would be a no-op and the
list would exceed its limit, or it could take the entry it was to make room
for, and the rule just added would be deleted.
`UnblockedOnlyForCause` is about steps: which of them may let a blocked address
go. It needs `Ages`, that the age of an entry is the time since the address was
last seen, so that a clearing takes only those past `MaxAge`; and it counts:
when an insertion evicts, what is left in the list is `Capacity` - 1 other
addresses (`EvictedOldest`), and the order says that each was seen since.

**PluginPathProofs**: `ReplaysRefused`, which speaks of the whole history of
`iv_cache`. `InOrder` says that a key later in the cache's order was presented
after every presentation of an earlier one, and `Forgotten` that of a key no
longer in it `IvCapacity` - 1 others were presented since. An eviction turns
the first into the second: all that stay come after the one that goes.

`UnitsIntact` and `PathTypesHold` rest on `PathInv`, which says of each
connection what lies between what was written and what was handed over.
`Span(v, a, b)` is the plaintext between two places, and what is on its way is,
by the state of the two ends:

- the span itself, with no plug-in or a client that does not speak it, or once
  the head of http_simple is through (`PlainOpening`, `Ongoing`);
- the span with the head of a request around the part that stands in the URL
  (`IsHeaded`), or behind the head of an answer (`IsAnswer`), of which a read
  without the blank line may have thrown away a beginning;
- the span cut into whole records (`Framed`), in the client's `sendBuf` until
  the handshake is through, then behind the finish, then across `recvBuf` and
  the stream (`TicketOpening`, `TicketDown`).

A read splits the stream anywhere. `Reads` collects what is known before it,
and the lemmas on the decoders give one of three outcomes (`Outcome`): it hands
over exactly the next span and leaves the rest in one of the shapes above
(`Passes`), it gives what is no IV at the beginning, so that the connection is
closed (`Fails`), or it answers the hello (`Greets`). A client under another
plug-in and `obfs_compatible` are cases of the same lemmas. A connection that
has ended need not keep the shapes, so `PathInv` keeps only `Delivered` for it,
what was handed over before. `TypeOK` needs the same invariant: which statuses
a decoder can be called in is decided by what can arrive.

`EndsForCause` (`RefusedForCause`) asks for more than `PathInv` says. That a
decoder `Fails` is no fault of the model there; here it has to be somebody's.
`CauseInv` adds, for each open connection (`Shaken`):

- `Learnt`: a server that has not replied has seen no hello of this connection
  in `global`, so that its hello is no repetition; one that has replied knows
  its client's id and no other, so that the finish is accepted;
- `Queued`: the first record that waits in `sendBuf` for the handshake, or that
  follows the finish, is the client's first write. It holds the whole IV, and a
  finish that is read with it is long enough for the check of the cipher;
- `Whole`: the server's reply comes to the client in one piece, and once, unless
  `cut` says that TCP cut it.

And, across connections, `KeysKnown`: an IV that `iv_cache` holds was shown by
a connection whose IV it is. Without it "repeated" could be nobody's doing. A
first read then has three outcomes. It was cut off (`Faulty`), which `cut`
records in the step itself; or the client lacks the key, is late, does not
speak the plug-in or named a host that is not listed, or the stray byte of
`Intact` spoilt its IV, all of which `Excused` names; or it starts well (`StartsWell`), what it hands over is the IV that its client
drew, and only another connection with that IV can have put it into the cache
(`DecryptCause`). That the process exits on a cut flight only is `NothingIsCut`: a
read in one piece that the plug-in understands hands on the IV and more behind
it, whoever its client is, and one it does not understand is handed on whole.
Once a server has the IV, no later read can be refused: the
shapes of `PathInv` leave no `Fails` (`ServerReadsCause`), and the client gives
up only on a reply that `cut` says was cut (`ClientReadsCause`).

Two definitions recurse over data: `Unpack` takes the records off a buffer, and
`Records` gives all ways a write may be cut. Both are recursive functions,
unfolded like the one of `ChunkAuth`, by the existence and the uniqueness of a
function with their equations (`UnpackExists`, `UnpackAgrees`, `CutExists`).
`Framed` is the least relation that holds of nothing and is closed under a
record more in front; what its lemmas need is that the first record of framed
data can be taken off (`First`).

**ResolverProofs**: `TypesHold`, `NoReplyAfterFree`, `HandlesSafe`,
`AnswerByPreference`, and `PromiseKept`, the refinement of `ResolverPromise`.
`Call(...)` ties a call's stage, queries, responses, records, handle and fate
together; the preference follows from "a response of a family exists exactly
if that query had records", independent of the order of arrival.

**ChunkAuthProofs**: `TypesHold`, `StaysInside`, `PayloadExact`,
`RefusedOnlyForCause`. For the second the interesting part is
`Room`: the end of what is still to be read may *move up* when a chunk that
began in an earlier piece is put back. Its data from earlier pieces is
`cidx - AuthBytes` bytes that were never in this buffer; `Room` says that they
fit as well, and it holds because `server->buf` was enlarged by `chunk->len`
*before* the loop, when that length is the one of the unfinished chunk.

The last two rest on `Track`, which says of every byte in the two buffers which
byte of the client's stream it is: `chunk->buf` holds the beginning of chunk
`counter` + 1, what is left in `buf` is the stream from the place read so far,
and what was released together with what `buf` begins with is the payload of
the first `counter` chunks. One lemma per step keeps it; `PlacedAt` is the one
that needs the order of `memmove` and `memcpy`. `NextByte` then says that a
byte read is the one the chunk lacks, wherever the pieces were cut, so that a
hash can fail only for the chunk the client spoiled. The stream is defined by
flattening a sequence of chunks; that flattening one chunk more appends it
(`FlattenMore`) is proved by induction on their number. The library states
induction with an operator as a parameter, which no prover here can
instantiate; `Induct` derives it for *sets* of numbers from the
well-foundedness of `<`, and the recursive function is unfolded by showing that
there is exactly one function with its equations (`FlatExists`, `FlatAgrees`).

**FramesProofs**: `PackingFits`, `ReceivingFits`, `EndsAgree`, `DataKept`,
`IdsNeverRepeat`. `PackingFits` needs what a write's frames can cost in the
worst case: the invariant says that what is in the buffer and the cost of what
is left never exceed twice the write and the slack. A full frame's overhead is
paid by the second half of the doubled length; the first and the last frame,
whose padding can be longer than their data, are paid from the slack. That holds
of the first frame for every head that is not negative, and `HeadBounds` shows
which are: `HeadSizes` gives a negative one for a name of 128 to 251 bytes where
char is signed, and for nothing else (`NoOverrun`). `ReceivingFits` needs
that between calls the buffer holds less than one frame, and that the length
of that frame passed the limit. `EndsAgree` and `DataKept` share an invariant
that ties the reader's place and number to the frames packed: they lie end to
end, in length limits that hold for each plug-in's largest draw, with
`id` equal to the place. `IdsNeverRepeat` orders the pairs issued.

Only model-checked:

- liveness under fairness (`EveryConnectionEnds`, `Delivered`,
  `ReadingResumes`, `Forgotten`, `CallsEnd`, `Served`, `AllArrives`), which the
  prover does not support. Every invariant and every action property of the
  runs that pass is proved.

## 7. Where the code and its own words disagree

| where | what | run |
|---|---|---|
| server.c:1055 | "should handle buffer carefully" says the line above, and the rest of a fast open to a literal address is copied from `array`, not from `array + idx` as in server.c:1223: the target gets the SYN's bytes twice and never gets the tail | relay_fastopen_literal |
| server.c:800 | "handle incomplete header part 2": collects the parts in `header_buf` and then judges only the last part; a byte from the middle of the header is read as an address type | relay_split_header |
| udprelay.c:623 | the mismatch detection compares headers, but `dst_addr` is overwritten by another name's answer while the header stays | udp_names |
| udprelay.c:579 | a query's pointer to a remote is used after the remote's timer or an eviction has freed it; when the place has been given to a new remote since, the datagram leaves by that one's socket, and its replies go to that one's client | udp_stale |

Other things met while modelling, for which nothing in the repository says
otherwise, or whose outcome is outside the program. They are in the models
unless it says "not modelled":

- acl.c:257: `free_block_list` closes the shell without setting `shell_stdin`
  to NULL and then clears the list, whose callback writes to the closed stream.
  `RulesMirrorList` is claimed up to there.
- acl.c:232: where neither firewalld nor iptables works, `mode` stays
  NO_FIREWALL_MODE but the shell is open, and removing an entry runs a command
  buffer that was never formatted (`Firewall = "unusable"`, set by no run).
- tls1.2_ticket.c:509 and 399: the hello and the reply are judged by the length
  of one read; a handshake that TCP cuts is refused, not waited for.
- server.c:670 waits for more bytes until there is an IV and a bit, but compares
  before the plug-in shortens the buffer; what is left may be shorter than an
  IV, and encrypt.c:1363 subtracts from it all the same. OpenSSL's ciphers fail
  on the length that comes out; for salsa20, chacha20 and chacha20-ietf twice
  that length is allocated (encrypt.c:1382), `ss_realloc` exits (utils.c:236),
  and one client's cut flight ends every connection.
- http_simple.c:124: the host is taken up to the next colon of the head. A host
  written without a port swallows the line after it and matches no name in
  `obfs_param`, so with a list of hosts a client of port 80 is refused.
- http_simple.c:482: the data behind a head that came in several reads is
  counted with the length of the last read. No run gets there: a first read that
  ends inside the head hands on nothing, and the connection ends in `ss_decrypt`
  (table and rc4, which have no IV, are not modelled). http_simple.c:93: see
  `Intact`.
- list.c:282: `have_same_cmp` has its answer the wrong way round. The list is
  made for each connection and holds at most one id, for which it does no harm.
- server.c:753 sets `protocol_compatible_state`, which nothing reads;
  server.c:1287 asks `obfs_compatible_state` in its place (not modelled: the
  protocol plug-ins are not composed with the path).
- obfsutil.c:10: the length of a name is read from a char; where that is signed,
  a name of 128 to 251 bytes gives a negative head size. It passes the comparison
  at auth.c:144, and `pack_auth_data` hands it to `memmove` as a huge length.
  `PackOverrun` is that step and `OutFits` says that only such a name leads to
  it. `ss_server` calls no client half, so it is not exposed itself; server.c:264
  reads the same length from a `uint8_t`.

The models keep these behaviours. The passing runs show what holds
*nevertheless*: relay_one runs without fast open; udp_cache stops a behaviour
where freed memory is used and checks addresses, not names.

## 8. What is not modelled

- *Protocol plug-ins in the path.* `Frames` is checked by itself, from the
  packer to the reader, and not between `ss_decrypt` and the relay. The server
  halves of the `auth_*` plug-ins are not in the tree. The datagram halves of
  auth_aes128 (auth.c:923-993) keep no state.
- *Plug-ins in TcpRelay.* There a plug-in passes data or refuses, which closes
  like a closed socket. A plug-in that holds data back for a later read appears
  only as chunk hashes do, which hold back the beginning of a chunk (`held`); what
  a plug-in does inside is in `PluginPath`.
- *The ciphers*, which are libraries, and `ss_encrypt_all`, `ss_decrypt_all` (one
  datagram each, whose IV `iv_cache` does not see; no state between datagrams).
- *Sniffing, rules, access list matching.* Pure functions; their verdict is a
  constant (`Acl`) or a choice.
- *Statistics to a manager*, option parsing, privileges, logging: no state
  that anything here depends on. `getpeername` failing in `report_addr` and
  `reset_addr`, which then do nothing, is left out.
- *Memory that is leaked but not used again* (responses of a cancelled call,
  contexts at exit): no later step can tell.
- *Build scripts, workflows, web pages, packaging, patches, configurations.*
  Sequential steps over state that is not in the repository (a build tree, the
  kernel, Docker, uci) or plain data. Candidates that have steps and state of
  their own: MAC banning on a schedule, partition expansion, first-boot
  resizing.

## 9. The plan

In order of importance:

1. Done: TcpRelay with BytePipe and its control proof; Cache; BlockList;
   Resolver with ResolverPromise; UdpRelay; ChunkAuth; the IV replay cache, the
   obfuscation plug-ins' handshakes and their path (PluginPath); the framing of
   the protocol plug-ins; the proofs of section 6.
2. The protocol plug-ins in `PluginPath`, between the cipher and the relay, and
   then `PluginPath` as what `TcpRelay` assumes of a plug-in.
3. A composition of `TcpRelay` and `BlockList`: reports and resets by actual
   connections rather than by a counter.
4. The UDP header's parser (an IPv6 literal, udprelay.c:260).

Each new run is to ask a question no present run asks; where one comes to
cover another's, the older one is dropped. Instances stay below some hundred
thousand states.
