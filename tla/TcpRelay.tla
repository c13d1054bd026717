------------------------------- MODULE TcpRelay -------------------------------
(***************************************************************************)
(* The TCP half of ss-server (server.c): one libev loop, no threads.  A    *)
(* connection is a server_t (the client's socket) and, once the request    *)
(* header is known, a remote_t (the target's socket).  Each action below   *)
(* is one libev callback run to its end.  What the kernel, the client, the *)
(* target and the resolver answer is chosen with \E.                       *)
(*                                                                         *)
(* Bytes are counted in units.  A client's stream is the units 1, 2, 3...: *)
(* IvLen units of IV, HdrLen units of request header, then payload.  A     *)
(* buffer_t is [base, idx, len]: base is the number of the unit at         *)
(* array[0], idx and len are the fields of the C structure.                *)
(*                                                                         *)
(* An operator marked "fault" is a seeded defect.  Nothing uses it: it     *)
(* stands in for the operator after it when the properties are tested.     *)
(***************************************************************************)
EXTENDS Integers, Sequences, FiniteSets

CONSTANTS
    Conns,      \* connection slots
    Requests,   \* what a client may ask: a set of [kind, auth]
    FastOpen,   \* --fast-open was given and compiled in
    IvLen,      \* enc_get_iv_len(), in units
    HdrLen,     \* length of a request header, in units
    BufSize,    \* BUF_SIZE, in units
    MaxUp,      \* bound: units a client sends on one connection
    MaxDown,    \* bound: units a target sends on one connection
    Spurious    \* a readable socket may answer EAGAIN

RequestKinds == {"literal", "name", "badname", "malformed"}

ASSUME RelayAssumption ==
    /\ Requests \subseteq [kind : RequestKinds, auth : BOOLEAN]
    /\ FastOpen \in BOOLEAN
    /\ Spurious \in BOOLEAN
    /\ IvLen \in Nat
    /\ HdrLen \in Nat \ {0}
    /\ BufSize \in Nat \ {0}
    /\ MaxUp \in Nat
    /\ MaxDown \in Nat
    /\ IvLen + 1 < BufSize      \* the INIT stage can always read on

VARIABLES
    srv,        \* server_t of each connection
    rem,        \* remote_t of each connection
    dns,        \* connections a resolver query will call back
    wire,       \* what went over the sockets (history) and the client's request
    fastOpen,   \* the global fast_open
    phase       \* the main loop: running, stopping (ev_unloop called), stopped

vars == <<srv, rem, dns, wire, fastOpen, phase>>

-----------------------------------------------------------------------------
(* Buffers and the records of a connection. *)

Buf(b, i, n) == [base |-> b, idx |-> i, len |-> n]
NoBytes == Buf(0, 0, 0)

\* the n units of b that send(array + from, n) puts on the wire
Units(b, from, n) == [i \in 1..n |-> b.base + from + i - 1]

\* b once n more of its units are sent: idx += n, len -= n
AdvanceKeepsIdx(b, n) == [b EXCEPT !.len = @ - n]   \* fault
Advanced(b, n) == [b EXCEPT !.idx = @ + n, !.len = @ - n]

\* b after a first send() from the start of the array took n units: the
\* rest waits at idx; a buffer sent whole keeps its len
SendKeepsLen(b, n) == IF n < b.len THEN Buf(b.base, n, b.len) ELSE b   \* fault
SendKeepsIdx(b, n) == IF n < b.len THEN Buf(b.base, 0, b.len - n) ELSE b   \* fault
AfterSend(b, n) == IF n < b.len THEN Buf(b.base, n, b.len - n) ELSE b

\* ev_io_stop on the reader and ev_io_start on the writer when a send() was
\* not complete, and the reader's ev_io_start when the rest is out
PausedNever(io, blocked) == io   \* fault
Paused(io, blocked) == IF blocked THEN io \ {"recv"} ELSE io
ArmedAlways(io, blocked) == io \cup {"send"}   \* fault
ArmedNever(io, blocked) == io   \* fault
Armed(io, blocked) == IF blocked THEN io \cup {"send"} ELSE io
ResumedNever(io) == io   \* fault
Resumed(io) == io \cup {"recv"}

HdrStart == IvLen + 1               \* first unit of the request header
HdrEnd == IvLen + HdrLen            \* last unit of the request header

NoServer == [stage |-> "FREE", query |-> FALSE, io |-> {}, timer |-> "off",
             buf |-> NoBytes, hdr |-> 0, held |-> 0, auth |-> FALSE]

NoRemote == [state |-> "none", linked |-> FALSE, io |-> {}, buf |-> NoBytes]

NewServer == [NoServer EXCEPT !.stage = "INIT", !.io = {"recv"}, !.timer = "armed",
                              !.buf = Buf(1, 0, 0)]

NewWire(q) == [req |-> q, got |-> 0, up |-> <<>>, rgot |-> 0, down |-> <<>>,
               blame |-> {}]

Init ==
    /\ srv = [c \in Conns |-> NoServer]
    /\ rem = [c \in Conns |-> NoRemote]
    /\ dns = {}
    /\ wire \in [Conns -> {NewWire(q) : q \in Requests}]
    /\ fastOpen = FastOpen
    /\ phase = "running"

\* sizes recv() can return: INIT reads behind what it has, the others from array
FromClient(c) ==
    LET room == IF srv[c].stage = "INIT" THEN BufSize - srv[c].buf.len ELSE BufSize
    IN  {r \in 1..room : wire[c].got + r <= MaxUp}
FromTarget(c) == {r \in 1..BufSize : wire[c].rgot + r <= MaxDown}

-----------------------------------------------------------------------------
(* Closing.  close_and_free_server cancels an outstanding query, stops the   *)
(* server's watchers and timer and unlinks the remote; close_and_free_remote *)
(* stops the remote's watchers and unlinks the server.                       *)

Linked(c) == rem[c].state # "none"      \* server->remote is set

ServerClosed(c) == [srv EXCEPT ![c] = NoServer]
QueryLeft(c) == dns   \* fault
QueryCancelled(c) == IF srv[c].query THEN dns \ {c} ELSE dns

\* close_and_free_server alone, once there is no query
CloseServer(c) ==
    /\ srv' = ServerClosed(c)
    /\ rem' = IF Linked(c) THEN [rem EXCEPT ![c].linked = FALSE] ELSE rem

CloseBoth(c) ==
    /\ srv' = ServerClosed(c)
    /\ dns' = QueryCancelled(c)
    /\ rem' = [rem EXCEPT ![c] = NoRemote]

\* report_addr: the client's address goes to the block list with this level
Blamed(w, level) == [w EXCEPT !.blame = @ \cup {level}]

Report(c, level) == wire' = [wire EXCEPT ![c] = Blamed(@, level)]

-----------------------------------------------------------------------------
(* accept_cb: a client that passed the access lists. *)

Accept(c) ==
    /\ srv[c].stage = "FREE"
    /\ srv' = [srv EXCEPT ![c] = NewServer]
    /\ \E q \in Requests : wire' = [wire EXCEPT ![c] = NewWire(q)]
    /\ UNCHANGED <<rem, dns, fastOpen>>

-----------------------------------------------------------------------------
(* connect_to_remote: what it may answer when the server's buffer holds n    *)
(* payload units.  ok: a remote_t; sent: units that left with the SYN; fo:   *)
(* the new value of fast_open (cleared when the kernel does not support it). *)

ConnectResults(n) ==
    [ok : {FALSE}, sent : {0}, fo : {fastOpen, FALSE}]
    \cup IF fastOpen
         THEN [ok : {TRUE}, sent : 0..n, fo : {TRUE}]
              \cup [ok : {TRUE}, sent : {0}, fo : {FALSE}]
         ELSE [ok : {TRUE}, sent : {0}, fo : {FALSE}]

\* The remote_t linked to the server: payload still in sb moves to the
\* remote's buffer, copied from array + from.
\* fault
LinkedFromStart(sb, from) ==
    [state |-> "connecting", linked |-> TRUE, io |-> {"send"},
     buf |-> IF sb.len > 0 THEN Buf(sb.base, 0, sb.len) ELSE NoBytes]
\* fault
LinkedEmpty(sb, from) ==
    [state |-> "connecting", linked |-> TRUE, io |-> {"send"}, buf |-> NoBytes]
LinkedRemote(sb, from) ==
    [state |-> "connecting", linked |-> TRUE, io |-> {"send"},
     buf |-> IF sb.len > 0 THEN Buf(sb.base + from, 0, sb.len) ELSE NoBytes]

Drained(sb) == IF sb.len > 0 THEN Buf(sb.base, 0, 0) ELSE sb

\* server_recv_cb, literal address: connect now; the copy starts at array
ConnectDirect(c, s, w, sb) ==
    \E o \in ConnectResults(sb.len) :
        /\ fastOpen' = o.fo
        /\ dns' = dns
        /\ LET left == Advanced(sb, o.sent) IN
           IF ~o.ok
           THEN CloseServer(c) /\ wire' = [wire EXCEPT ![c] = w]
           ELSE /\ srv' = [srv EXCEPT ![c] = [s EXCEPT !.stage = "PARSE", !.io = {},
                                                       !.buf = Drained(left)]]
                /\ rem' = [rem EXCEPT ![c] = LinkedRemote(left, 0)]
                /\ wire' = [wire EXCEPT ![c] =
                               [w EXCEPT !.up = @ \o Units(sb, sb.idx, o.sent)]]

\* server_recv_cb, host name: ask the resolver and stop reading.  The query
\* may be refused at once (resolv_query returns NULL): nothing calls back.
AskResolver(c, s, w, sb) ==
    \E accepted \in BOOLEAN :
        /\ srv' = [srv EXCEPT ![c] = [s EXCEPT !.stage = "RESOLVE", !.io = {},
                                               !.query = accepted, !.buf = sb]]
        /\ dns' = IF accepted THEN dns \cup {c} ELSE dns
        /\ wire' = [wire EXCEPT ![c] = w]
        /\ UNCHANGED <<rem, fastOpen>>

-----------------------------------------------------------------------------
(* server_recv_cb up to the request: INIT waits for IV + 2 units, HANDSHAKE  *)
(* for the rest of the header, PARSE connects or resolves.                   *)

\* is_header_complete(b): 1, 0 or -1.  It reads the address type from the
\* first unit of b; when b does not start at the header that unit is any byte.
HeaderVerdicts(q, b) ==
    IF b.base # HdrStart THEN {-1, 0, 1}
    ELSE IF q.kind = "malformed" THEN {-1}
    ELSE IF b.len >= HdrLen THEN {1} ELSE {0}

\* The units ss_check_hash lets through of n received with those it holds.
ReleasedOneMore(q, n) == IF q.auth THEN 0..n ELSE {n + 1}   \* fault
Released(q, n) == IF q.auth THEN 0..n ELSE {n}

\* STAGE_PARSE: b is the plain text from the header on, s and w the records
\* so far.  A refused request closes the server alone: there is no remote.
Refuse(c, w) ==
    /\ CloseServer(c)
    /\ wire' = [wire EXCEPT ![c] = w]
    /\ UNCHANGED <<dns, fastOpen>>

HandleRequest(c, s, w, b) ==
    LET payload == b.len - HdrLen
        AsPayload(k) == Buf(b.base + HdrLen, 0, k)
        Parsed(k) == [s EXCEPT !.hdr = 0, !.auth = w.req.auth, !.held = payload - k]
    IN  \/ /\ b.len < HdrLen
           /\ Refuse(c, Blamed(w, "MALFORMED"))
        \/ /\ b.len >= HdrLen
           /\ \/ /\ w.req.auth                   \* header or first chunk hash
                 /\ Refuse(c, Blamed(w, "BAD"))
              \/ /\ w.req.kind = "name"          \* outbound block list
                 /\ Refuse(c, w)
              \/ /\ w.req.kind = "badname"
                 /\ Refuse(c, Blamed(w, "MALFORMED"))
              \/ /\ w.req.kind = "literal"
                 /\ \E k \in Released(w.req, payload) :
                        ConnectDirect(c, Parsed(k), w, AsPayload(k))
              \/ /\ w.req.kind = "name"
                 /\ \E k \in Released(w.req, payload) :
                        AskResolver(c, Parsed(k), w, AsPayload(k))

\* STAGE_HANDSHAKE: append b to header_buf, then judge b
HandshakeStep(c, s, w, b) ==
    \E verdict \in HeaderVerdicts(w.req, b) :
        IF verdict = 1
        THEN HandleRequest(c, s, w, Buf(HdrStart, 0, s.hdr + b.len))
        ELSE /\ srv' = [srv EXCEPT ![c] =
                   [s EXCEPT !.stage = IF verdict = -1 THEN "ERROR" ELSE "HANDSHAKE",
                             !.hdr = @ + b.len, !.buf = Buf(0, 0, 0)]]
             /\ wire' = [wire EXCEPT ![c] = w]
             /\ UNCHANGED <<rem, dns, fastOpen>>

\* STAGE_INIT after decryption: b starts at the header
InitStep(c, s, w, b) ==
    \E verdict \in HeaderVerdicts(w.req, b) :
        \/ /\ verdict = 1
           /\ HandleRequest(c, s, w, b)
        \/ /\ verdict = -1
           /\ srv' = [srv EXCEPT ![c] = [s EXCEPT !.stage = "ERROR", !.buf = NoBytes]]
           /\ wire' = [wire EXCEPT ![c] = Blamed(w, "MALFORMED")]
           /\ UNCHANGED <<rem, dns, fastOpen>>
        \/ /\ verdict = 0
           /\ HandshakeStep(c, s, w, b)

Received(c, r) == [wire[c] EXCEPT !.got = @ + r]

RecvInit(c) ==
    /\ "recv" \in srv[c].io
    /\ srv[c].stage = "INIT"
    /\ \E r \in FromClient(c) :
           LET total == srv[c].buf.len + r IN
           IF total <= IvLen + 1
           THEN /\ srv' = [srv EXCEPT ![c].buf.len = total]
                /\ wire' = [wire EXCEPT ![c] = Received(c, r)]
                /\ UNCHANGED <<rem, dns, fastOpen>>
           ELSE InitStep(c, srv[c], Received(c, r), Buf(HdrStart, 0, total - IvLen))

RecvHandshake(c) ==
    /\ "recv" \in srv[c].io
    /\ srv[c].stage = "HANDSHAKE"
    /\ \E r \in FromClient(c) :
           HandshakeStep(c, srv[c], Received(c, r), Buf(wire[c].got + 1, 0, r))

\* STAGE_ERROR: read and drop, until the timer closes the connection
RecvDrop(c) ==
    /\ "recv" \in srv[c].io
    /\ srv[c].stage = "ERROR"
    /\ \E r \in FromClient(c) : wire' = [wire EXCEPT ![c] = Received(c, r)]
    /\ srv' = [srv EXCEPT ![c].buf = NoBytes]
    /\ UNCHANGED <<rem, dns, fastOpen>>

-----------------------------------------------------------------------------
(* server_recv_cb in STAGE_STREAM: read into the remote's buffer and send it *)
(* on at once; what the target's socket refuses waits for remote_send_cb.    *)

RecvStream(c) ==
    /\ "recv" \in srv[c].io
    /\ srv[c].stage = "STREAM"
    /\ \E r \in FromClient(c) :
       \E k \in Released(wire[c].req, srv[c].held + r) :
       \E n \in 0..k :
           LET b == Buf(wire[c].got - srv[c].held + 1, rem[c].buf.idx, k)
               blocked == n < k
           IN  /\ rem' = [rem EXCEPT ![c].buf = AfterSend(b, n),
                                     ![c].io = Armed(@, blocked)]
               /\ srv' = [srv EXCEPT ![c].timer = "armed",
                                     ![c].held = @ + r - k,
                                     ![c].io = Paused(@, blocked)]
               /\ wire' = [wire EXCEPT ![c] = [Received(c, r) EXCEPT
                                                 !.up = @ \o Units(b, 0, n)]]
    /\ UNCHANGED <<dns, fastOpen>>

\* a chunk whose hash is wrong
RecvBadChunk(c) ==
    /\ "recv" \in srv[c].io
    /\ srv[c].stage = "STREAM"
    /\ srv[c].auth
    /\ FromClient(c) # {}
    /\ Report(c, "BAD")
    /\ CloseBoth(c)
    /\ UNCHANGED fastOpen

\* ss_decrypt fails: an IV seen before, or the cipher refuses
RecvUndecipherable(c) ==
    /\ "recv" \in srv[c].io
    /\ srv[c].stage # "ERROR"
    /\ \E r \in FromClient(c) :
           srv[c].stage = "INIT" => srv[c].buf.len + r > IvLen + 1
    /\ Report(c, "MALICIOUS")
    /\ CloseBoth(c)
    /\ UNCHANGED fastOpen

\* the client closed or reset its socket, a plugin refused what it sent, or
\* send() to the target failed
RecvClose(c) ==
    /\ "recv" \in srv[c].io
    /\ CloseBoth(c)
    /\ UNCHANGED <<wire, fastOpen>>

\* EAGAIN: the timer of a streaming connection was re-armed before recv()
RecvAgain(c) ==
    /\ Spurious
    /\ "recv" \in srv[c].io
    /\ srv[c].stage = "STREAM"
    /\ srv' = [srv EXCEPT ![c].timer = "armed"]
    /\ UNCHANGED <<rem, dns, wire, fastOpen>>

-----------------------------------------------------------------------------
(* server_resolve_cb: the resolver's only answer to a query.  The stage      *)
(* stays RESOLVE while the connect is under way.                             *)

ResolveFailed(c) ==
    /\ c \in dns
    /\ CloseServer(c)
    /\ dns' = dns \ {c}
    /\ UNCHANGED <<wire, fastOpen>>

Resolved(c) ==
    /\ c \in dns
    /\ dns' = dns \ {c}
    /\ LET sb == srv[c].buf IN
       \E o \in ConnectResults(sb.len) :
           LET left == Advanced(sb, o.sent) IN
           /\ fastOpen' = o.fo
           /\ IF ~o.ok
              THEN CloseServer(c) /\ UNCHANGED wire
              ELSE /\ srv' = [srv EXCEPT ![c].query = FALSE, ![c].buf = Drained(left)]
                   /\ rem' = [rem EXCEPT ![c] = LinkedRemote(left, left.idx)]
                   /\ wire' = [wire EXCEPT ![c].up =
                                  @ \o Units(sb, sb.idx, o.sent)]

-----------------------------------------------------------------------------
(* remote_send_cb: the target's socket is writable. *)

\* getpeername fails (not connected), or send() does
RemoteSendFails(c) ==
    /\ "send" \in rem[c].io
    /\ CloseBoth(c)
    /\ UNCHANGED <<wire, fastOpen>>

RemoteSend(c) ==
    /\ "send" \in rem[c].io
    /\ LET b == rem[c].buf
           Streaming(s) == [s EXCEPT !.stage = "STREAM", !.io = Resumed(@)]
           Flushed(m) == [m EXCEPT !.state = "connected",
                                   !.io = IF srv[c].stage = "STREAM" THEN @ \ {"send"}
                                          ELSE Resumed(@ \ {"send"})]
           \* reset_addr once the connection to the target is established
           Cleared(w) == IF rem[c].state = "connecting"
                         THEN [w EXCEPT !.blame = {}] ELSE w
           Sent(w, n) == [w EXCEPT !.up = @ \o Units(b, b.idx, n)]
       IN  IF b.len = 0
           THEN IF rem[c].state = "connecting"
                THEN /\ rem' = [rem EXCEPT ![c] = Flushed(@)]
                     /\ srv' = [srv EXCEPT ![c] = Streaming(@)]
                     /\ wire' = [wire EXCEPT ![c] = Cleared(@)]
                     /\ UNCHANGED dns
                ELSE CloseBoth(c) /\ UNCHANGED wire
           ELSE \E n \in 0..b.len :
                /\ wire' = [wire EXCEPT ![c] = Sent(Cleared(@), n)]
                /\ UNCHANGED dns
                /\ IF n < b.len
                   THEN /\ rem' = [rem EXCEPT ![c].state = "connected",
                                              ![c].buf = Advanced(b, n)]
                        /\ UNCHANGED srv
                   ELSE /\ rem' = [rem EXCEPT ![c] =
                                       [Flushed(@) EXCEPT !.buf = Buf(b.base, 0, 0)]]
                        /\ srv' = [srv EXCEPT ![c] = Streaming(@)]
    /\ UNCHANGED fastOpen

-----------------------------------------------------------------------------
(* remote_recv_cb and server_send_cb: the way back, through server->buf. *)

RemoteRecv(c) ==
    /\ "recv" \in rem[c].io
    /\ \E r \in FromTarget(c) : \E n \in 0..r :
           LET b == Buf(wire[c].rgot + 1, srv[c].buf.idx, r)
               blocked == n < r
           IN  /\ srv' = [srv EXCEPT ![c].timer = "armed",
                                     ![c].buf = AfterSend(b, n),
                                     ![c].io = Armed(@, blocked)]
               /\ rem' = [rem EXCEPT ![c].io = Paused(@, blocked)]
               /\ wire' = [wire EXCEPT ![c].rgot = @ + r,
                                       ![c].down = @ \o Units(b, 0, n)]
    /\ UNCHANGED <<dns, fastOpen>>

\* the target closed or reset its socket, or send() to the client failed
RemoteRecvClose(c) ==
    /\ "recv" \in rem[c].io
    /\ CloseBoth(c)
    /\ UNCHANGED <<wire, fastOpen>>

RemoteRecvAgain(c) ==
    /\ Spurious
    /\ "recv" \in rem[c].io
    /\ srv' = [srv EXCEPT ![c].timer = "armed"]
    /\ UNCHANGED <<rem, dns, wire, fastOpen>>

ServerSendFails(c) ==
    /\ "send" \in srv[c].io
    /\ CloseBoth(c)
    /\ UNCHANGED <<wire, fastOpen>>

ServerSend(c) ==
    /\ "send" \in srv[c].io
    /\ LET b == srv[c].buf IN
       IF rem[c].state = "none" \/ b.len = 0
       THEN CloseBoth(c) /\ UNCHANGED wire
       ELSE \E n \in 0..b.len :
            /\ wire' = [wire EXCEPT ![c].down = @ \o Units(b, b.idx, n)]
            /\ UNCHANGED dns
            /\ IF n < b.len
               THEN srv' = [srv EXCEPT ![c].buf = Advanced(b, n)] /\ UNCHANGED rem
               ELSE /\ srv' = [srv EXCEPT ![c].buf = Buf(b.base, 0, 0),
                                          ![c].io = @ \ {"send"}]
                    /\ rem' = [rem EXCEPT ![c].io = Resumed(@)]
    /\ UNCHANGED fastOpen

-----------------------------------------------------------------------------
(* Timers and the end of the program. *)

\* the timeout of the connection elapses with no callback re-arming it
\* fault
TimerExpiresIdle(c) ==
    /\ srv[c].timer = "armed" /\ ~srv[c].query
    /\ srv' = [srv EXCEPT ![c].timer = "due"]
    /\ UNCHANGED <<rem, dns, wire, fastOpen>>

TimerExpires(c) ==
    /\ srv[c].timer = "armed"
    /\ srv' = [srv EXCEPT ![c].timer = "due"]
    /\ UNCHANGED <<rem, dns, wire, fastOpen>>

\* server_timeout_cb reports a client whose stage is below STAGE_PARSE
BelowStream == {"ERROR", "INIT", "HANDSHAKE", "PARSE"}   \* fault
BelowParse == {"ERROR", "INIT", "HANDSHAKE"}

Timeout(c) ==
    /\ srv[c].timer = "due"
    /\ IF srv[c].stage \in BelowParse
       THEN Report(c, "SUSPICIOUS")
       ELSE UNCHANGED wire
    /\ CloseBoth(c)
    /\ UNCHANGED fastOpen

\* SIGINT or SIGTERM: the loop ends after the callbacks already pending
Signal ==
    /\ phase = "running"
    /\ phase' = "stopping"
    /\ UNCHANGED <<srv, rem, dns, wire, fastOpen>>

\* after ev_run: free_connections closes each server, then its remote
Shutdown ==
    /\ phase = "stopping"
    /\ phase' = "stopped"
    /\ srv' = [c \in Conns |-> NoServer]
    /\ rem' = [c \in Conns |-> IF srv[c].stage = "FREE" THEN rem[c] ELSE NoRemote]
    /\ dns' = {c \in dns : ~srv[c].query}
    /\ UNCHANGED <<wire, fastOpen>>

ClientSide(c) ==
    \/ RecvInit(c) \/ RecvHandshake(c) \/ RecvDrop(c) \/ RecvStream(c)
    \/ RecvBadChunk(c) \/ RecvUndecipherable(c) \/ RecvClose(c) \/ RecvAgain(c)
    \/ ServerSend(c) \/ ServerSendFails(c)

TargetSide(c) ==
    \/ RemoteSend(c) \/ RemoteSendFails(c)
    \/ RemoteRecv(c) \/ RemoteRecvClose(c) \/ RemoteRecvAgain(c)

Callback(c) ==
    \/ Accept(c) \/ ClientSide(c) \/ TargetSide(c)
    \/ ResolveFailed(c) \/ Resolved(c)
    \/ TimerExpires(c) \/ Timeout(c)

Done == phase = "stopped" /\ UNCHANGED vars

Next ==
    \/ /\ phase # "stopped"
       /\ UNCHANGED phase
       /\ \E c \in Conns : Callback(c)
    \/ Signal
    \/ Shutdown
    \/ Done

Spec == Init /\ [][Next]_vars

-----------------------------------------------------------------------------
(* Properties. *)

Buffers == [base : Int, idx : Nat, len : Nat]
Stages == {"FREE", "ERROR", "INIT", "HANDSHAKE", "PARSE", "RESOLVE", "STREAM"}
Watchers == SUBSET {"recv", "send"}
Levels == {"MALFORMED", "BAD", "SUSPICIOUS", "MALICIOUS"}

ServerRecords == [stage : Stages, query : BOOLEAN, io : Watchers,
                  timer : {"off", "armed", "due"}, buf : Buffers,
                  hdr : Nat, held : Nat, auth : BOOLEAN]
RemoteRecords == [state : {"none", "connecting", "connected"}, linked : BOOLEAN,
                  io : Watchers, buf : Buffers]
WireRecords == [req : Requests, got : 0..MaxUp, up : Seq(Int),
                rgot : 0..MaxDown, down : Seq(Int), blame : SUBSET Levels]

\* Every variable has the shape the C structures give it.
TypeOK ==
    /\ srv \in [Conns -> ServerRecords]
    /\ rem \in [Conns -> RemoteRecords]
    /\ dns \subseteq Conns
    /\ wire \in [Conns -> WireRecords]
    /\ fastOpen \in BOOLEAN
    /\ phase \in {"running", "stopping", "stopped"}

Open(c) == srv[c].stage # "FREE"

\* What the target has been sent is the client's payload from its first unit
\* on, in order, with nothing skipped or sent twice, however reads, partial
\* sends and the connect interleave (server_recv_cb, remote_send_cb).
UpInOrder ==
    \A c \in Conns : wire[c].up = [i \in 1..Len(wire[c].up) |-> HdrEnd + i]

\* Units read from the client and not yet sent to the target.  A buffer
\* whose watcher is idle is spent: its len is stale.
Backlog(c) ==
    srv[c].held +
    IF ~Linked(c) THEN srv[c].buf.len
    ELSE IF "send" \in rem[c].io THEN rem[c].buf.len ELSE 0

\* From the request on, every payload unit read from the client is sent or
\* still buffered, also while the resolver and the connect are under way; and
\* so is every unit of the answer.
Conserved ==
    \A c \in Conns :
        /\ srv[c].stage \in {"PARSE", "RESOLVE", "STREAM"} =>
               wire[c].got = HdrEnd + Len(wire[c].up) + Backlog(c)
        /\ srv[c].stage = "STREAM" =>
               wire[c].rgot = Len(wire[c].down) +
                              IF "send" \in srv[c].io THEN srv[c].buf.len ELSE 0

\* Back-pressure.  While streaming, each direction has exactly one of its two
\* watchers active: reading the source, or flushing to the destination.  Both
\* would overwrite a buffer being flushed; neither would stall the stream.
\* Before that, the client is read only until the request is known.
OneWatcherPerDirection ==
    \A c \in Conns :
        /\ srv[c].stage = "STREAM" =>
               /\ ("recv" \in srv[c].io) # ("send" \in rem[c].io)
               /\ ("recv" \in rem[c].io) # ("send" \in srv[c].io)
        /\ srv[c].stage \in {"PARSE", "RESOLVE"} => "recv" \notin srv[c].io
        /\ srv[c].stage # "STREAM" => "send" \notin srv[c].io /\ "recv" \notin rem[c].io

\* A write watcher of an established connection always has something to
\* write: the branches of the two send callbacks that close on an empty
\* buffer are never taken.
WritersHaveData ==
    \A c \in Conns :
        /\ "send" \in srv[c].io => srv[c].buf.len > 0
        /\ "send" \in rem[c].io /\ rem[c].state = "connected" => rem[c].buf.len > 0

\* Objects die together: a remote_t always has a live server_t pointing to it
\* and back, and the resolver only holds queries of a live server_t that is
\* waiting for that query, so its callback never runs on a freed server.
NoOrphans ==
    \A c \in Conns :
        /\ Linked(c) => rem[c].linked /\ Open(c)
        /\ c \in dns <=> srv[c].query
        /\ srv[c].query => srv[c].stage = "RESOLVE" /\ ~Linked(c)

\* A connection is never without its timer, whatever path it took: the timer
\* is what ends one whose resolver query was refused at once.
AlwaysTimed == \A c \in Conns : Open(c) <=> srv[c].timer # "off"

\* A client is blamed as suspicious for its own slow handshake only: not for a
\* slow target, once part of its payload has been sent on.
SlowTargetNotBlamed ==
    \A c \in Conns : wire[c].up # <<>> => "SUSPICIOUS" \notin wire[c].blame

\* A well-formed request is never taken for an erroneous one, however the
\* network splits its header ("handle incomplete header", server_recv_cb).
SplitHeaderAccepted ==
    \A c \in Conns :
        wire[c].req.kind \in {"literal", "name"} => srv[c].stage # "ERROR"

\* The abstract promise: a connection is two byte pipes.
Pipe == INSTANCE BytePipe WITH
    open <- [c \in Conns |-> Open(c)],
    read <- [c \in Conns |-> [up |-> IF wire[c].got > HdrEnd THEN wire[c].got - HdrEnd ELSE 0,
                              down |-> wire[c].rgot]],
    sent <- [c \in Conns |-> [up |-> [i \in 1..Len(wire[c].up) |-> wire[c].up[i] - HdrEnd],
                              down |-> wire[c].down]]

\* The relay implements the pipes.
ImplementsPipe == Pipe!Spec

-----------------------------------------------------------------------------
(* Liveness.  libev is level-triggered: an active write watcher is called    *)
(* while its socket is writable, and a writable socket takes at least one    *)
(* byte; the resolver answers or times out every query it accepted.          *)

Step(A) == phase # "stopped" /\ A /\ UNCHANGED phase

PeersAccept == \A c \in Conns :
    /\ WF_vars(Step(RemoteSend(c)))
    /\ WF_vars(Step(ServerSend(c)))
    /\ WF_vars(Step(ResolveFailed(c) \/ Resolved(c)))

TimersRun == \A c \in Conns :
    /\ WF_vars(Step(TimerExpires(c)))
    /\ WF_vars(Step(Timeout(c)))

\* While the peers accept data, without any help of a timer
FlowSpec == Spec /\ PeersAccept

\* With the connection timers, and peers that may accept nothing
TimedSpec == Spec /\ TimersRun

\* No wake-up is lost: a payload unit read from the client while streaming
\* reaches the target, and one of the answer the client, or the connection is
\* closed.
Delivered ==
    \A c \in Conns :
        /\ \A n \in 1..MaxUp :
              (srv[c].stage = "STREAM" /\ ~srv[c].auth /\ wire[c].got = HdrEnd + n)
                  ~> (Len(wire[c].up) >= n \/ ~Open(c))
        /\ \A n \in 1..MaxDown :
              (srv[c].stage = "STREAM" /\ wire[c].rgot = n)
                  ~> (Len(wire[c].down) >= n \/ ~Open(c))

\* Back-pressure is always released: reading resumes in both directions.
ReadingResumes ==
    \A c \in Conns :
        /\ srv[c].stage = "STREAM" ~> ("recv" \in srv[c].io \/ ~Open(c))
        /\ srv[c].stage = "STREAM" ~> ("recv" \in rem[c].io \/ ~Open(c))

\* Every connection whose traffic stops is closed by its timer, at whatever
\* stage it is: also in error, with a refused query or a peer that hangs.
EveryConnectionEnds == \A c \in Conns : Open(c) ~> ~Open(c)
=============================================================================
