----------------------------- MODULE PluginPath -----------------------------
(***************************************************************************)
(* What a connection's bytes pass through between the socket and the       *)
(* request header: the obfuscation plug-in and the stream cipher with its  *)
(* cache of used IVs (server_recv_cb and remote_recv_cb of server.c,       *)
(* obfs.c, ss_encrypt and ss_decrypt of encrypt.c).                        *)
(*                                                                         *)
(* The client end is the plug-ins' client half; when it is called is up to *)
(* a program that is not in this tree.  An IV is one atom, and so is each  *)
(* unit of data; the first unit stands for the whole request header, whose *)
(* parser is modelled in TcpRelay.                                         *)
(***************************************************************************)
EXTENDS TicketAuth, HttpObfs, Cache

CONSTANTS Conns,
          Plugins,        \* values of the option obfs
          Methods,        \* who does the cipher: "openssl", or "sodium" (SALSA20 and on)
          Peers,          \* the clients there are: [key, late, host, speaks]
          Ivs,            \* initialisation vectors
          IvCapacity,     \* entries of iv_cache, 256 in the code
          FirstWrite,     \* units of the first write of a client
          MaxUnits,       \* units a client sends
          MaxReplies,     \* units the target answers on each connection
          ReplySizes,     \* units of answer read at a time
          MaxCuts         \* reads that leave part of what has arrived

ObfsNames == {"origin", "plain", "http_simple", "http_post", "tls1.2_ticket_auth"}

ASSUME PathAssumption ==
    /\ Plugins \subseteq ObfsNames /\ Methods \subseteq {"openssl", "sodium"}
    /\ MaxUnits \in Nat /\ FirstWrite \in 2..MaxUnits /\ MaxReplies \in [Conns -> Nat] /\ MaxCuts \in Nat
    /\ IvCapacity \in Nat \ {0, 1} /\ Ivs \subseteq Nat /\ ReplySizes \subseteq Nat \ {0}

VARIABLES
    plugin, compatible, method,   \* the server's options
    peer, ivOf,           \* the client of each connection, and its IV
    client,               \* [tls, http, units]: the client's end
    server,               \* [tls, http, buf, init, plainSpoken, sealed]
    global,               \* the plug-in's data of each connection
    up, down,             \* atoms sent and not yet read
    got, back,            \* units handed to the relay, and to the client
    replied,              \* units the target has sent
    ivCache, presented,   \* iv_cache; history: what it was asked, [iv, ok]
    status,               \* "open", or why a connection ended; "exit" is the
                          \* end of the process and so of all of them
    cut,                  \* history: a flight was not read in one piece
    cuts                  \* reads that left a part (bound)

conf     == <<plugin, compatible, method, peer, ivOf>>
upward   == <<up, got>>
downward == <<down, back, replied>>
crypto   == <<ivCache, presented>>
vars     == <<conf, client, server, global, upward, downward, crypto, status, cut, cuts>>

\* new_obfs_class: what a name stands for; no class for the first two
NewObfsClass(name) ==
    IF name \in {"origin", "plain"} THEN "none"
    ELSE IF name \in {"http_simple", "http_post"} THEN "http" ELSE "tls"
class == NewObfsClass(plugin)

IvLen == 1
Iv(c) == Mark("iv", ivOf[c])
Units(from, n) == [i \in 1..n |-> Mark("data", from + i)]

Global_Shared(c) == CHOOSE d \in Conns : TRUE                        \* fault

\* init_data is called for every connection that is accepted
Global(c) == c

-----------------------------------------------------------------------------
(* The client. *)

Obfuscated(c, data) ==
    IF ~peer[c].speaks \/ class = "none" THEN {[client |-> client[c], out |-> data]}
    ELSE IF class = "http"
    THEN {[client |-> [client[c] EXCEPT !.http = e.local], out |-> e.out] :
             e \in HttpClientEncode(client[c].http, data)}
    ELSE {[client |-> [client[c] EXCEPT !.tls = e.local], out |-> e.out] :
             e \in TicketClientEncode(client[c].tls, c, data)}

\* a write of the application: its first is preceded by the IV
ClientWrite(c) ==
    LET n == client[c].units
    IN /\ status[c] = "open" /\ n < MaxUnits
       /\ \E e \in Obfuscated(c, IF n = 0 THEN <<Iv(c)>> \o Units(0, FirstWrite)
                                 ELSE Units(n, MaxUnits - n)) :
          /\ client' = [client EXCEPT ![c] = [e.client EXCEPT
                !.units = IF n = 0 THEN FirstWrite ELSE MaxUnits]]
          /\ up' = [up EXCEPT ![c] = @ \o e.out]
    /\ UNCHANGED <<conf, server, global, got, downward, crypto, status, cut>>

\* what a client takes out of the stream: the IV first, then data
Taken(c, out) ==
    back' = [back EXCEPT ![c] = @ \o
               IF out # <<>> /\ out[1].t = "iv" THEN SubSeq(out, 2, Len(out)) ELSE out]

ClientRecv(c, k) ==
    LET piece == SubSeq(down[c], 1, k)
        l     == client[c]
        d     == TicketClientDecode(l.tls, c, piece, peer[c].key)
        h     == HttpClientDecode(l.http, piece)
    IN /\ status[c] = "open"
       /\ down' = [down EXCEPT ![c] = SubSeq(@, k + 1, Len(@))]
       /\ cut' = [cut EXCEPT ![c] = @ \/ /\ k < Len(down[c]) /\ peer[c].speaks
                                          /\ \/ class = "tls" /\ l.tls.status # 8
                                             \/ class = "http" /\ ~h.local.recvHeader
                                                /\ piece[k] = EndMark[1]]
       /\ \/ /\ class = "none" \/ ~peer[c].speaks
             /\ Taken(c, piece)
             /\ UNCHANGED <<client, up, status>>
          \/ /\ class = "http" /\ peer[c].speaks
             /\ client' = [client EXCEPT ![c].http = h.local]
             /\ Taken(c, h.out)
             /\ UNCHANGED <<up, status>>
          \/ /\ class = "tls" /\ peer[c].speaks /\ ~d.ok
             /\ status' = [status EXCEPT ![c] = "left"]
             /\ UNCHANGED <<client, up, back>>
          \/ /\ class = "tls" /\ peer[c].speaks /\ d.ok /\ ~d.back
             /\ client' = [client EXCEPT ![c].tls = d.local]
             /\ Taken(c, d.out)
             /\ UNCHANGED <<up, status>>
          \/ /\ class = "tls" /\ peer[c].speaks /\ d.ok /\ d.back
             /\ \E e \in TicketClientEncode(d.local, c, <<>>) :
                /\ client' = [client EXCEPT ![c].tls = e.local]
                /\ up' = [up EXCEPT ![c] = @ \o e.out]
             /\ UNCHANGED <<back, status>>
    /\ UNCHANGED <<conf, server, global, got, replied, crypto>>

-----------------------------------------------------------------------------
(* server_recv_cb. *)

\* server_decode of the plug-in the connection has
Deobfuscated(c, piece) ==
    LET s == server[c]
    IN IF class = "none"
       THEN {[server |-> s, global |-> global, out |-> piece, ok |-> TRUE, back |-> FALSE]}
       ELSE IF class = "http"
       THEN {[server |-> [s EXCEPT !.http = d.local], global |-> global, out |-> d.out,
              ok |-> d.ok, back |-> FALSE] : d \in HttpServerDecode(s.http, piece, peer[c])}
       ELSE LET d == TicketServerDecode(s.tls, global[Global(c)], piece, peer[c])
            IN {[server |-> [s EXCEPT !.tls = d.local],
                 global |-> [global EXCEPT ![Global(c)] = d.global],
                 out |-> d.out, ok |-> d.ok, back |-> d.back]}

\* the first bytes a connection decrypts are its IV; the buffer still holds the
\* read when the plug-in gave nothing
IvKey(out, piece) == IF out = <<>> THEN SubSeq(piece, 1, 2) ELSE <<out[1]>>

IvSeen_Never(key) == FALSE                                           \* fault
IvSeen(key) == key \in CacheKeys(ivCache)

Checked(key) ==
    /\ presented' = Append(presented, [iv |-> key, ok |-> ~IvSeen(key)])
    /\ ivCache' = IF IvSeen(key) THEN Touched(ivCache, key)
                  ELSE Inserted(ivCache, key, "used", IvCapacity)

\* Fewer bytes than an IV has: the number of those behind it goes below 0.  That
\* is an error to OpenSSL; for libsodium twice as many bytes are asked of
\* ss_realloc, which exits when there are no more.
Underflow == IF method = "sodium" THEN "exit" ELSE "short"

\* ss_decrypt and what follows it: a repeated IV is an error; another key, or
\* what is not an IV, gives noise; a header of no bytes is not looked at further
DecryptFirst(c, out, piece) ==
    LET key == IvKey(out, piece)
    IN /\ Checked(key)
       /\ status' = [status EXCEPT ![c] =
             IF IvSeen(key) THEN "repeated"
             ELSE IF Len(out) < IvLen THEN Underflow
             ELSE IF out[1].t # "iv" \/ ~peer[c].key THEN "noise"
             ELSE IF Len(out) = IvLen THEN "noHeader" ELSE "open"]
       /\ got' = [got EXCEPT ![c] =
             IF status'[c] = "open" THEN SubSeq(out, IvLen + 1, Len(out)) ELSE @]

DecryptMore(c, out) ==
    /\ got' = [got EXCEPT ![c] = @ \o out]
    /\ UNCHANGED <<crypto, status>>

\* whether a read has all of the flight it begins with (for the properties)
InOnePiece(c, piece) ==
    LET n == FinishLength + 1
        HeadMarks == 4
    IN \/ ~peer[c].speaks \/ class = "none" \/ server[c].init
       \/ class = "http" /\ EndAt(piece) # 0 /\ Len(piece) > HeadMarks + IvLen
       \/ class = "tls" /\ IF server[c].tls.status = 3
                            THEN Len(piece) >= n /\ Len(piece) >= n + piece[n].v
                            ELSE Len(piece) = HelloLength

\* handle incomplete header part 1
Waits(c, piece) == ~server[c].init /\ Len(piece) <= IvLen + 1

ServerRecv(c, k) ==
    LET piece == server[c].buf \o SubSeq(up[c], 1, k)
    IN /\ status[c] = "open"
       /\ up' = [up EXCEPT ![c] = SubSeq(@, k + 1, Len(@))]
       /\ \/ /\ Waits(c, piece)
             /\ server' = [server EXCEPT ![c].buf = piece]
             /\ UNCHANGED <<global, got, down, crypto, status, cut>>
          \/ /\ ~Waits(c, piece)
             /\ cut' = [cut EXCEPT ![c] = @ \/ ~InOnePiece(c, piece)]
             /\ \E d \in Deobfuscated(c, piece) :
                LET seen == [d.server EXCEPT !.buf = <<>>, !.init = TRUE,
                                             !.plainSpoken = @ \/ ~d.ok]
                    out  == IF d.ok THEN d.out ELSE piece
                IN /\ global' = d.global
                   /\ \/ /\ ~d.ok /\ ~compatible
                         /\ status' = [status EXCEPT ![c] = "refused"]
                         /\ UNCHANGED <<server, got, down, crypto>>
                      \/ /\ d.back
                         /\ \E e \in TicketServerEncode(d.server.tls, d.global[Global(c)], <<>>) :
                            /\ server' = [server EXCEPT ![c] =
                                  [d.server EXCEPT !.tls = e.local, !.buf = <<>>]]
                            /\ down' = [down EXCEPT ![c] = @ \o e.out]
                         /\ UNCHANGED <<got, crypto, status>>
                      \/ /\ d.ok \/ compatible
                         /\ ~d.back
                         /\ server' = [server EXCEPT ![c] = seen]
                         /\ IF server[c].init THEN DecryptMore(c, out)
                            ELSE DecryptFirst(c, out, piece)
                         /\ UNCHANGED down
    /\ UNCHANGED <<conf, client, back, replied>>

-----------------------------------------------------------------------------
(* remote_recv_cb: n units of the target's answer are encrypted, behind the *)
(* server's IV if they are the first, and obfuscated, unless the client was *)
(* found not to speak the plug-in.                                          *)
Reobfuscated(c, data) ==
    LET s == server[c]
    IN IF class = "none" \/ s.plainSpoken THEN {[server |-> s, out |-> data]}
       ELSE IF class = "http"
       THEN LET e == HttpServerEncode(s.http, data)
            IN {[server |-> [s EXCEPT !.http = e.local], out |-> e.out]}
       ELSE {[server |-> [s EXCEPT !.tls = e.local], out |-> e.out] :
                e \in TicketServerEncode(s.tls, global[Global(c)], data)}

\* ss_encrypt
Encrypted(c, data) == IF server[c].sealed THEN data ELSE <<Mark("iv", 0)>> \o data

RemoteRecv(c, n) ==
    /\ status[c] = "open" /\ got[c] # <<>>
    /\ replied[c] + n <= MaxReplies[c]
    /\ replied' = [replied EXCEPT ![c] = @ + n]
    /\ \E e \in Reobfuscated(c, Encrypted(c, Units(replied[c], n))) :
       /\ server' = [server EXCEPT ![c] = [e.server EXCEPT !.sealed = TRUE]]
       /\ down' = [down EXCEPT ![c] = @ \o e.out]
    /\ UNCHANGED <<conf, client, global, upward, back, crypto, status, cut>>

-----------------------------------------------------------------------------
Init ==
    /\ plugin \in Plugins /\ compatible \in BOOLEAN /\ method \in Methods
    /\ peer \in [Conns -> Peers] /\ ivOf \in [Conns -> Ivs]
    /\ client = [c \in Conns |-> [tls |-> NewTicket, http |-> NewHttp, units |-> 0]]
    /\ server = [c \in Conns |-> [tls |-> NewTicket, http |-> NewHttp, buf |-> <<>>,
                                  init |-> FALSE, plainSpoken |-> FALSE, sealed |-> FALSE]]
    /\ global = [c \in Conns |-> NewTicketGlobal]
    /\ up = [c \in Conns |-> <<>>] /\ down = [c \in Conns |-> <<>>]
    /\ got = [c \in Conns |-> <<>>] /\ back = [c \in Conns |-> <<>>]
    /\ replied = [c \in Conns |-> 0]
    /\ ivCache = EmptyCache /\ presented = <<>>
    /\ status = [c \in Conns |-> "open"] /\ cut = [c \in Conns |-> FALSE]
    /\ cuts = 0


\* a read brings everything that has arrived or, MaxCuts times, a part of it
Read(stream, Recv(_)) ==
    \/ stream # <<>> /\ Recv(Len(stream)) /\ UNCHANGED cuts
    \/ cuts < MaxCuts /\ cuts' = cuts + 1 /\ \E k \in 1..(Len(stream) - 1) : Recv(k)

ServerReads(c) == Read(up[c], LAMBDA k : ServerRecv(c, k))
ClientReads(c) == Read(down[c], LAMBDA k : ClientRecv(c, k))
Writes(c)      == ClientWrite(c) /\ UNCHANGED cuts
Replies(c)     == (\E n \in ReplySizes : RemoteRecv(c, n)) /\ UNCHANGED cuts

\* no connection has made the process exit
Running == \A c \in Conns : status[c] # "exit"

Next ==
    /\ Running
    /\ \E c \in Conns : Writes(c) \/ ServerReads(c) \/ ClientReads(c) \/ Replies(c)

Spec == Init /\ [][Next]_vars

\* the event loop serves what has arrived, and the client's program goes on
Fairness ==
    WF_vars(Running /\ \E c \in Conns : Writes(c) \/ ServerReads(c) \/ ClientReads(c))
FairSpec == Spec /\ Fairness

-----------------------------------------------------------------------------
(* Properties. *)

AtomType == [t : {"iv", "data", "bad", "head", "get", "host", "end", "ok"}, v : Nat]
            \cup [t : {"hello", "reply", "finish"}, v : Nat, c : Conns]

\* the shapes of the state
TypeOK ==
    /\ plugin \in Plugins /\ compatible \in BOOLEAN /\ method \in Methods
    /\ peer \in [Conns -> Peers] /\ ivOf \in [Conns -> Ivs]
    /\ \A c \in Conns :
        /\ client[c].tls.status \in {0, 1, 8} /\ server[c].tls.status \in {0, 2, 3, 8}
        /\ client[c].units \in {0, FirstWrite, MaxUnits} /\ replied[c] \in 0..MaxReplies[c]
        /\ up[c] \in Seq(AtomType) /\ down[c] \in Seq(AtomType)
        /\ got[c] \in Seq(AtomType) /\ back[c] \in Seq(AtomType)
        /\ server[c].buf \in Seq(AtomType)
        /\ Cardinality(global[c].ids) <= 1
        /\ status[c] \in {"open", "refused", "left", "repeated", "short", "noise", "noHeader",
                          "exit"}
    /\ Cardinality(CacheKeys(ivCache)) < IvCapacity
    /\ cuts \in 0..MaxCuts

\* The units a client wrote reach the relay once each and in order, and so do
\* the target's answers the client, however TCP cuts the streams, the plug-in
\* cuts its records, and flights and data share a read.  Only the one byte at
\* the end of a URL may come out wrong, when heap memory has a digit behind it.
Intact ==
    \A c \in Conns :
        /\ Len(got[c]) <= client[c].units
        /\ \A i \in 1..Len(got[c]) :
              got[c][i] \in {Mark("data", i)} \cup IF StrayHex THEN {Mark("bad", i)} ELSE {}
        /\ \A i, j \in 1..Len(got[c]) : got[c][i].t = "bad" /\ got[c][j].t = "bad" => i = j
        /\ back[c] = Units(0, Len(back[c])) /\ Len(back[c]) <= replied[c]

\* An IV is not accepted again before as many other keys were presented as make
\* the cache forget it (what is no IV takes up room in the cache as well).
IvFresh ==
    \A p \in 1..Len(presented) : presented[p].ok =>
        \A q \in 1..(p - 1) : presented[q].iv = presented[p].iv =>
            Cardinality({presented[r].iv : r \in (q + 1)..(p - 1)}) >= IvCapacity - 1

\* why a connection may end before it has served its client
Excused(c) ==
    \/ cut[c] \/ ~peer[c].key
    \/ class # "none" /\ ~peer[c].speaks /\ ~compatible
    \/ class = "tls" /\ peer[c].late /\ peer[c].speaks
    \/ class = "http" /\ peer[c].host # "listed" /\ peer[c].speaks
    \/ class = "http" /\ StrayHex /\ status[c] = "noise"
    \/ status[c] = "repeated" /\ \E d \in Conns \ {c} : ivOf[d] = ivOf[c]

\* A connection is ended only for something its own client did or its own path
\* did to a flight: never for what another connection's client did (but the
\* repetition of its IV), and never because reads and writes of its data after
\* the handshake, or its own handshake and data, came together or apart.  The
\* end of the process ends all connections: it takes a cipher of libsodium, a
\* plug-in and a flight of one connection that was cut.
RefusedForCause ==
    \A c \in Conns :
        /\ status[c] # "open" => Excused(c)
        /\ status[c] = "exit" => method = "sodium" /\ class # "none" /\ cut[c]

\* A client whose flights were not cut, and which is not refused, has all its
\* units relayed and gets all the answers, whichever plug-in stands between,
\* unless the process has exited.
Served ==
    \A c \in Conns :
        <>[](\/ status[c] # "open" \/ cut[c] \/ ~Running
             \/ Len(got[c]) = MaxUnits /\ Len(back[c]) = replied[c])
=============================================================================
