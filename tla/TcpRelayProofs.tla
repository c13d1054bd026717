---------------------------- MODULE TcpRelayProofs ----------------------------
(***************************************************************************)
(* Proofs about TcpRelay, for every set of connections, every size of IV,  *)
(* header and buffer, and any amount of traffic.                           *)
(***************************************************************************)
EXTENDS TcpRelay, TLAPS

-----------------------------------------------------------------------------
(* Facts about buffers. *)

LEMMA BufferTypes ==
    /\ NoBytes \in Buffers
    /\ \A b \in Int, i, n \in Nat : Buf(b, i, n) \in Buffers
    /\ \A b \in Buffers : \A n \in 0..b.len :
           Advanced(b, n) \in Buffers /\ AfterSend(b, n) \in Buffers
    /\ \A b \in Buffers : Drained(b) \in Buffers
    /\ \A b \in Buffers, n \in Nat : LinkedRemote(b, n) \in RemoteRecords
<1>1. NoBytes \in Buffers
  BY DEF NoBytes, Buf, Buffers
<1>2. \A b \in Int, i, n \in Nat : Buf(b, i, n) \in Buffers
  BY DEF Buf, Buffers
<1>3. ASSUME NEW b \in Buffers, NEW n \in 0..b.len
      PROVE  Advanced(b, n) \in Buffers /\ AfterSend(b, n) \in Buffers
  <2>1. b.idx + n \in Nat /\ b.len - n \in Nat
    BY DEF Buffers
  <2>2. Advanced(b, n) \in Buffers
    BY <2>1 DEF Buffers, Advanced
  <2>3. AfterSend(b, n) \in Buffers
    BY <2>1 DEF Buffers, AfterSend, Buf
  <2> QED BY <2>2, <2>3
<1>4. \A b \in Buffers : Drained(b) \in Buffers
  BY DEF Drained, Buf, Buffers
<1>5. ASSUME NEW b \in Buffers, NEW n \in Nat
      PROVE  LinkedRemote(b, n) \in RemoteRecords
  <2>1. Buf(b.base + n, 0, b.len) \in Buffers
    BY DEF Buf, Buffers
  <2> QED BY <1>1, <2>1 DEF LinkedRemote, RemoteRecords, Watchers
<1> QED BY <1>1, <1>2, <1>3, <1>4, <1>5

LEMMA UnitsType ==
    ASSUME NEW b \in Buffers, NEW f \in Nat, NEW n \in Nat
    PROVE  Units(b, f, n) \in Seq(Int)
  BY DEF Units, Buffers

LEMMA AppendedUnits ==
    ASSUME NEW s \in Seq(Int), NEW b \in Buffers, NEW f \in Nat, NEW n \in Nat
    PROVE  s \o Units(b, f, n) \in Seq(Int)
  BY UnitsType
-----------------------------------------------------------------------------
(* The control invariant: what the stage of a connection says about its      *)
(* watchers, its timer, its query and its remote_t.                          *)

\* of a connection with server_t s and remote_t m; q: the resolver has a query
Control(s, m, q) ==
    /\ s.stage = "FREE" => s = NoServer /\ m = NoRemote
    /\ s.stage # "FREE" => s.timer # "off"
    /\ m.state = "none" => m = NoRemote
    /\ m.state # "none" => m.linked /\ s.stage \in {"PARSE", "RESOLVE", "STREAM"}
    /\ q <=> s.query
    /\ s.query => s.stage = "RESOLVE" /\ m.state = "none"
    /\ s.stage \in {"INIT", "HANDSHAKE", "ERROR"} => s.io = {"recv"}
    /\ s.stage \in {"PARSE", "RESOLVE"} => s.io = {}
    /\ s.stage # "STREAM" /\ m.state # "none" => m.io = {"send"}
    /\ s.stage = "PARSE" => m.state # "none"
    /\ s.stage = "STREAM" =>
           /\ m.state = "connected"
           /\ ("recv" \in s.io) # ("send" \in m.io)
           /\ ("recv" \in m.io) # ("send" \in s.io)
    /\ "send" \in s.io => s.buf.len > 0
    /\ "send" \in m.io /\ m.state = "connected" => m.buf.len > 0

ControlInv == TypeOK /\ \A c \in Conns : Control(srv[c], rem[c], c \in dns)

LEMMA RecordTypes ==
    /\ NoServer \in ServerRecords
    /\ NewServer \in ServerRecords
    /\ NoRemote \in RemoteRecords
    /\ \A q \in Requests : NewWire(q) \in WireRecords
<1>1. NoServer \in ServerRecords
  BY BufferTypes DEF NoServer, ServerRecords, Watchers, Stages
<1>2. NewServer \in ServerRecords
  <2>1. Buf(1, 0, 0) \in Buffers
    BY BufferTypes
  <2> QED BY <1>1, <2>1 DEF NewServer, ServerRecords, Watchers, Stages
<1>3. NoRemote \in RemoteRecords
  BY BufferTypes DEF NoRemote, RemoteRecords, Watchers
<1>4. \A q \in Requests : NewWire(q) \in WireRecords
  BY RelayAssumption DEF NewWire, WireRecords
<1> QED BY <1>1, <1>2, <1>3, <1>4

LEMMA ControlRecords ==
    /\ Control(NoServer, NoRemote, FALSE)
    /\ Control(NewServer, NoRemote, FALSE)
  BY DEF Control, NoServer, NewServer, NoRemote

LEMMA ControlInit == ASSUME Init PROVE ControlInv
<1>1. TypeOK
  BY RelayAssumption, RecordTypes DEF Init, TypeOK
<1>2. ASSUME NEW c \in Conns
      PROVE  Control(srv[c], rem[c], c \in dns)
  <2>1. srv[c] = NoServer /\ rem[c] = NoRemote /\ ~(c \in dns)
    BY DEF Init
  <2> QED BY <2>1, ControlRecords DEF Control
<1> QED BY <1>1, <1>2 DEF ControlInv

\* A callback of connection c leaves it with records s and m, and touches no
\* other connection.
LEMMA ControlStep ==
    ASSUME ControlInv,
           NEW c \in Conns, NEW s \in ServerRecords, NEW m \in RemoteRecords,
           srv' = [srv EXCEPT ![c] = s],
           rem' = [rem EXCEPT ![c] = m],
           dns' \subseteq Conns, dns' \ {c} = dns \ {c},
           wire' \in [Conns -> WireRecords],
           fastOpen' \in BOOLEAN,
           phase' = phase,
           Control(s, m, c \in dns')
    PROVE  ControlInv'
<1>1. TypeOK'
  BY DEF TypeOK, ControlInv
<1>2. ASSUME NEW d \in Conns
      PROVE  Control(srv[d], rem[d], d \in dns)'
  <2>1. CASE d = c
    BY <2>1 DEF TypeOK, ControlInv, Control
  <2>2. CASE d # c
    <3>1. srv'[d] = srv[d] /\ rem'[d] = rem[d] /\ (d \in dns' <=> d \in dns)
      BY <2>2 DEF TypeOK, ControlInv
    <3> QED BY <3>1 DEF ControlInv, Control
  <2> QED BY <2>1, <2>2
<1> QED BY <1>1, <1>2 DEF ControlInv

-----------------------------------------------------------------------------
(* Closing. *)

LEMMA WireTypes ==
    /\ \A w \in WireRecords, l \in Levels : Blamed(w, l) \in WireRecords
    /\ \A f \in [Conns -> WireRecords], c \in Conns, w \in WireRecords :
           [f EXCEPT ![c] = w] \in [Conns -> WireRecords]
<1>1. ASSUME NEW w \in WireRecords, NEW l \in Levels
      PROVE  Blamed(w, l) \in WireRecords
  BY DEF Blamed, WireRecords
<1> QED BY <1>1

LEMMA ReportType ==
    ASSUME TypeOK, NEW c \in Conns, NEW l \in Levels, Report(c, l)
    PROVE  wire' \in [Conns -> WireRecords]
  BY WireTypes DEF TypeOK, Report

LEMMA CloseBothStep ==
    ASSUME ControlInv, NEW c \in Conns, CloseBoth(c),
           wire' \in [Conns -> WireRecords], UNCHANGED <<fastOpen, phase>>
    PROVE  ControlInv'
<1>1. TypeOK /\ Control(srv[c], rem[c], c \in dns)
  BY DEF ControlInv
<1>2. dns' \subseteq Conns /\ dns' \ {c} = dns \ {c} /\ c \notin dns'
  BY <1>1 DEF CloseBoth, QueryCancelled, Control, TypeOK
<1>3. Control(NoServer, NoRemote, c \in dns')
  BY <1>2, ControlRecords DEF Control
<1>4. fastOpen' \in BOOLEAN
  BY <1>1 DEF TypeOK
<1> QED BY <1>2, <1>3, <1>4, RecordTypes, ControlStep DEF CloseBoth, ServerClosed

LEMMA CloseServerStep ==
    ASSUME ControlInv, NEW c \in Conns, CloseServer(c), ~Linked(c),
           dns' = dns \ {c}, wire' \in [Conns -> WireRecords],
           fastOpen' \in BOOLEAN, phase' = phase
    PROVE  ControlInv'
<1>1. TypeOK /\ Control(srv[c], rem[c], c \in dns)
  BY DEF ControlInv
<1>2. rem[c] = NoRemote
  BY <1>1 DEF Control, Linked
<1>3. rem' = [rem EXCEPT ![c] = NoRemote]
  BY <1>1, <1>2 DEF CloseServer, TypeOK
<1>4. dns' \subseteq Conns /\ dns' \ {c} = dns \ {c} /\ c \notin dns'
  BY <1>1 DEF TypeOK
<1>5. Control(NoServer, NoRemote, c \in dns')
  BY <1>4, ControlRecords DEF Control
<1> QED BY <1>3, <1>4, <1>5, RecordTypes, ControlStep DEF CloseServer, ServerClosed

-----------------------------------------------------------------------------
(* Accepting, and the connection up to the request. *)

LEMMA AcceptStep ==
    ASSUME ControlInv, NEW c \in Conns, Accept(c), phase' = phase
    PROVE  ControlInv'
<1>1. TypeOK /\ Control(srv[c], rem[c], c \in dns)
  BY DEF ControlInv
<1>2. rem[c] = NoRemote /\ c \notin dns
  BY <1>1 DEF Accept, Control, NoServer
<1>3. rem' = [rem EXCEPT ![c] = NoRemote] /\ dns' = dns
  BY <1>1, <1>2 DEF Accept, TypeOK
<1>4. wire' \in [Conns -> WireRecords]
  BY <1>1, RecordTypes, WireTypes DEF Accept, TypeOK
<1>5. Control(NewServer, NoRemote, c \in dns')
  BY <1>2, <1>3, ControlRecords DEF Control
<1>6. dns' \subseteq Conns /\ fastOpen' \in BOOLEAN
  BY <1>1 DEF Accept, TypeOK
<1> QED BY <1>3, <1>4, <1>5, <1>6, RecordTypes, ControlStep DEF Accept

\* a connection whose request is not known, and the server_t s it will have
Handshaking(c, s) ==
    /\ srv[c].stage \in {"INIT", "HANDSHAKE"}
    /\ s \in ServerRecords
    /\ s.timer # "off" /\ ~s.query /\ s.io = {"recv"}

LEMMA HandshakingFacts ==
    ASSUME ControlInv, NEW c \in Conns, srv[c].stage \in {"INIT", "HANDSHAKE"}
    PROVE  /\ Handshaking(c, srv[c])
           /\ rem[c] = NoRemote /\ ~Linked(c)
           /\ c \notin dns
  BY DEF ControlInv, TypeOK, Control, Handshaking, NoRemote, Linked, ServerRecords

LEMMA AppendUp ==
    ASSUME NEW w \in WireRecords, NEW b \in Buffers, NEW f \in Nat, NEW n \in Nat
    PROVE  [w EXCEPT !.up = @ \o Units(b, f, n)] \in WireRecords
<1>1. w.up \in Seq(Int)
  BY DEF WireRecords
<1>2. w.up \o Units(b, f, n) \in Seq(Int)
  BY <1>1, AppendedUnits
<1> QED BY <1>2 DEF WireRecords

LEMMA ConnectTypes ==
    ASSUME TypeOK, NEW b \in Buffers, NEW o \in ConnectResults(b.len)
    PROVE  /\ o.fo \in BOOLEAN /\ o.ok \in BOOLEAN
           /\ o.sent \in 0..b.len /\ o.sent \in Nat
           /\ Advanced(b, o.sent) \in Buffers
           /\ Drained(Advanced(b, o.sent)) \in Buffers
<1>1. b.len \in Nat
  BY DEF Buffers
<1>2. o.fo \in BOOLEAN /\ o.ok \in BOOLEAN /\ o.sent \in 0..b.len
  <2>1. CASE fastOpen = TRUE
    <3>1. \/ o \in [ok : {FALSE}, sent : {0}, fo : {TRUE, FALSE}]
          \/ o \in [ok : {TRUE}, sent : 0..b.len, fo : {TRUE}]
          \/ o \in [ok : {TRUE}, sent : {0}, fo : {FALSE}]
      BY <2>1 DEF ConnectResults
    <3>2. 0 \in 0..b.len /\ TRUE \in BOOLEAN /\ FALSE \in BOOLEAN
      BY <1>1
    <3> QED BY <3>1, <3>2
  <2>2. CASE fastOpen = FALSE
    <3>1. \/ o \in [ok : {FALSE}, sent : {0}, fo : {FALSE}]
          \/ o \in [ok : {TRUE}, sent : {0}, fo : {FALSE}]
      BY <2>2 DEF ConnectResults
    <3>2. 0 \in 0..b.len /\ TRUE \in BOOLEAN /\ FALSE \in BOOLEAN
      BY <1>1
    <3> QED BY <3>1, <3>2
  <2> QED BY <2>1, <2>2 DEF TypeOK
<1>3. Advanced(b, o.sent) \in Buffers
  BY <1>2, BufferTypes
<1> QED BY <1>1, <1>2, <1>3, BufferTypes

LEMMA ConnectDirectStep ==
    ASSUME ControlInv, NEW c \in Conns, NEW s, Handshaking(c, s),
           NEW w \in WireRecords, NEW b \in Buffers,
           ConnectDirect(c, s, w, b), phase' = phase
    PROVE  ControlInv'
<1>1. TypeOK /\ rem[c] = NoRemote /\ c \notin dns /\ ~Linked(c)
  BY HandshakingFacts DEF ControlInv, Handshaking
<1>2. PICK o \in ConnectResults(b.len) :
        /\ fastOpen' = o.fo
        /\ dns' = dns
        /\ LET left == Advanced(b, o.sent) IN
           IF ~o.ok
           THEN CloseServer(c) /\ wire' = [wire EXCEPT ![c] = w]
           ELSE /\ srv' = [srv EXCEPT ![c] = [s EXCEPT !.stage = "PARSE", !.io = {},
                                                       !.buf = Drained(left)]]
                /\ rem' = [rem EXCEPT ![c] = LinkedRemote(left, 0)]
                /\ wire' = [wire EXCEPT ![c] =
                               [w EXCEPT !.up = @ \o Units(b, b.idx, o.sent)]]
  BY DEF ConnectDirect
<1>3. fastOpen' \in BOOLEAN /\ dns' \subseteq Conns /\ dns' = dns \ {c}
  BY <1>1, <1>2, ConnectTypes DEF TypeOK
<1>4. CASE ~o.ok
  <2>1. wire' \in [Conns -> WireRecords]
    BY <1>1, <1>2, <1>4, WireTypes DEF TypeOK
  <2> QED BY <1>1, <1>2, <1>3, <1>4, <2>1, CloseServerStep
<1>5. CASE o.ok
  <2> DEFINE left == Advanced(b, o.sent)
             s2 == [s EXCEPT !.stage = "PARSE", !.io = {}, !.buf = Drained(left)]
             m2 == LinkedRemote(left, 0)
  <2>1. s2 \in ServerRecords /\ m2 \in RemoteRecords
    BY <1>1, ConnectTypes, BufferTypes
       DEF Handshaking, ServerRecords, Watchers, Stages
  <2>2. [w EXCEPT !.up = @ \o Units(b, b.idx, o.sent)] \in WireRecords
    BY <1>1, ConnectTypes, AppendUp DEF Buffers
  <2>3. wire' \in [Conns -> WireRecords]
    BY <1>1, <1>2, <1>5, <2>2, WireTypes DEF TypeOK
  <2>4. Control(s2, m2, c \in dns')
    BY <1>1, <1>2 DEF Control, Handshaking, LinkedRemote, ServerRecords
  <2> QED BY <1>2, <1>3, <1>5, <2>1, <2>3, <2>4, ControlStep
<1> QED BY <1>1, <1>2, <1>4, <1>5, ConnectTypes

LEMMA AskResolverStep ==
    ASSUME ControlInv, NEW c \in Conns, NEW s, Handshaking(c, s),
           NEW w \in WireRecords, NEW b \in Buffers,
           AskResolver(c, s, w, b), phase' = phase
    PROVE  ControlInv'
<1>1. TypeOK /\ rem[c] = NoRemote /\ c \notin dns
  BY HandshakingFacts DEF ControlInv, Handshaking
<1>2. PICK a \in BOOLEAN :
        /\ srv' = [srv EXCEPT ![c] = [s EXCEPT !.stage = "RESOLVE", !.io = {},
                                               !.query = a, !.buf = b]]
        /\ dns' = IF a THEN dns \cup {c} ELSE dns
        /\ wire' = [wire EXCEPT ![c] = w]
        /\ UNCHANGED <<rem, fastOpen>>
  BY DEF AskResolver
<1> DEFINE s2 == [s EXCEPT !.stage = "RESOLVE", !.io = {}, !.query = a, !.buf = b]
<1>3. s2 \in ServerRecords
  BY DEF Handshaking, ServerRecords, Watchers, Stages
<1>4. /\ rem' = [rem EXCEPT ![c] = NoRemote]
      /\ dns' \subseteq Conns /\ dns' \ {c} = dns \ {c}
      /\ wire' \in [Conns -> WireRecords]
      /\ fastOpen' \in BOOLEAN
  BY <1>1, <1>2, WireTypes DEF TypeOK
<1>5. Control(s2, NoRemote, c \in dns')
  BY <1>1, <1>2 DEF Control, Handshaking, NoRemote, ServerRecords
<1> QED BY <1>2, <1>3, <1>4, <1>5, RecordTypes, ControlStep
LEMMA RefuseStep ==
    ASSUME ControlInv, NEW c \in Conns, srv[c].stage \in {"INIT", "HANDSHAKE"},
           NEW w \in WireRecords, Refuse(c, w), phase' = phase
    PROVE  ControlInv'
<1>1. TypeOK /\ ~Linked(c) /\ c \notin dns
  BY HandshakingFacts DEF ControlInv
<1>2. /\ wire' \in [Conns -> WireRecords]
      /\ dns' = dns \ {c}
      /\ fastOpen' \in BOOLEAN
  BY <1>1, WireTypes DEF Refuse, TypeOK
<1> QED BY <1>1, <1>2, CloseServerStep DEF Refuse

LEMMA HandleRequestStep ==
    ASSUME ControlInv, NEW c \in Conns, NEW s, Handshaking(c, s),
           NEW w \in WireRecords, NEW b \in Buffers,
           HandleRequest(c, s, w, b), phase' = phase
    PROVE  ControlInv'
<1> DEFINE payload == b.len - HdrLen
           AsPayload(k) == Buf(b.base + HdrLen, 0, k)
           Parsed(k) == [s EXCEPT !.hdr = 0, !.auth = w.req.auth, !.held = payload - k]
<1>1. srv[c].stage \in {"INIT", "HANDSHAKE"}
  BY DEF Handshaking
<1>2. ASSUME NEW l \in Levels, Refuse(c, Blamed(w, l))
      PROVE  ControlInv'
  BY <1>1, <1>2, WireTypes, RefuseStep
<1>3. CASE Refuse(c, w)
  BY <1>1, <1>3, RefuseStep
<1>4. ASSUME b.len >= HdrLen, NEW k \in Released(w.req, payload)
      PROVE  Handshaking(c, Parsed(k)) /\ AsPayload(k) \in Buffers
  <2>1. payload \in Nat /\ w.req.auth \in BOOLEAN
    BY <1>4, RelayAssumption DEF Buffers, WireRecords
  <2>2. k \in Nat /\ payload - k \in Nat
    BY <2>1, <1>4 DEF Released
  <2>3. AsPayload(k) \in Buffers
    BY <2>2, RelayAssumption DEF Buf, Buffers
  <2>4. Parsed(k) \in ServerRecords
    BY <2>1, <2>2 DEF Handshaking, ServerRecords
  <2> QED BY <2>3, <2>4 DEF Handshaking, ServerRecords
<1>5. ASSUME b.len >= HdrLen, NEW k \in Released(w.req, payload),
             ConnectDirect(c, Parsed(k), w, AsPayload(k))
      PROVE  ControlInv'
  BY <1>4, <1>5, ConnectDirectStep
<1>6. ASSUME b.len >= HdrLen, NEW k \in Released(w.req, payload),
             AskResolver(c, Parsed(k), w, AsPayload(k))
      PROVE  ControlInv'
  BY <1>4, <1>6, AskResolverStep
<1> QED BY <1>2, <1>3, <1>5, <1>6 DEF HandleRequest, Levels

LEMMA HandshakeStepStep ==
    ASSUME ControlInv, NEW c \in Conns, NEW s, Handshaking(c, s),
           NEW w \in WireRecords, NEW b \in Buffers,
           HandshakeStep(c, s, w, b), phase' = phase
    PROVE  ControlInv'
<1>1. TypeOK /\ rem[c] = NoRemote /\ c \notin dns
  BY HandshakingFacts DEF ControlInv, Handshaking
<1>2. PICK verdict \in HeaderVerdicts(w.req, b) :
        IF verdict = 1
        THEN HandleRequest(c, s, w, Buf(HdrStart, 0, s.hdr + b.len))
        ELSE /\ srv' = [srv EXCEPT ![c] =
                   [s EXCEPT !.stage = IF verdict = -1 THEN "ERROR" ELSE "HANDSHAKE",
                             !.hdr = @ + b.len, !.buf = Buf(0, 0, 0)]]
             /\ wire' = [wire EXCEPT ![c] = w]
             /\ UNCHANGED <<rem, dns, fastOpen>>
  BY DEF HandshakeStep
<1>3. s.hdr + b.len \in Nat
  BY DEF Handshaking, ServerRecords, Buffers
<1>4. CASE verdict = 1
  <2>1. Buf(HdrStart, 0, s.hdr + b.len) \in Buffers
    BY <1>3, RelayAssumption, BufferTypes DEF HdrStart
  <2> QED BY <1>2, <1>4, <2>1, HandleRequestStep
<1>5. CASE verdict # 1
  <2> DEFINE s2 == [s EXCEPT !.stage = IF verdict = -1 THEN "ERROR" ELSE "HANDSHAKE",
                             !.hdr = @ + b.len, !.buf = Buf(0, 0, 0)]
  <2>1. s2 \in ServerRecords
    <3>1. Buf(0, 0, 0) \in Buffers
      BY BufferTypes
    <3> QED BY <1>3, <3>1 DEF Handshaking, ServerRecords, Stages
  <2>2. /\ rem' = [rem EXCEPT ![c] = NoRemote] /\ dns' = dns
        /\ wire' \in [Conns -> WireRecords]
        /\ fastOpen' \in BOOLEAN /\ dns' \subseteq Conns
    BY <1>1, <1>2, <1>5, WireTypes DEF TypeOK
  <2>3. Control(s2, NoRemote, c \in dns')
    BY <1>1, <2>2 DEF Control, Handshaking, NoRemote, ServerRecords
  <2> QED BY <1>2, <1>5, <2>1, <2>2, <2>3, RecordTypes, ControlStep
<1> QED BY <1>4, <1>5

LEMMA InitStepStep ==
    ASSUME ControlInv, NEW c \in Conns, NEW s, Handshaking(c, s),
           NEW w \in WireRecords, NEW b \in Buffers,
           InitStep(c, s, w, b), phase' = phase
    PROVE  ControlInv'
<1>1. TypeOK /\ rem[c] = NoRemote /\ c \notin dns
  BY HandshakingFacts DEF ControlInv, Handshaking
<1>2. CASE HandleRequest(c, s, w, b)
  BY <1>2, HandleRequestStep
<1>3. CASE HandshakeStep(c, s, w, b)
  BY <1>3, HandshakeStepStep
<1>4. CASE /\ srv' = [srv EXCEPT ![c] = [s EXCEPT !.stage = "ERROR", !.buf = NoBytes]]
           /\ wire' = [wire EXCEPT ![c] = Blamed(w, "MALFORMED")]
           /\ UNCHANGED <<rem, dns, fastOpen>>
  <2> DEFINE s2 == [s EXCEPT !.stage = "ERROR", !.buf = NoBytes]
  <2>1. s2 \in ServerRecords
    BY BufferTypes DEF Handshaking, ServerRecords, Stages
  <2>2. /\ rem' = [rem EXCEPT ![c] = NoRemote] /\ dns' = dns
        /\ wire' \in [Conns -> WireRecords]
        /\ fastOpen' \in BOOLEAN /\ dns' \subseteq Conns
    BY <1>1, <1>4, WireTypes DEF TypeOK, Levels
  <2>3. Control(s2, NoRemote, c \in dns')
    BY <1>1, <2>2 DEF Control, Handshaking, NoRemote, ServerRecords
  <2> QED BY <1>4, <2>1, <2>2, <2>3, RecordTypes, ControlStep
<1> QED BY <1>2, <1>3, <1>4 DEF InitStep

LEMMA ReceivedType ==
    ASSUME TypeOK, NEW c \in Conns, NEW r \in FromClient(c)
    PROVE  r \in Nat /\ Received(c, r) \in WireRecords
<1>1. r \in Nat /\ wire[c] \in WireRecords /\ wire[c].got + r \in 0..MaxUp
  BY RelayAssumption DEF TypeOK, FromClient, ServerRecords, Buffers, WireRecords
<1> QED BY <1>1 DEF Received, WireRecords

LEMMA RecvInitStep ==
    ASSUME ControlInv, NEW c \in Conns, RecvInit(c), phase' = phase
    PROVE  ControlInv'
<1>1. TypeOK /\ Control(srv[c], rem[c], c \in dns)
  BY DEF ControlInv
<1>2. /\ Handshaking(c, srv[c]) /\ rem[c] = NoRemote /\ c \notin dns
  BY HandshakingFacts DEF RecvInit
<1> DEFINE total(r) == srv[c].buf.len + r
<1>3. PICK r \in FromClient(c) :
        IF total(r) <= IvLen + 1
        THEN /\ srv' = [srv EXCEPT ![c].buf.len = total(r)]
             /\ wire' = [wire EXCEPT ![c] = Received(c, r)]
             /\ UNCHANGED <<rem, dns, fastOpen>>
        ELSE InitStep(c, srv[c], Received(c, r), Buf(HdrStart, 0, total(r) - IvLen))
  BY DEF RecvInit
<1>4. r \in Nat /\ Received(c, r) \in WireRecords /\ total(r) \in Nat
  BY <1>1, ReceivedType DEF TypeOK, ServerRecords, Buffers
<1>5. CASE total(r) <= IvLen + 1
  <2> DEFINE b2 == [srv[c].buf EXCEPT !.len = total(r)]
             s2 == [srv[c] EXCEPT !.buf = b2]
  <2>1. b2 \in Buffers
    BY <1>1, <1>4 DEF TypeOK, ServerRecords, Buffers
  <2>2. s2 \in ServerRecords
    BY <1>1, <2>1 DEF TypeOK, ServerRecords
  <2>3. srv' = [srv EXCEPT ![c] = s2]
    BY <1>3, <1>5
  <2>4. /\ rem' = [rem EXCEPT ![c] = NoRemote] /\ dns' = dns
        /\ wire' \in [Conns -> WireRecords]
        /\ fastOpen' \in BOOLEAN /\ dns' \subseteq Conns
    BY <1>1, <1>2, <1>3, <1>4, <1>5, WireTypes DEF TypeOK
  <2>5. Control(s2, NoRemote, c \in dns')
    BY <1>1, <1>2, <2>4 DEF Control, Handshaking, ServerRecords, NoRemote
  <2> QED BY <2>2, <2>3, <2>4, <2>5, RecordTypes, ControlStep
<1>6. CASE ~(total(r) <= IvLen + 1)
  <2>1. Buf(HdrStart, 0, total(r) - IvLen) \in Buffers
    BY <1>4, <1>6, RelayAssumption, BufferTypes DEF HdrStart
  <2> QED BY <1>2, <1>3, <1>4, <1>6, <2>1, InitStepStep
<1> QED BY <1>5, <1>6

LEMMA RecvHandshakeStep ==
    ASSUME ControlInv, NEW c \in Conns, RecvHandshake(c), phase' = phase
    PROVE  ControlInv'
<1>1. TypeOK /\ Handshaking(c, srv[c])
  BY HandshakingFacts DEF RecvHandshake, ControlInv
<1>2. PICK r \in FromClient(c) :
        HandshakeStep(c, srv[c], Received(c, r), Buf(wire[c].got + 1, 0, r))
  BY DEF RecvHandshake
<1>3. r \in Nat /\ Received(c, r) \in WireRecords
  BY <1>1, ReceivedType
<1>4. Buf(wire[c].got + 1, 0, r) \in Buffers
  BY <1>1, <1>3, BufferTypes DEF TypeOK, WireRecords
<1> QED BY <1>1, <1>2, <1>3, <1>4, HandshakeStepStep

LEMMA RecvDropStep ==
    ASSUME ControlInv, NEW c \in Conns, RecvDrop(c), phase' = phase
    PROVE  ControlInv'
<1>1. TypeOK /\ Control(srv[c], rem[c], c \in dns)
  BY DEF ControlInv
<1> DEFINE s2 == [srv[c] EXCEPT !.buf = NoBytes]
<1>2. s2 \in ServerRecords
  BY <1>1, BufferTypes DEF TypeOK, ServerRecords
<1>3. /\ srv' = [srv EXCEPT ![c] = s2]
      /\ rem' = [rem EXCEPT ![c] = rem[c]] /\ rem[c] \in RemoteRecords
      /\ dns' = dns /\ fastOpen' \in BOOLEAN /\ dns' \subseteq Conns
  BY <1>1 DEF RecvDrop, TypeOK
<1>4. wire' \in [Conns -> WireRecords]
  BY <1>1, ReceivedType, WireTypes DEF RecvDrop, TypeOK
<1>5. Control(s2, rem[c], c \in dns')
  BY <1>1, <1>3 DEF Control, RecvDrop, TypeOK, ServerRecords, NoServer
<1> QED BY <1>2, <1>3, <1>4, <1>5, ControlStep
-----------------------------------------------------------------------------
(* Streaming. *)

LEMMA AfterSendFacts ==
    ASSUME NEW b \in Buffers, NEW n \in 0..b.len
    PROVE  /\ AfterSend(b, n) \in Buffers
           /\ n < b.len => AfterSend(b, n).len > 0
           /\ Advanced(b, n) \in Buffers
           /\ n < b.len => Advanced(b, n).len > 0
<1>1. b.len \in Nat /\ b.idx \in Nat
  BY DEF Buffers
<1>2. AfterSend(b, n) \in Buffers /\ Advanced(b, n) \in Buffers
  BY BufferTypes
<1>3. n < b.len => AfterSend(b, n).len > 0
  BY <1>1 DEF AfterSend, Buf
<1>4. n < b.len => Advanced(b, n).len > 0
  BY <1>1 DEF Advanced, Buffers
<1> QED BY <1>2, <1>3, <1>4

LEMMA ReleasedType ==
    ASSUME NEW q, NEW total \in Nat, NEW k \in Released(q, total)
    PROVE  k \in Nat /\ k \in 0..total /\ total - k \in Nat
<1>1. k \in 0..total
  <2>1. CASE q.auth
    BY <2>1 DEF Released
  <2>2. CASE ~q.auth
    BY <2>2 DEF Released
  <2> QED BY <2>1, <2>2
<1> QED BY <1>1

\* A STREAM connection read r units, let k through and sent n of them: its
\* buffer before the send, its server_t and its remote_t.
StreamBuf(s, m, w, k) == Buf(w.got - s.held + 1, m.buf.idx, k)
StreamServer(s, r, k, n) == [s EXCEPT !.timer = "armed", !.held = @ + r - k,
                                      !.io = Paused(@, n < k)]
StreamRemote(m, b, k, n) == [m EXCEPT !.buf = AfterSend(b, n), !.io = Armed(@, n < k)]

LEMMA StreamedTypes ==
    ASSUME NEW s \in ServerRecords, NEW m \in RemoteRecords, NEW w \in WireRecords,
           NEW r \in Nat, NEW k \in Released(w.req, s.held + r), NEW n \in 0..k
    PROVE  LET b == StreamBuf(s, m, w, k) IN
           /\ b \in Buffers /\ b.len = k /\ n \in Nat
           /\ AfterSend(b, n) \in Buffers
           /\ n < k => AfterSend(b, n).len > 0
           /\ StreamServer(s, r, k, n) \in ServerRecords
           /\ StreamRemote(m, b, k, n) \in RemoteRecords
<1> DEFINE b == StreamBuf(s, m, w, k)
<1>1. /\ s.held \in Nat /\ s.held + r \in Nat /\ w.got \in Nat
      /\ m.buf.idx \in Nat /\ s.io \in Watchers /\ m.io \in Watchers
  <2>1. s.held \in Nat /\ s.io \in Watchers
    BY DEF ServerRecords
  <2>2. m.buf.idx \in Nat /\ m.io \in Watchers
    BY DEF RemoteRecords, Buffers
  <2>3. w.got \in Nat
    BY RelayAssumption DEF WireRecords
  <2> QED BY <2>1, <2>2, <2>3
<1>2. k \in Nat /\ s.held + r - k \in Nat /\ n \in Nat
  BY <1>1, ReleasedType
<1>3. b \in Buffers /\ b.len = k
  <2>1. w.got - s.held + 1 \in Int
    BY <1>1
  <2>2. b \in Buffers
    BY <1>1, <1>2, <2>1, BufferTypes DEF StreamBuf
  <2> QED BY <2>2 DEF StreamBuf, Buf
<1>4. AfterSend(b, n) \in Buffers /\ (n < k => AfterSend(b, n).len > 0)
  BY <1>3, AfterSendFacts
<1>5. Paused(s.io, n < k) \in Watchers /\ Armed(m.io, n < k) \in Watchers
  BY <1>1 DEF Paused, Armed, Watchers
<1>6. StreamServer(s, r, k, n) \in ServerRecords
  BY <1>2, <1>5 DEF StreamServer, ServerRecords
<1>7. StreamRemote(m, b, k, n) \in RemoteRecords
  BY <1>4, <1>5 DEF StreamRemote, RemoteRecords
<1> QED BY <1>2, <1>3, <1>4, <1>6, <1>7

LEMMA RecvStreamStep ==
    ASSUME ControlInv, NEW c \in Conns, RecvStream(c), phase' = phase
    PROVE  ControlInv'
<1>1. TypeOK /\ Control(srv[c], rem[c], c \in dns)
  BY DEF ControlInv
<1> DEFINE Moved(r, k, n) ==
        LET b == Buf(wire[c].got - srv[c].held + 1, rem[c].buf.idx, k)
            blocked == n < k
        IN  /\ rem' = [rem EXCEPT ![c].buf = AfterSend(b, n),
                                  ![c].io = Armed(@, blocked)]
            /\ srv' = [srv EXCEPT ![c].timer = "armed",
                                  ![c].held = @ + r - k,
                                  ![c].io = Paused(@, blocked)]
            /\ wire' = [wire EXCEPT ![c] = [Received(c, r) EXCEPT
                                              !.up = @ \o Units(b, 0, n)]]
<1>2. PICK r \in FromClient(c) :
        \E k \in Released(wire[c].req, srv[c].held + r) : \E n \in 0..k : Moved(r, k, n)
  BY DEF RecvStream
<1>20. PICK k \in Released(wire[c].req, srv[c].held + r) :
         \E n \in 0..k : Moved(r, k, n)
  BY <1>2
<1>21. PICK n \in 0..k : Moved(r, k, n)
  BY <1>20
<1> DEFINE b == StreamBuf(srv[c], rem[c], wire[c], k)
           s2 == StreamServer(srv[c], r, k, n)
           m2 == StreamRemote(rem[c], b, k, n)
<1>3. r \in Nat /\ Received(c, r) \in WireRecords
  BY <1>1, ReceivedType
<1>4. /\ srv[c] \in ServerRecords /\ rem[c] \in RemoteRecords
      /\ wire[c] \in WireRecords
  BY <1>1 DEF TypeOK
<1>5. /\ b \in Buffers /\ b.len = k /\ n \in Nat
      /\ AfterSend(b, n) \in Buffers
      /\ n < k => AfterSend(b, n).len > 0
      /\ s2 \in ServerRecords
      /\ m2 \in RemoteRecords
  BY <1>3, <1>4, StreamedTypes
<1>10. srv' = [srv EXCEPT ![c] = s2] /\ rem' = [rem EXCEPT ![c] = m2]
  BY <1>21 DEF StreamServer, StreamRemote, StreamBuf
<1>11. wire' \in [Conns -> WireRecords]
  BY <1>1, <1>21, <1>3, <1>5, AppendUp, WireTypes DEF TypeOK, StreamBuf
<1>12. dns' = dns /\ dns' \subseteq Conns /\ fastOpen' \in BOOLEAN
  BY <1>1 DEF RecvStream, TypeOK
<1>13. Control(s2, m2, c \in dns')
  <2>1. /\ s2.stage = "STREAM" /\ s2.query = srv[c].query /\ s2.timer = "armed"
        /\ s2.io = Paused(srv[c].io, n < k) /\ s2.buf = srv[c].buf
    BY <1>4 DEF RecvStream, ServerRecords, StreamServer
  <2>2. /\ m2.state = rem[c].state /\ m2.linked = rem[c].linked
        /\ m2.io = Armed(rem[c].io, n < k) /\ m2.buf = AfterSend(b, n)
    BY <1>4 DEF RemoteRecords, StreamRemote
  <2>3. "send" \notin rem[c].io /\ "recv" \in srv[c].io
    BY <1>1 DEF Control, RecvStream
  <2>4. "send" \in m2.io => n < k
    BY <2>2, <2>3 DEF Armed
  <2>5. ("recv" \in s2.io) # ("send" \in m2.io)
    BY <2>1, <2>2, <2>3 DEF Armed, Paused
  <2>6. /\ "recv" \in m2.io <=> "recv" \in rem[c].io
        /\ "send" \in s2.io <=> "send" \in srv[c].io
    BY <2>1, <2>2 DEF Armed, Paused
  <2> QED BY <1>1, <1>5, <1>12, <2>1, <2>2, <2>4, <2>5, <2>6 DEF Control, RecvStream
<1> QED BY <1>5, <1>10, <1>11, <1>12, <1>13, ControlStep

LEMMA ConnectedFacts ==
    ASSUME ControlInv, NEW c \in Conns
    PROVE  /\ TypeOK /\ Control(srv[c], rem[c], c \in dns)
           /\ srv[c] \in ServerRecords /\ rem[c] \in RemoteRecords
           /\ wire[c] \in WireRecords
           /\ srv[c].io # {} => srv[c].stage # "FREE"
           /\ rem[c].io # {} => rem[c].state # "none" /\ srv[c].stage # "FREE"
  BY DEF ControlInv, TypeOK, Control, NoServer, NoRemote

\* A callback that changes the timer of an open connection and nothing else.
LEMMA TimerStep ==
    ASSUME ControlInv, NEW c \in Conns, srv[c].stage # "FREE",
           NEW t \in {"armed", "due"}, srv' = [srv EXCEPT ![c].timer = t],
           UNCHANGED <<rem, dns, wire, fastOpen, phase>>
    PROVE  ControlInv'
<1> DEFINE s2 == [srv[c] EXCEPT !.timer = t]
<1>1. TypeOK /\ Control(srv[c], rem[c], c \in dns) /\ srv[c] \in ServerRecords
  BY ConnectedFacts
<1>2. s2 \in ServerRecords /\ srv' = [srv EXCEPT ![c] = s2]
  BY <1>1 DEF ServerRecords
<1>3. Control(s2, rem[c], c \in dns')
  BY <1>1 DEF Control, ServerRecords
<1>4. /\ rem' = [rem EXCEPT ![c] = rem[c]] /\ rem[c] \in RemoteRecords
      /\ dns' \subseteq Conns /\ wire' \in [Conns -> WireRecords]
      /\ fastOpen' \in BOOLEAN
  BY <1>1 DEF TypeOK
<1> QED BY <1>2, <1>3, <1>4, ControlStep

LEMMA TimerSteps ==
    ASSUME ControlInv, NEW c \in Conns, phase' = phase,
           RecvAgain(c) \/ RemoteRecvAgain(c) \/ TimerExpires(c)
    PROVE  ControlInv'
<1>1. CASE RecvAgain(c)
  BY <1>1, TimerStep DEF RecvAgain
<1>2. CASE RemoteRecvAgain(c)
  BY <1>2, TimerStep, ConnectedFacts DEF RemoteRecvAgain
<1>3. CASE TimerExpires(c)
  <2>1. srv[c].stage # "FREE"
    BY <1>3, ConnectedFacts DEF TimerExpires, Control, NoServer
  <2> QED BY <1>3, <2>1, TimerStep DEF TimerExpires
<1> QED BY <1>1, <1>2, <1>3

\* The callbacks that end with both objects closed.
LEMMA ClosingSteps ==
    ASSUME ControlInv, NEW c \in Conns, phase' = phase,
           \/ RecvBadChunk(c) \/ RecvUndecipherable(c) \/ RecvClose(c)
           \/ RemoteSendFails(c) \/ RemoteRecvClose(c) \/ ServerSendFails(c)
           \/ Timeout(c)
    PROVE  ControlInv'
<1>1. TypeOK /\ wire \in [Conns -> WireRecords]
  BY DEF ControlInv, TypeOK
<1>2. CloseBoth(c) /\ UNCHANGED fastOpen
  BY DEF RecvBadChunk, RecvUndecipherable, RecvClose, RemoteSendFails,
         RemoteRecvClose, ServerSendFails, Timeout
<1>3. wire' = wire \/ \E l \in Levels : Report(c, l)
  BY DEF RecvBadChunk, RecvUndecipherable, RecvClose, RemoteSendFails,
         RemoteRecvClose, ServerSendFails, Timeout, Levels
<1>4. wire' \in [Conns -> WireRecords]
  BY <1>1, <1>3, ReportType
<1> QED BY <1>2, <1>4, CloseBothStep

-----------------------------------------------------------------------------
(* The resolver's answer. *)

LEMMA QueryFacts ==
    ASSUME ControlInv, NEW c \in dns
    PROVE  /\ c \in Conns /\ ~Linked(c) /\ srv[c].query /\ srv[c].stage = "RESOLVE"
           /\ rem[c] = NoRemote /\ srv[c].io = {} /\ srv[c].timer # "off"
<1>1. c \in Conns
  BY DEF ControlInv, TypeOK
<1> QED BY <1>1 DEF ControlInv, Control, Linked

LEMMA ResolveFailedStep ==
    ASSUME ControlInv, NEW c \in Conns, ResolveFailed(c), phase' = phase
    PROVE  ControlInv'
<1>1. ~Linked(c) /\ TypeOK
  BY QueryFacts DEF ResolveFailed, ControlInv
<1> QED BY <1>1, CloseServerStep DEF ResolveFailed, TypeOK

LEMMA ResolvedStep ==
    ASSUME ControlInv, NEW c \in Conns, Resolved(c), phase' = phase
    PROVE  ControlInv'
<1>1. /\ TypeOK /\ srv[c] \in ServerRecords /\ wire[c] \in WireRecords
      /\ srv[c].buf \in Buffers
  BY ConnectedFacts DEF ServerRecords
<1>2. /\ ~Linked(c) /\ rem[c] = NoRemote /\ srv[c].stage = "RESOLVE"
      /\ srv[c].io = {} /\ srv[c].timer # "off"
  BY QueryFacts DEF Resolved
<1> DEFINE sb == srv[c].buf
<1>3. PICK o \in ConnectResults(sb.len) :
        LET left == Advanced(sb, o.sent) IN
        /\ fastOpen' = o.fo
        /\ IF ~o.ok
           THEN CloseServer(c) /\ UNCHANGED wire
           ELSE /\ srv' = [srv EXCEPT ![c].query = FALSE, ![c].buf = Drained(left)]
                /\ rem' = [rem EXCEPT ![c] = LinkedRemote(left, left.idx)]
                /\ wire' = [wire EXCEPT ![c].up = @ \o Units(sb, sb.idx, o.sent)]
  BY DEF Resolved
<1>4. fastOpen' \in BOOLEAN /\ dns' = dns \ {c} /\ dns' \subseteq Conns
  BY <1>1, <1>3, ConnectTypes DEF TypeOK, Resolved
<1>5. CASE ~o.ok
  BY <1>1, <1>2, <1>3, <1>4, <1>5, CloseServerStep DEF TypeOK
<1>6. CASE o.ok
  <2> DEFINE left == Advanced(sb, o.sent)
             s2 == [srv[c] EXCEPT !.query = FALSE, !.buf = Drained(left)]
             m2 == LinkedRemote(left, left.idx)
  <2>1. left \in Buffers /\ Drained(left) \in Buffers /\ o.sent \in Nat
    BY <1>1, ConnectTypes
  <2>2. s2 \in ServerRecords
    BY <1>1, <2>1 DEF ServerRecords
  <2>3. left.idx \in Nat
    BY <2>1 DEF Buffers
  <2>4. m2 \in RemoteRecords
    BY <2>1, <2>3, BufferTypes
  <2>5. wire' \in [Conns -> WireRecords]
    <3>1. [wire[c] EXCEPT !.up = @ \o Units(sb, sb.idx, o.sent)] \in WireRecords
      BY <1>1, <2>1, AppendUp DEF Buffers
    <3> QED BY <1>1, <1>3, <1>6, <3>1, WireTypes DEF TypeOK
  <2>6. srv' = [srv EXCEPT ![c] = s2] /\ rem' = [rem EXCEPT ![c] = m2]
    BY <1>3, <1>6
  <2>7. Control(s2, m2, c \in dns')
    BY <1>1, <1>2, <1>4 DEF Control, LinkedRemote, ServerRecords
  <2> QED BY <1>4, <2>2, <2>4, <2>5, <2>6, <2>7, ControlStep
<1> QED BY <1>1, <1>5, <1>6, ConnectTypes

-----------------------------------------------------------------------------
(* The target's socket is writable. *)

\* the server_t and the remote_t when the remote's buffer is flushed
FlushedServer(s) == [s EXCEPT !.stage = "STREAM", !.io = Resumed(@)]
FlushedRemote(s, m, b) ==
    [m EXCEPT !.state = "connected", !.buf = b,
              !.io = IF s.stage = "STREAM" THEN @ \ {"send"} ELSE Resumed(@ \ {"send"})]

LEMMA FlushedTypes ==
    ASSUME NEW s \in ServerRecords, NEW m \in RemoteRecords, NEW b \in Buffers
    PROVE  /\ FlushedServer(s) \in ServerRecords
           /\ FlushedRemote(s, m, b) \in RemoteRecords
<1>1. /\ Resumed(s.io) \in Watchers /\ m.io \ {"send"} \in Watchers
      /\ Resumed(m.io \ {"send"}) \in Watchers
  BY DEF ServerRecords, RemoteRecords, Watchers, Resumed
<1>2. FlushedServer(s) \in ServerRecords
  BY <1>1 DEF FlushedServer, ServerRecords, Stages
<1>3. FlushedRemote(s, m, b) \in RemoteRecords
  BY <1>1 DEF FlushedRemote, RemoteRecords
<1> QED BY <1>2, <1>3

LEMMA FlushedControl ==
    ASSUME NEW s \in ServerRecords, NEW m \in RemoteRecords, NEW b \in Buffers, NEW q,
           Control(s, m, q), "send" \in m.io
    PROVE  Control(FlushedServer(s), FlushedRemote(s, m, b), q)
<1> DEFINE s2 == FlushedServer(s)
           m2 == FlushedRemote(s, m, b)
<1>1. /\ m.state # "none" /\ m.linked /\ s.stage \in {"PARSE", "RESOLVE", "STREAM"}
      /\ s.timer # "off" /\ ~s.query /\ (q <=> s.query)
  BY DEF Control, NoRemote
<1>2. /\ s2.stage = "STREAM" /\ s2.timer = s.timer /\ s2.query = s.query
      /\ s2.io = Resumed(s.io) /\ s2.buf = s.buf
  BY DEF FlushedServer, ServerRecords
<1>3. /\ m2.state = "connected" /\ m2.linked = m.linked
      /\ m2.io = IF s.stage = "STREAM" THEN m.io \ {"send"}
                                       ELSE Resumed(m.io \ {"send"})
  BY DEF FlushedRemote, RemoteRecords
<1>4. "recv" \in s2.io /\ "send" \notin m2.io
  BY <1>2, <1>3 DEF Resumed
<1>5. ("recv" \in m2.io) # ("send" \in s2.io)
  <2>1. CASE s.stage = "STREAM"
    BY <1>2, <1>3, <2>1 DEF Control, Resumed
  <2>2. CASE s.stage # "STREAM"
    <3>1. s.io = {}
      BY <1>1, <2>2 DEF Control
    <3> QED BY <1>2, <1>3, <2>2, <3>1 DEF Resumed
  <2> QED BY <2>1, <2>2
<1>6. "send" \in s2.io => s2.buf.len > 0
  BY <1>2 DEF Control, Resumed
<1> QED BY <1>1, <1>2, <1>3, <1>4, <1>5, <1>6 DEF Control

\* The wire when the target's connection is found to be up (if x), and after
\* n units of b are sent on it.
ClearedIf(x, w) == IF x THEN [w EXCEPT !.blame = {}] ELSE w
SentUp(w, b, n) == [w EXCEPT !.up = @ \o Units(b, b.idx, n)]

LEMMA SentUpType ==
    ASSUME NEW w \in WireRecords, NEW x, NEW b \in Buffers, NEW n \in Nat
    PROVE  /\ ClearedIf(x, w) \in WireRecords
           /\ SentUp(w, b, n) \in WireRecords
<1>1. ClearedIf(x, w) \in WireRecords
  BY DEF ClearedIf, WireRecords
<1>2. b.idx \in Nat
  BY DEF Buffers
<1> QED BY <1>1, <1>2, AppendUp DEF SentUp

\* Both objects after the remote's buffer is flushed, its rest being b.
LEMMA FlushStep ==
    ASSUME ControlInv, NEW c \in Conns, "send" \in rem[c].io, NEW b \in Buffers,
           srv' = [srv EXCEPT ![c] = FlushedServer(srv[c])],
           rem' = [rem EXCEPT ![c] = FlushedRemote(srv[c], rem[c], b)],
           wire' \in [Conns -> WireRecords],
           UNCHANGED <<dns, fastOpen, phase>>
    PROVE  ControlInv'
<1>1. /\ TypeOK /\ Control(srv[c], rem[c], c \in dns)
      /\ srv[c] \in ServerRecords /\ rem[c] \in RemoteRecords
  BY ConnectedFacts
<1>2. /\ FlushedServer(srv[c]) \in ServerRecords
      /\ FlushedRemote(srv[c], rem[c], b) \in RemoteRecords
  BY <1>1, FlushedTypes
<1>3. Control(FlushedServer(srv[c]), FlushedRemote(srv[c], rem[c], b), c \in dns')
  BY <1>1, FlushedControl
<1>4. dns' \subseteq Conns /\ fastOpen' \in BOOLEAN
  BY <1>1 DEF TypeOK
<1> QED BY <1>2, <1>3, <1>4, ControlStep

\* a remote_t whose connection is up, with a rest b still to send
PartialRemote(m, b) == [m EXCEPT !.state = "connected", !.buf = b]

LEMMA PartialStep ==
    ASSUME ControlInv, NEW c \in Conns, "send" \in rem[c].io,
           NEW b \in Buffers, b.len > 0,
           rem' = [rem EXCEPT ![c] = PartialRemote(rem[c], b)],
           wire' \in [Conns -> WireRecords],
           UNCHANGED <<srv, dns, fastOpen, phase>>
    PROVE  ControlInv'
<1>1. /\ TypeOK /\ Control(srv[c], rem[c], c \in dns)
      /\ srv[c] \in ServerRecords /\ rem[c] \in RemoteRecords
      /\ rem[c].state # "none"
  BY ConnectedFacts
<1> DEFINE m2 == PartialRemote(rem[c], b)
<1>2. m2 \in RemoteRecords
  BY <1>1 DEF PartialRemote, RemoteRecords
<1>3. /\ m2.state = "connected" /\ m2.linked = rem[c].linked /\ m2.io = rem[c].io
      /\ m2.buf = b
  BY <1>1 DEF PartialRemote, RemoteRecords
<1>4. Control(srv[c], m2, c \in dns')
  <2> HIDE DEF m2
  <2> QED BY <1>1, <1>3 DEF Control
<1>5. /\ srv' = [srv EXCEPT ![c] = srv[c]] /\ dns' \subseteq Conns
      /\ fastOpen' \in BOOLEAN
  BY <1>1 DEF TypeOK
<1> QED BY <1>1, <1>2, <1>4, <1>5, ControlStep

LEMMA RemoteSendStep ==
    ASSUME ControlInv, NEW c \in Conns, RemoteSend(c), phase' = phase
    PROVE  ControlInv'
<1> DEFINE b == rem[c].buf
           x == rem[c].state = "connecting"
<1>1. /\ TypeOK /\ wire[c] \in WireRecords /\ "send" \in rem[c].io
      /\ srv[c] \in ServerRecords /\ rem[c] \in RemoteRecords
      /\ b \in Buffers /\ b.len \in Nat /\ fastOpen' = fastOpen
  BY ConnectedFacts DEF RemoteSend, RemoteRecords, Buffers
<1>2. CASE b.len = 0 /\ x
  <2>1. /\ srv' = [srv EXCEPT ![c] = FlushedServer(srv[c])]
        /\ wire' = [wire EXCEPT ![c] = ClearedIf(x, wire[c])]
        /\ dns' = dns
    BY <1>1, <1>2 DEF RemoteSend, FlushedServer, TypeOK, ClearedIf
  <2>2. rem' = [rem EXCEPT ![c] = FlushedRemote(srv[c], rem[c], b)]
    BY <1>1, <1>2 DEF RemoteSend, FlushedRemote, RemoteRecords
  <2>3. wire' \in [Conns -> WireRecords]
    BY <1>1, <2>1, SentUpType, WireTypes DEF TypeOK
  <2> QED BY <1>1, <2>1, <2>2, <2>3, FlushStep
<1>3. CASE b.len = 0 /\ ~x
  <2>1. CloseBoth(c) /\ wire' = wire
    BY <1>3 DEF RemoteSend
  <2> QED BY <1>1, <2>1, CloseBothStep DEF TypeOK
<1>4. CASE b.len # 0
  <2> DEFINE Streaming(s) == [s EXCEPT !.stage = "STREAM", !.io = Resumed(@)]
             Flushed(m) == [m EXCEPT !.state = "connected",
                                     !.io = IF srv[c].stage = "STREAM" THEN @ \ {"send"}
                                            ELSE Resumed(@ \ {"send"})]
             Cleared(w) == IF x THEN [w EXCEPT !.blame = {}] ELSE w
             Sent(w, n) == [w EXCEPT !.up = @ \o Units(b, b.idx, n)]
  <2>9. PICK n \in 0..b.len :
            /\ wire' = [wire EXCEPT ![c] = Sent(Cleared(@), n)]
            /\ UNCHANGED dns
            /\ IF n < b.len
               THEN /\ rem' = [rem EXCEPT ![c].state = "connected",
                                          ![c].buf = Advanced(b, n)]
                    /\ UNCHANGED srv
               ELSE /\ rem' = [rem EXCEPT ![c] =
                                   [Flushed(@) EXCEPT !.buf = Buf(b.base, 0, 0)]]
                    /\ srv' = [srv EXCEPT ![c] = Streaming(@)]
    BY <1>4 DEF RemoteSend
  <2>10. wire' = [wire EXCEPT ![c] = SentUp(ClearedIf(x, wire[c]), b, n)]
    <3>1. wire' = [wire EXCEPT ![c] = Sent(Cleared(wire[c]), n)]
      BY <2>9
    <3> QED BY <3>1 DEF SentUp, ClearedIf
  <2>11. n < b.len => rem' = [rem EXCEPT ![c] = PartialRemote(rem[c], Advanced(b, n))]
    BY <2>9 DEF PartialRemote
  <2>12. ~(n < b.len) =>
            rem' = [rem EXCEPT ![c] = FlushedRemote(srv[c], rem[c], Buf(b.base, 0, 0))]
    BY <2>9 DEF FlushedRemote
  <2>13. ~(n < b.len) => srv' = [srv EXCEPT ![c] = FlushedServer(srv[c])]
    BY <2>9 DEF FlushedServer
  <2>1. /\ wire' = [wire EXCEPT ![c] = SentUp(ClearedIf(x, wire[c]), b, n)]
        /\ UNCHANGED dns
        /\ IF n < b.len
           THEN /\ rem' = [rem EXCEPT ![c] = PartialRemote(rem[c], Advanced(b, n))]
                /\ UNCHANGED srv
           ELSE /\ rem' = [rem EXCEPT ![c] =
                               FlushedRemote(srv[c], rem[c], Buf(b.base, 0, 0))]
                /\ srv' = [srv EXCEPT ![c] = FlushedServer(srv[c])]
    BY <2>9, <2>10, <2>11, <2>12, <2>13
  <2>2. n \in Nat
    BY <1>1
  <2>3. wire' \in [Conns -> WireRecords]
    BY <1>1, <2>1, <2>2, SentUpType, WireTypes DEF TypeOK
  <2>4. CASE n < b.len
    BY <1>1, <2>1, <2>3, <2>4, AfterSendFacts, PartialStep
  <2>5. CASE ~(n < b.len)
    <3>1. Buf(b.base, 0, 0) \in Buffers
      BY <1>1 DEF Buf, Buffers
    <3> QED BY <1>1, <2>1, <2>3, <2>5, <3>1, FlushStep
  <2> QED BY <2>4, <2>5
<1> QED BY <1>2, <1>3, <1>4

-----------------------------------------------------------------------------
(* The way back. *)

\* r units came from the target and n of them were sent on at once
AnswerServer(s, b, r, n) == [s EXCEPT !.timer = "armed", !.buf = AfterSend(b, n),
                                      !.io = Armed(@, n < r)]
AnswerRemote(m, r, n) == [m EXCEPT !.io = Paused(@, n < r)]

LEMMA AnswerTypes ==
    ASSUME NEW s \in ServerRecords, NEW m \in RemoteRecords,
           NEW b \in Buffers, NEW n \in 0..b.len
    PROVE  /\ AnswerServer(s, b, b.len, n) \in ServerRecords
           /\ AnswerRemote(m, b.len, n) \in RemoteRecords
<1>1. Armed(s.io, n < b.len) \in Watchers /\ Paused(m.io, n < b.len) \in Watchers
  BY DEF Armed, Paused, Watchers, ServerRecords, RemoteRecords
<1>2. AfterSend(b, n) \in Buffers
  BY AfterSendFacts
<1>3. AnswerServer(s, b, b.len, n) \in ServerRecords
  BY <1>1, <1>2 DEF AnswerServer, ServerRecords
<1>4. AnswerRemote(m, b.len, n) \in RemoteRecords
  BY <1>1 DEF AnswerRemote, RemoteRecords
<1> QED BY <1>3, <1>4

LEMMA AnswerControl ==
    ASSUME NEW s \in ServerRecords, NEW m \in RemoteRecords, NEW q,
           NEW b \in Buffers, NEW n \in 0..b.len,
           Control(s, m, q), "recv" \in m.io
    PROVE  Control(AnswerServer(s, b, b.len, n), AnswerRemote(m, b.len, n), q)
<1> DEFINE s2 == AnswerServer(s, b, b.len, n)
           m2 == AnswerRemote(m, b.len, n)
<1>1. s.stage = "STREAM" /\ m.state = "connected" /\ m.linked /\ ~s.query
  <2>1. m.state # "none"
    BY DEF Control, NoRemote
  <2>2. m.linked /\ s.stage \in {"PARSE", "RESOLVE", "STREAM"}
    BY <2>1 DEF Control
  <2>3. s.stage = "STREAM"
    BY <2>1, <2>2 DEF Control
  <2> QED BY <2>1, <2>2, <2>3 DEF Control
<1>2. "send" \notin s.io /\ (("recv" \in s.io) # ("send" \in m.io))
  BY <1>1 DEF Control
<1>3. /\ s2.stage = s.stage /\ s2.query = s.query /\ s2.timer = "armed"
      /\ s2.io = Armed(s.io, n < b.len) /\ s2.buf = AfterSend(b, n)
  BY DEF AnswerServer, ServerRecords
<1>4. /\ m2.state = m.state /\ m2.linked = m.linked /\ m2.buf = m.buf
      /\ m2.io = Paused(m.io, n < b.len)
  BY DEF AnswerRemote, RemoteRecords
<1>5. ("recv" \in s2.io) # ("send" \in m2.io)
  BY <1>2, <1>3, <1>4 DEF Armed, Paused
<1>6. ("recv" \in m2.io) # ("send" \in s2.io)
  BY <1>2, <1>3, <1>4 DEF Armed, Paused
<1>7. "send" \in s2.io => s2.buf.len > 0
  BY <1>2, <1>3, AfterSendFacts DEF Armed
<1>8. "send" \in m2.io => m2.buf.len > 0
  BY <1>1, <1>4 DEF Paused, Control
<1>9. q <=> s2.query
  BY <1>3 DEF Control
<1> QED BY <1>1, <1>3, <1>4, <1>5, <1>6, <1>7, <1>8, <1>9 DEF Control

LEMMA AppendDown ==
    ASSUME NEW w \in WireRecords, NEW b \in Buffers, NEW f \in Nat, NEW n \in Nat
    PROVE  [w EXCEPT !.down = @ \o Units(b, f, n)] \in WireRecords
<1>1. w.down \in Seq(Int)
  BY DEF WireRecords
<1>2. w.down \o Units(b, f, n) \in Seq(Int)
  BY <1>1, AppendedUnits
<1> QED BY <1>2 DEF WireRecords

LEMMA RemoteRecvStep ==
    ASSUME ControlInv, NEW c \in Conns, RemoteRecv(c), phase' = phase
    PROVE  ControlInv'
<1>1. /\ TypeOK /\ Control(srv[c], rem[c], c \in dns) /\ wire[c] \in WireRecords
      /\ srv[c] \in ServerRecords /\ rem[c] \in RemoteRecords
      /\ "recv" \in rem[c].io
  BY ConnectedFacts DEF RemoteRecv
<1> DEFINE b(r) == Buf(wire[c].rgot + 1, srv[c].buf.idx, r)
           Moved(r, n) ==
               /\ srv' = [srv EXCEPT ![c].timer = "armed",
                                     ![c].buf = AfterSend(b(r), n),
                                     ![c].io = Armed(@, n < r)]
               /\ rem' = [rem EXCEPT ![c].io = Paused(@, n < r)]
               /\ wire' = [wire EXCEPT ![c].rgot = @ + r,
                                       ![c].down = @ \o Units(b(r), 0, n)]
<1>2. PICK r \in FromTarget(c) : \E n \in 0..r : Moved(r, n)
  BY DEF RemoteRecv
<1>3. PICK n \in 0..r : Moved(r, n)
  BY <1>2
<1>4. r \in Nat /\ wire[c].rgot + r \in 0..MaxDown /\ n \in Nat
  BY <1>1, RelayAssumption DEF FromTarget, WireRecords
<1>5. b(r) \in Buffers /\ b(r).len = r
  <2>1. wire[c].rgot + 1 \in Int
    BY <1>1, RelayAssumption DEF WireRecords
  <2>3. srv[c].buf.idx \in Nat
    BY <1>1 DEF ServerRecords, Buffers
  <2>2. b(r) \in Buffers
    BY <1>4, <2>1, <2>3, BufferTypes
  <2> QED BY <2>2 DEF Buf
<1> DEFINE s2 == AnswerServer(srv[c], b(r), r, n)
           m2 == AnswerRemote(rem[c], r, n)
           w1 == [wire[c] EXCEPT !.rgot = @ + r]
           w2 == [w1 EXCEPT !.down = @ \o Units(b(r), 0, n)]
<1>6. s2 \in ServerRecords /\ m2 \in RemoteRecords
  BY <1>1, <1>5, AnswerTypes
<1>7. Control(s2, m2, c \in dns)
  BY <1>1, <1>5, AnswerControl
<1>8. w2 \in WireRecords
  <2>1. w1 \in WireRecords
    BY <1>1, <1>4 DEF WireRecords
  <2> QED BY <2>1, <1>4, <1>5, AppendDown
<1>9. srv' = [srv EXCEPT ![c] = s2] /\ rem' = [rem EXCEPT ![c] = m2]
  BY <1>3 DEF AnswerServer, AnswerRemote
<1>10. wire' = [wire EXCEPT ![c] = w2]
  BY <1>1, <1>3 DEF WireRecords
<1>11. wire' \in [Conns -> WireRecords]
  BY <1>1, <1>8, <1>10, WireTypes DEF TypeOK
<1>12. dns' = dns /\ dns' \subseteq Conns /\ fastOpen' \in BOOLEAN
  BY <1>1 DEF RemoteRecv, TypeOK
<1> QED BY <1>6, <1>7, <1>9, <1>11, <1>12, ControlStep

\* the rest of the answer is out, or a part of it
DrainedServer(s) == [s EXCEPT !.buf = Buf(s.buf.base, 0, 0), !.io = @ \ {"send"}]
ResumedRemote(m) == [m EXCEPT !.io = Resumed(@)]
PartialServer(s, n) == [s EXCEPT !.buf = Advanced(s.buf, n)]

LEMMA ServerSendFacts ==
    ASSUME NEW s \in ServerRecords, NEW m \in RemoteRecords, NEW q,
           Control(s, m, q), "send" \in s.io
    PROVE  /\ DrainedServer(s) \in ServerRecords /\ ResumedRemote(m) \in RemoteRecords
           /\ Control(DrainedServer(s), ResumedRemote(m), q)
           /\ \A n \in 0..s.buf.len :
                  /\ PartialServer(s, n) \in ServerRecords
                  /\ n < s.buf.len => Control(PartialServer(s, n), m, q)
<1>1. /\ s.stage = "STREAM" /\ m.state = "connected" /\ m.linked /\ ~s.query
      /\ s.timer # "off" /\ (q <=> s.query)
  <2>1. s.stage \notin {"FREE", "INIT", "HANDSHAKE", "ERROR", "PARSE", "RESOLVE"}
    BY DEF Control, NoServer
  <2>2. s.stage = "STREAM"
    BY <2>1 DEF ServerRecords, Stages
  <2> QED BY <2>2 DEF Control
<1>2. /\ "recv" \notin m.io /\ (("recv" \in s.io) # ("send" \in m.io))
      /\ "send" \in m.io => m.buf.len > 0
  BY <1>1 DEF Control
<1>3. DrainedServer(s) \in ServerRecords
  <2>1. Buf(s.buf.base, 0, 0) \in Buffers /\ s.io \ {"send"} \in Watchers
    BY DEF ServerRecords, Buffers, Buf, Watchers
  <2> QED BY <2>1 DEF DrainedServer, ServerRecords
<1>4. ResumedRemote(m) \in RemoteRecords
  BY DEF ResumedRemote, RemoteRecords, Resumed, Watchers
<1>5. Control(DrainedServer(s), ResumedRemote(m), q)
  <2> DEFINE s2 == DrainedServer(s)
             m2 == ResumedRemote(m)
  <2>1. /\ s2.stage = s.stage /\ s2.timer = s.timer /\ s2.query = s.query
        /\ s2.io = s.io \ {"send"}
    BY DEF DrainedServer, ServerRecords
  <2>2. /\ m2.state = m.state /\ m2.linked = m.linked /\ m2.buf = m.buf
        /\ m2.io = Resumed(m.io)
    BY DEF ResumedRemote, RemoteRecords
  <2>3. /\ ("recv" \in s2.io) # ("send" \in m2.io)
        /\ "recv" \in m2.io /\ "send" \notin s2.io
        /\ "send" \in m2.io => m2.buf.len > 0
    BY <1>2, <2>1, <2>2 DEF Resumed
  <2> QED BY <1>1, <2>1, <2>2, <2>3 DEF Control
<1>6. ASSUME NEW n \in 0..s.buf.len
      PROVE  /\ PartialServer(s, n) \in ServerRecords
             /\ n < s.buf.len => Control(PartialServer(s, n), m, q)
  <2>1. /\ Advanced(s.buf, n) \in Buffers
        /\ n < s.buf.len => Advanced(s.buf, n).len > 0
    BY AfterSendFacts DEF ServerRecords
  <2>2. PartialServer(s, n) \in ServerRecords
    BY <2>1 DEF PartialServer, ServerRecords
  <2>3. /\ PartialServer(s, n).stage = s.stage /\ PartialServer(s, n).timer = s.timer
        /\ PartialServer(s, n).query = s.query /\ PartialServer(s, n).io = s.io
        /\ PartialServer(s, n).buf = Advanced(s.buf, n)
    BY DEF PartialServer, ServerRecords
  <2>4. n < s.buf.len => Control(PartialServer(s, n), m, q)
    BY <1>1, <1>2, <2>1, <2>3 DEF Control
  <2> QED BY <2>2, <2>4
<1> QED BY <1>3, <1>4, <1>5, <1>6

LEMMA ServerSendStep ==
    ASSUME ControlInv, NEW c \in Conns, ServerSend(c), phase' = phase
    PROVE  ControlInv'
<1> DEFINE b == srv[c].buf
<1>1. /\ TypeOK /\ Control(srv[c], rem[c], c \in dns) /\ wire[c] \in WireRecords
      /\ srv[c] \in ServerRecords /\ rem[c] \in RemoteRecords
      /\ "send" \in srv[c].io /\ fastOpen' = fastOpen
  BY ConnectedFacts DEF ServerSend
<1>2. b \in Buffers /\ b.len \in Nat /\ b.idx \in Nat
  BY <1>1 DEF ServerRecords, Buffers
<1>3. CASE rem[c].state = "none" \/ b.len = 0
  <2>1. CloseBoth(c) /\ wire' = wire
    BY <1>3 DEF ServerSend
  <2> QED BY <1>1, <2>1, CloseBothStep DEF TypeOK
<1>4. CASE ~(rem[c].state = "none" \/ b.len = 0)
  <2>1. PICK n \in 0..b.len :
            /\ wire' = [wire EXCEPT ![c].down = @ \o Units(b, b.idx, n)]
            /\ UNCHANGED dns
            /\ IF n < b.len
               THEN srv' = [srv EXCEPT ![c].buf = Advanced(b, n)] /\ UNCHANGED rem
               ELSE /\ srv' = [srv EXCEPT ![c].buf = Buf(b.base, 0, 0),
                                          ![c].io = @ \ {"send"}]
                    /\ rem' = [rem EXCEPT ![c].io = Resumed(@)]
    BY <1>4 DEF ServerSend
  <2>2. wire' \in [Conns -> WireRecords]
    <3> DEFINE w2 == [wire[c] EXCEPT !.down = @ \o Units(b, b.idx, n)]
    <3>1. n \in Nat
      BY <1>2
    <3>2. w2 \in WireRecords
      BY <1>1, <1>2, <3>1, AppendDown
    <3>3. wire' = [wire EXCEPT ![c] = w2]
      BY <2>1
    <3> QED BY <1>1, <3>2, <3>3, WireTypes DEF TypeOK
  <2>3. fastOpen' \in BOOLEAN /\ dns' = dns /\ dns' \subseteq Conns
    BY <1>1, <2>1 DEF TypeOK
  <2>4. CASE n < b.len
    <3>1. srv' = [srv EXCEPT ![c] = PartialServer(srv[c], n)]
      BY <2>1, <2>4 DEF PartialServer
    <3>2. rem' = [rem EXCEPT ![c] = rem[c]]
      BY <1>1, <2>1, <2>4 DEF TypeOK
    <3>3. /\ PartialServer(srv[c], n) \in ServerRecords
          /\ Control(PartialServer(srv[c], n), rem[c], c \in dns)
      BY <1>1, <2>4, ServerSendFacts
    <3> QED BY <1>1, <2>2, <2>3, <3>1, <3>2, <3>3, ControlStep
  <2>5. CASE ~(n < b.len)
    <3>1. srv' = [srv EXCEPT ![c] = DrainedServer(srv[c])]
      BY <2>1, <2>5 DEF DrainedServer
    <3>2. rem' = [rem EXCEPT ![c] = ResumedRemote(rem[c])]
      BY <2>1, <2>5 DEF ResumedRemote
    <3>3. /\ DrainedServer(srv[c]) \in ServerRecords
          /\ ResumedRemote(rem[c]) \in RemoteRecords
          /\ Control(DrainedServer(srv[c]), ResumedRemote(rem[c]), c \in dns)
      BY <1>1, ServerSendFacts
    <3> QED BY <1>1, <2>2, <2>3, <3>1, <3>2, <3>3, ControlStep
  <2> QED BY <2>4, <2>5
<1> QED BY <1>3, <1>4

-----------------------------------------------------------------------------
(* The end of the program, and the whole next-state relation. *)

LEMMA StopSteps ==
    ASSUME ControlInv, Signal \/ Shutdown
    PROVE  ControlInv'
<1>1. TypeOK /\ \A c \in Conns : Control(srv[c], rem[c], c \in dns)
  BY DEF ControlInv
<1>2. CASE Signal
  <2>1. TypeOK'
    BY <1>1, <1>2 DEF Signal, TypeOK
  <2> QED BY <1>1, <1>2, <2>1 DEF Signal, ControlInv, Control
<1>3. CASE Shutdown
  <2>1. ASSUME NEW c \in Conns
        PROVE  srv'[c] = NoServer /\ rem'[c] = NoRemote /\ c \notin dns'
    <3>1. rem'[c] = NoRemote
      BY <1>1, <1>3, <2>1 DEF Shutdown, Control
    <3>2. c \notin dns'
      BY <1>1, <1>3, <2>1 DEF Shutdown, Control
    <3> QED BY <1>3, <3>1, <3>2 DEF Shutdown
  <2>2. srv' \in [Conns -> ServerRecords]
    BY <1>3, RecordTypes DEF Shutdown
  <2>3. rem' \in [Conns -> RemoteRecords]
    BY <1>1, <1>3, RecordTypes DEF Shutdown, TypeOK
  <2>4. TypeOK'
    BY <1>1, <1>3, <2>2, <2>3 DEF Shutdown, TypeOK
  <2>5. ASSUME NEW c \in Conns
        PROVE  Control(srv[c], rem[c], c \in dns)'
    BY <2>1, ControlRecords DEF Control
  <2> QED BY <2>4, <2>5 DEF ControlInv
<1> QED BY <1>2, <1>3

LEMMA CallbackStep ==
    ASSUME ControlInv, NEW c \in Conns, Callback(c), phase' = phase
    PROVE  ControlInv'
<1>1. CASE Accept(c)
  BY <1>1, AcceptStep
<1>2. CASE ClientSide(c)
  BY <1>2, RecvInitStep, RecvHandshakeStep, RecvDropStep, RecvStreamStep,
     ClosingSteps, TimerSteps, ServerSendStep DEF ClientSide
<1>3. CASE TargetSide(c)
  BY <1>3, RemoteSendStep, ClosingSteps, RemoteRecvStep, TimerSteps DEF TargetSide
<1>4. CASE ResolveFailed(c) \/ Resolved(c)
  BY <1>4, ResolveFailedStep, ResolvedStep
<1>5. CASE TimerExpires(c) \/ Timeout(c)
  BY <1>5, TimerSteps, ClosingSteps
<1> QED BY <1>1, <1>2, <1>3, <1>4, <1>5 DEF Callback

LEMMA ControlNext == ASSUME ControlInv, [Next]_vars PROVE ControlInv'
<1>1. ASSUME NEW c \in Conns, phase' = phase, Callback(c)
      PROVE  ControlInv'
  BY <1>1, CallbackStep
<1>2. CASE Signal \/ Shutdown
  BY <1>2, StopSteps
<1>3. CASE UNCHANGED vars
  BY <1>3 DEF vars, ControlInv, TypeOK, Control
<1> QED BY <1>1, <1>2, <1>3 DEF Next, Done

\* The control invariant holds in every reachable state.
THEOREM ControlAlways == Spec => []ControlInv
<1>1. Init => ControlInv
  BY ControlInit
<1>2. ControlInv /\ [Next]_vars => ControlInv'
  BY ControlNext
<1> QED BY <1>1, <1>2, PTL DEF Spec

\* Every variable keeps the shape of the C structures, for any sizes.
THEOREM TypesHold == Spec => []TypeOK
<1>1. ControlInv => TypeOK
  BY DEF ControlInv
<1> QED BY <1>1, ControlAlways, PTL

\* Back-pressure: a streaming direction has one active watcher, and a
\* connection whose request is not served yet reads no more (server_recv_cb,
\* remote_send_cb, remote_recv_cb, server_send_cb).
THEOREM WatchersExclude == Spec => []OneWatcherPerDirection
<1>1. ControlInv => OneWatcherPerDirection
  <2> SUFFICES ASSUME ControlInv, NEW c \in Conns
               PROVE  /\ srv[c].stage = "STREAM" =>
                             /\ ("recv" \in srv[c].io) # ("send" \in rem[c].io)
                             /\ ("recv" \in rem[c].io) # ("send" \in srv[c].io)
                      /\ srv[c].stage \in {"PARSE", "RESOLVE"} => "recv" \notin srv[c].io
                      /\ srv[c].stage # "STREAM" =>
                             "send" \notin srv[c].io /\ "recv" \notin rem[c].io
    BY DEF OneWatcherPerDirection
  <2>1. Control(srv[c], rem[c], c \in dns) /\ srv[c].stage \in Stages
    BY ConnectedFacts DEF ServerRecords
  <2>2. srv[c].stage # "STREAM" => "send" \notin srv[c].io /\ "recv" \notin rem[c].io
    BY <2>1 DEF Control, Stages, NoServer, NoRemote
  <2> QED BY <2>1, <2>2 DEF Control
<1> QED BY <1>1, ControlAlways, PTL

\* A write watcher of an established connection has something to write: the
\* branches of server_send_cb and remote_send_cb that close on an empty
\* buffer are never taken.
THEOREM WritersFed == Spec => []WritersHaveData
<1>1. ControlInv => WritersHaveData
  BY DEF ControlInv, Control, WritersHaveData
<1> QED BY <1>1, ControlAlways, PTL

\* server_t, remote_t and resolver query live and die together, so no callback
\* runs on a freed object (free_server, free_remote, close_and_free_server).
THEOREM ObjectsTogether == Spec => []NoOrphans
<1>1. ControlInv => NoOrphans
  <2> SUFFICES ASSUME ControlInv, NEW c \in Conns
               PROVE  /\ Linked(c) => rem[c].linked /\ Open(c)
                      /\ c \in dns <=> srv[c].query
                      /\ srv[c].query => srv[c].stage = "RESOLVE" /\ ~Linked(c)
    BY DEF NoOrphans
  <2>1. Control(srv[c], rem[c], c \in dns)
    BY DEF ControlInv
  <2> QED BY <2>1 DEF Control, Linked, Open
<1> QED BY <1>1, ControlAlways, PTL

\* An open connection has its timer running, whatever path it took.
THEOREM TimerNeverLost == Spec => []AlwaysTimed
<1>1. ControlInv => AlwaysTimed
  BY DEF ControlInv, Control, AlwaysTimed, Open, NoServer
<1> QED BY <1>1, ControlAlways, PTL

-----------------------------------------------------------------------------
(* What becomes of the bytes.  DataInv says of each connection, beside     *)
(* Control, where in the client's and the target's streams its buffers     *)
(* begin.  The order of what the target is sent is proved for the          *)
(* configurations in which server_recv_cb copies from the right place.     *)

\* Fast open with a literal address repeats the first bytes (server.c:1055);
\* without the one or the other it does not.
NoRepeat == ~FastOpen \/ \A q \in Requests : q.kind # "literal"

Ordered(q, k) == q = [i \in 1..Len(q) |-> k + i]

\* units read from the client and not sent on
Waiting(s, m) ==
    s.held + IF m.state = "none" THEN s.buf.len
             ELSE IF "send" \in m.io THEN m.buf.len ELSE 0

\* before the request is known
EarlyData(s, w) ==
    /\ s.stage \in {"INIT", "HANDSHAKE", "ERROR"} => w.up = <<>>
    /\ s.stage = "INIT" => w.got = s.buf.len /\ s.hdr = 0
    /\ s.stage = "HANDSHAKE" => w.got = IvLen + s.hdr

\* from the client to the target
UpData(s, m, w) ==
    /\ NoRepeat => Ordered(w.up, HdrEnd)
    /\ s.stage \in {"PARSE", "RESOLVE", "STREAM"} =>
           w.got = HdrEnd + Len(w.up) + Waiting(s, m)
    /\ s.stage = "RESOLVE" /\ m.state = "none" =>
           w.up = <<>> /\ s.buf.base + s.buf.idx = HdrEnd + 1
    /\ NoRepeat /\ "send" \in m.io /\ m.buf.len > 0 =>
           m.buf.base + m.buf.idx = HdrEnd + 1 + Len(w.up)

\* and back
DownData(s, w) ==
    /\ Ordered(w.down, 0)
    /\ s.stage \notin {"FREE", "STREAM"} => w.rgot = 0 /\ w.down = <<>>
    /\ s.stage = "STREAM" =>
           w.rgot = Len(w.down) + IF "send" \in s.io THEN s.buf.len ELSE 0
    /\ "send" \in s.io => s.buf.base + s.buf.idx = Len(w.down) + 1

\* only a client that was closed before it sent a request is suspicious
BlameData(s, w) == "SUSPICIOUS" \in w.blame => s.stage = "FREE" /\ w.up = <<>>

Data(s, m, w) == EarlyData(s, w) /\ UpData(s, m, w) /\ DownData(s, w) /\ BlameData(s, w)

DataInv ==
    /\ ControlInv
    /\ \A c \in Conns : Data(srv[c], rem[c], wire[c])
    /\ fastOpen => FastOpen

-----------------------------------------------------------------------------
(* The shape of a step: one connection moves. *)

Becomes(c, s, m, w) ==
    /\ srv' = [srv EXCEPT ![c] = s]
    /\ rem' = [rem EXCEPT ![c] = m]
    /\ wire' = [wire EXCEPT ![c] = w]

\* a connection begins in state s2, w2
Begins(s, s2, w2) ==
    /\ s.stage = "FREE" /\ s2.stage # "FREE"
    /\ w2.got = 0 /\ w2.rgot = 0 /\ w2.up = <<>> /\ w2.down = <<>>

\* one goes on, or closes and sends nothing
Continues(s, w, s2, w2) ==
    /\ s.stage # "FREE"
    /\ w.got <= w2.got /\ w.rgot <= w2.rgot
    /\ Len(w.up) <= Len(w2.up) /\ Len(w.down) <= Len(w2.down)
    /\ s2.stage = "FREE" => w2.up = w.up /\ w2.down = w.down

Moved(c) ==
    /\ fastOpen' => fastOpen
    /\ \E s \in ServerRecords, m \in RemoteRecords, w \in WireRecords :
          /\ Becomes(c, s, m, w)
          /\ Data(s, m, w)
          /\ Begins(srv[c], s, w) \/ Continues(srv[c], wire[c], s, w)

LEMMA UnitsFacts ==
    ASSUME NEW q \in Seq(Int), NEW b \in Buffers, NEW f \in Nat, NEW n \in Nat
    PROVE  /\ q \o Units(b, f, n) \in Seq(Int)
           /\ Len(q \o Units(b, f, n)) = Len(q) + n
<1>1. Units(b, f, n) \in Seq(Int) /\ Len(Units(b, f, n)) = n
  BY UnitsType DEF Units
<1> QED BY <1>1

LEMMA OrderedMore ==
    ASSUME NEW q \in Seq(Int), NEW k \in Int, NEW b \in Buffers, NEW f \in Nat,
           NEW n \in Nat, Ordered(q, k), n > 0 => b.base + f = k + Len(q) + 1
    PROVE  Ordered(q \o Units(b, f, n), k)
<1> DEFINE t == Units(b, f, n)
           r == q \o t
<1>1. t \in Seq(Int) /\ Len(t) = n /\ \A i \in 1..n : t[i] = b.base + f + i - 1
  BY UnitsType DEF Units
<1>2. r \in Seq(Int) /\ Len(r) = Len(q) + n
  BY UnitsFacts
<1>3. ASSUME NEW i \in 1..Len(r) PROVE r[i] = k + i
  <2>1. b.base \in Int /\ Len(q) \in Nat
    BY DEF Buffers
  <2>2. CASE i <= Len(q)
    <3>1. i \in 1..Len(q)
      BY <2>1, <2>2, <1>2
    <3>2. r[i] = q[i]
      BY <1>1, <3>1
    <3> QED BY <3>1, <3>2 DEF Ordered
  <2>3. CASE ~(i <= Len(q))
    <3>1. i - Len(q) \in 1..n /\ n > 0
      BY <2>1, <2>3, <1>2
    <3>2. r[i] = t[i - Len(q)]
      BY <1>1, <2>1, <3>1
    <3> QED BY <1>1, <2>1, <3>1, <3>2
  <2> QED BY <2>2, <2>3
<1>4. r = [i \in 1..Len(r) |-> k + i]
  <2>1. r = [i \in 1..Len(r) |-> r[i]]
    <3> HIDE DEF r
    <3> QED BY <1>2
  <2> QED BY <1>3, <2>1
<1> QED BY <1>4 DEF Ordered

LEMMA HeaderSizes == /\ HdrEnd \in Nat /\ HdrStart \in Nat
                     /\ HdrEnd = IvLen + HdrLen /\ HdrStart = IvLen + 1
                     /\ HdrLen \in Nat /\ HdrLen > 0 /\ IvLen \in Nat
  BY RelayAssumption DEF HdrEnd, HdrStart

LEMMA HdrEndType == HdrEnd \in Nat
  BY HeaderSizes

\* n units of b, from array + f on, go out one way or the other.
WithUp(w, b, f, n) == [w EXCEPT !.up = @ \o Units(b, f, n)]
WithDown(w, b, f, n) == [w EXCEPT !.down = @ \o Units(b, f, n)]

LEMMA WithUpFacts ==
    ASSUME NEW w \in WireRecords, NEW b \in Buffers, NEW f \in Nat, NEW n \in Nat
    PROVE  LET w2 == WithUp(w, b, f, n) IN
           /\ w2 \in WireRecords
           /\ w2.got = w.got /\ w2.rgot = w.rgot /\ w2.down = w.down
           /\ w2.blame = w.blame
           /\ Len(w2.up) = Len(w.up) + n
<1> DEFINE w2 == WithUp(w, b, f, n)
<1>1. w2 \in WireRecords
  BY AppendUp DEF WithUp
<1>2. /\ w2.got = w.got /\ w2.rgot = w.rgot /\ w2.down = w.down /\ w2.blame = w.blame
      /\ w2.up = w.up \o Units(b, f, n)
  BY DEF WireRecords, WithUp
<1>3. w.up \in Seq(Int) /\ HdrEnd \in Int
  BY HeaderSizes DEF WireRecords
<1> HIDE DEF w2
<1>4. Len(w2.up) = Len(w.up) + n
  BY <1>2, <1>3, UnitsFacts
<1> QED BY <1>1, <1>2, <1>4 DEF w2

LEMMA WithUpOrdered ==
    ASSUME NEW w \in WireRecords, NEW b \in Buffers, NEW f \in Nat, NEW n \in Nat,
           Ordered(w.up, HdrEnd), n > 0 => b.base + f = HdrEnd + Len(w.up) + 1
    PROVE  Ordered(WithUp(w, b, f, n).up, HdrEnd)
<1>1. w.up \in Seq(Int) /\ HdrEnd \in Int
  BY HeaderSizes DEF WireRecords
<1>2. WithUp(w, b, f, n).up = w.up \o Units(b, f, n)
  BY DEF WireRecords, WithUp
<1> QED BY <1>1, <1>2, OrderedMore

LEMMA WithDownFacts ==
    ASSUME NEW w \in WireRecords, NEW b \in Buffers, NEW f \in Nat, NEW n \in Nat
    PROVE  LET w2 == WithDown(w, b, f, n) IN
           /\ w2 \in WireRecords
           /\ w2.got = w.got /\ w2.rgot = w.rgot /\ w2.up = w.up
           /\ w2.blame = w.blame
           /\ Len(w2.down) = Len(w.down) + n
<1> DEFINE w2 == WithDown(w, b, f, n)
<1>1. w2 \in WireRecords
  BY AppendDown DEF WithDown
<1>2. /\ w2.got = w.got /\ w2.rgot = w.rgot /\ w2.up = w.up /\ w2.blame = w.blame
      /\ w2.down = w.down \o Units(b, f, n)
  BY DEF WireRecords, WithDown
<1>3. w.down \in Seq(Int) /\ Len(w.down) \in Nat
  BY DEF WireRecords
<1> HIDE DEF w2
<1>4. Len(w2.down) = Len(w.down) + n
  BY <1>2, <1>3, UnitsFacts
<1> QED BY <1>1, <1>2, <1>4 DEF w2

LEMMA WithDownOrdered ==
    ASSUME NEW w \in WireRecords, NEW b \in Buffers, NEW f \in Nat, NEW n \in Nat,
           Ordered(w.down, 0), n > 0 => b.base + f = Len(w.down) + 1
    PROVE  Ordered(WithDown(w, b, f, n).down, 0)
<1>1. w.down \in Seq(Int) /\ Len(w.down) \in Nat
  BY DEF WireRecords
<1>2. WithDown(w, b, f, n).down = w.down \o Units(b, f, n)
  BY DEF WireRecords, WithDown
<1>3. PICK k \in Int : k = 0
  OBVIOUS
<1>4. n > 0 => b.base + f = k + Len(w.down) + 1
  BY <1>1, <1>3
<1>5. Ordered(w.down, k)
  BY <1>3
<1>6. Ordered(w.down \o Units(b, f, n), k)
  BY <1>1, <1>4, <1>5, OrderedMore
<1> QED BY <1>2, <1>3, <1>6

LEMMA OrderedEmpty == \A k \in Int : Ordered(<<>>, k)
  BY DEF Ordered

LEMMA ConnFacts ==
    ASSUME DataInv, NEW c \in Conns
    PROVE  /\ ControlInv /\ TypeOK
           /\ Control(srv[c], rem[c], c \in dns)
           /\ Data(srv[c], rem[c], wire[c])
           /\ srv[c] \in ServerRecords /\ rem[c] \in RemoteRecords
           /\ wire[c] \in WireRecords
           /\ wire[c].up \in Seq(Int) /\ wire[c].down \in Seq(Int)
           /\ wire[c].got \in Nat /\ wire[c].rgot \in Nat
           /\ srv[c].held \in Nat /\ srv[c].buf \in Buffers /\ rem[c].buf \in Buffers
           /\ srv[c].buf.len \in Nat /\ srv[c].buf.idx \in Nat /\ srv[c].buf.base \in Int
           /\ rem[c].buf.len \in Nat /\ rem[c].buf.idx \in Nat /\ rem[c].buf.base \in Int
<1>1. ControlInv /\ TypeOK /\ Data(srv[c], rem[c], wire[c])
  BY DEF DataInv, ControlInv
<1>2. /\ Control(srv[c], rem[c], c \in dns)
      /\ srv[c] \in ServerRecords /\ rem[c] \in RemoteRecords
      /\ wire[c] \in WireRecords
  BY <1>1 DEF ControlInv, TypeOK
<1>3. srv[c].held \in Nat /\ srv[c].buf \in Buffers /\ rem[c].buf \in Buffers
  BY <1>2 DEF ServerRecords, RemoteRecords
<1>4. wire[c].up \in Seq(Int) /\ wire[c].down \in Seq(Int)
  BY <1>2 DEF WireRecords
<1>5. wire[c].got \in Nat /\ wire[c].rgot \in Nat
  BY <1>2, RelayAssumption DEF WireRecords
<1>6. \A b \in Buffers : b.len \in Nat /\ b.idx \in Nat /\ b.base \in Int
  BY DEF Buffers
<1> QED BY <1>1, <1>2, <1>3, <1>4, <1>5, <1>6

\* Whatever one connection's callback does, the others keep what they have.
LEMMA MovedKeeps ==
    ASSUME DataInv, ControlInv', NEW c \in Conns, Moved(c)
    PROVE  DataInv'
<1>1. PICK s \in ServerRecords, m \in RemoteRecords, w \in WireRecords :
          Becomes(c, s, m, w) /\ Data(s, m, w)
  BY DEF Moved
<1>2. TypeOK
  BY DEF DataInv, ControlInv
<1>3. ASSUME NEW d \in Conns PROVE Data(srv'[d], rem'[d], wire'[d])
  <2>1. CASE d = c
    <3>1. srv'[d] = s /\ rem'[d] = m /\ wire'[d] = w
      BY <1>1, <1>2, <2>1 DEF Becomes, TypeOK
    <3> QED BY <1>1, <3>1
  <2>2. CASE d # c
    <3>1. srv'[d] = srv[d] /\ rem'[d] = rem[d] /\ wire'[d] = wire[d]
      BY <1>1, <1>2, <2>2 DEF Becomes, TypeOK
    <3> QED BY <3>1 DEF DataInv
  <2> QED BY <2>1, <2>2
<1> QED BY <1>3 DEF DataInv, Moved, Data, EarlyData, UpData, DownData, BlameData,
                 Waiting, Ordered

-----------------------------------------------------------------------------
(* Closing. *)

LEMMA Closes ==
    ASSUME DataInv, NEW c \in Conns, srv[c].stage # "FREE", NEW w \in WireRecords,
           Becomes(c, NoServer, NoRemote, w),
           w.up = wire[c].up, w.down = wire[c].down,
           wire[c].got <= w.got, wire[c].rgot <= w.rgot,
           "SUSPICIOUS" \in w.blame => w.up = <<>>,
           fastOpen' => fastOpen
    PROVE  Moved(c)
<1>1. Data(srv[c], rem[c], wire[c]) /\ wire[c].up \in Seq(Int) /\ wire[c].down \in Seq(Int)
  BY ConnFacts
<1>2. Data(NoServer, NoRemote, w)
  BY <1>1 DEF Data, EarlyData, UpData, DownData, BlameData, NoServer, NoRemote
<1>3. Continues(srv[c], wire[c], NoServer, w)
  BY <1>1 DEF Continues
<1> QED BY <1>2, <1>3, RecordTypes DEF Moved

\* A remote_t that is not linked is none at all, so that closing the server_t
\* alone leaves nothing.
LEMMA CloseServerBecomes ==
    ASSUME DataInv, NEW c \in Conns, CloseServer(c), ~Linked(c), NEW w,
           wire' = [wire EXCEPT ![c] = w]
    PROVE  Becomes(c, NoServer, NoRemote, w)
<1>1. TypeOK /\ rem[c] = NoRemote
  BY ConnFacts DEF Control, Linked
<1>2. rem' = [rem EXCEPT ![c] = NoRemote]
  BY <1>1 DEF CloseServer, TypeOK
<1> QED BY <1>2 DEF CloseServer, ServerClosed, Becomes

LEMMA BlamedFacts ==
    ASSUME NEW w \in WireRecords, NEW l \in Levels
    PROVE  /\ Blamed(w, l) \in WireRecords
           /\ Blamed(w, l).up = w.up /\ Blamed(w, l).down = w.down
           /\ Blamed(w, l).got = w.got /\ Blamed(w, l).rgot = w.rgot
           /\ Blamed(w, l).req = w.req
           /\ Blamed(w, l).blame = w.blame \cup {l}
  BY DEF Blamed, WireRecords

\* The callbacks that end with both objects closed.
LEMMA ClosingMoves ==
    ASSUME DataInv, NEW c \in Conns,
           \/ RecvBadChunk(c) \/ RecvUndecipherable(c) \/ RecvClose(c)
           \/ RemoteSendFails(c) \/ RemoteRecvClose(c) \/ ServerSendFails(c)
           \/ Timeout(c)
    PROVE  Moved(c)
<1>1. /\ TypeOK /\ Data(srv[c], rem[c], wire[c]) /\ wire[c] \in WireRecords
      /\ Control(srv[c], rem[c], c \in dns) /\ ControlInv
      /\ wire[c].got \in Nat /\ wire[c].rgot \in Nat
  BY ConnFacts
<1>2. CloseBoth(c) /\ fastOpen' = fastOpen
  BY DEF RecvBadChunk, RecvUndecipherable, RecvClose, RemoteSendFails,
         RemoteRecvClose, ServerSendFails, Timeout
<1>3. srv[c].stage # "FREE"
  <2>1. srv[c].io # {} \/ rem[c].io # {} \/ srv[c].timer = "due"
    BY DEF RecvBadChunk, RecvUndecipherable, RecvClose, RemoteSendFails,
           RemoteRecvClose, ServerSendFails, Timeout
  <2> QED BY <1>1, <2>1, ConnectedFacts DEF Control, NoServer
<1>4. "SUSPICIOUS" \notin wire[c].blame
  BY <1>1, <1>3 DEF Data, BlameData
<1>5. \/ wire' = wire
      \/ \E l \in Levels \ {"SUSPICIOUS"} : Report(c, l)
      \/ Report(c, "SUSPICIOUS") /\ srv[c].stage \in BelowParse
  BY DEF RecvBadChunk, RecvUndecipherable, RecvClose, RemoteSendFails,
         RemoteRecvClose, ServerSendFails, Timeout, Levels
<1>6. CASE wire' = wire
  <2>1. Becomes(c, NoServer, NoRemote, wire[c])
    BY <1>1, <1>2, <1>6 DEF Becomes, CloseBoth, ServerClosed, TypeOK
  <2> QED BY <1>1, <1>2, <1>3, <1>4, <2>1, Closes
<1>7. CASE \E l \in Levels \ {"SUSPICIOUS"} : Report(c, l)
  <2>1. PICK l \in Levels \ {"SUSPICIOUS"} : Report(c, l)
    BY <1>7
  <2>2. Becomes(c, NoServer, NoRemote, Blamed(wire[c], l))
    BY <1>2, <2>1 DEF Becomes, CloseBoth, ServerClosed, Report
  <2>3. /\ Blamed(wire[c], l) \in WireRecords
        /\ Blamed(wire[c], l).up = wire[c].up /\ Blamed(wire[c], l).down = wire[c].down
        /\ Blamed(wire[c], l).got = wire[c].got /\ Blamed(wire[c], l).rgot = wire[c].rgot
        /\ "SUSPICIOUS" \notin Blamed(wire[c], l).blame
    BY <1>1, <1>4, BlamedFacts
  <2> QED BY <1>1, <1>2, <1>3, <2>2, <2>3, Closes
<1>8. CASE Report(c, "SUSPICIOUS") /\ srv[c].stage \in BelowParse
  <2> DEFINE w == Blamed(wire[c], "SUSPICIOUS")
  <2>1. Becomes(c, NoServer, NoRemote, w)
    BY <1>2, <1>8 DEF Becomes, CloseBoth, ServerClosed, Report
  <2>2. /\ w \in WireRecords /\ w.up = wire[c].up /\ w.down = wire[c].down
        /\ w.got = wire[c].got /\ w.rgot = wire[c].rgot
    BY <1>1, BlamedFacts DEF Levels
  <2>3. wire[c].up = <<>>
    BY <1>1, <1>8 DEF Data, EarlyData, BelowParse
  <2> QED BY <1>1, <1>2, <1>3, <2>1, <2>2, <2>3, Closes
<1> QED BY <1>5, <1>6, <1>7, <1>8
-----------------------------------------------------------------------------
(* Accepting, and the connection up to the request. *)

LEMMA AcceptMoves ==
    ASSUME DataInv, NEW c \in Conns, Accept(c)
    PROVE  Moved(c)
<1>1. /\ TypeOK /\ rem[c] = NoRemote /\ srv[c].stage = "FREE" /\ fastOpen' = fastOpen
  BY ConnFacts DEF Accept, Control
<1>2. PICK q \in Requests : wire' = [wire EXCEPT ![c] = NewWire(q)]
  BY DEF Accept
<1>3. Becomes(c, NewServer, NoRemote, NewWire(q))
  BY <1>1, <1>2 DEF Accept, Becomes, TypeOK
<1>4. /\ NewServer.stage = "INIT" /\ NewServer.io = {"recv"} /\ NewServer.hdr = 0
      /\ NewServer.buf.len = 0
  BY DEF NewServer, NoServer, Buf
<1>5. /\ NewWire(q).got = 0 /\ NewWire(q).rgot = 0 /\ NewWire(q).up = <<>>
      /\ NewWire(q).down = <<>> /\ NewWire(q).blame = {}
  BY DEF NewWire
<1>6. NoRemote.io = {}
  BY DEF NoRemote
<1>7. Data(NewServer, NoRemote, NewWire(q))
  BY <1>4, <1>5, <1>6, HeaderSizes, OrderedEmpty
     DEF Data, EarlyData, UpData, DownData, BlameData
<1>8. Begins(srv[c], NewServer, NewWire(q))
  BY <1>1, <1>4, <1>5 DEF Begins
<1> QED BY <1>1, <1>3, <1>7, <1>8, RecordTypes DEF Moved

\* a connection whose request is not known, the server_t it will have, and its
\* wire once the units just read are counted
Listening(c, s, w) ==
    /\ Handshaking(c, s)
    /\ w \in WireRecords
    /\ w.up = <<>> /\ w.down = <<>> /\ w.rgot = 0 /\ "SUSPICIOUS" \notin w.blame
    /\ wire[c].up = <<>> /\ wire[c].down = <<>> /\ wire[c].rgot = 0
    /\ wire[c].got <= w.got

LEMMA ListeningFacts ==
    ASSUME DataInv, NEW c \in Conns, NEW s, NEW w, Listening(c, s, w)
    PROVE  /\ TypeOK /\ rem[c] = NoRemote /\ ~Linked(c) /\ c \notin dns
           /\ s \in ServerRecords /\ s.io = {"recv"} /\ srv[c].stage # "FREE"
           /\ s.hdr \in Nat /\ s.held \in Nat /\ w.got \in Nat /\ wire[c].got \in Nat
<1>1. ControlInv /\ TypeOK /\ wire[c].got \in Nat
  BY ConnFacts
<1>2. /\ rem[c] = NoRemote /\ ~Linked(c) /\ c \notin dns
      /\ s \in ServerRecords /\ s.io = {"recv"} /\ srv[c].stage # "FREE"
  BY <1>1, HandshakingFacts DEF Listening, Handshaking
<1>3. s.hdr \in Nat /\ s.held \in Nat
  BY <1>2 DEF ServerRecords
<1>4. w.got \in Nat
  BY RelayAssumption DEF Listening, WireRecords
<1> QED BY <1>1, <1>2, <1>3, <1>4

\* A connection that stays below the stream, and has sent nothing.
LEMMA StillListening ==
    ASSUME DataInv, NEW c \in Conns, NEW s, NEW w, Listening(c, s, w),
           NEW s2 \in ServerRecords, s2.io = {"recv"},
           s2.stage \in {"INIT", "HANDSHAKE", "ERROR"},
           EarlyData(s2, w),
           Becomes(c, s2, NoRemote, w), fastOpen' => fastOpen
    PROVE  Moved(c)
<1>1. srv[c].stage # "FREE" /\ w \in WireRecords
  BY ListeningFacts DEF Listening
<1>2. NoRemote.io = {}
  BY DEF NoRemote
<1>3. Data(s2, NoRemote, w)
  BY <1>2, HeaderSizes, OrderedEmpty DEF Data, UpData, DownData, BlameData, Listening
<1>4. Continues(srv[c], wire[c], s2, w)
  BY <1>1 DEF Continues, Listening
<1> QED BY <1>1, <1>3, <1>4, RecordTypes DEF Moved

\* A client refused, with whatever is said of it but suspicion.
LEMMA RefusedMoves ==
    ASSUME DataInv, NEW c \in Conns, NEW s, NEW w, Listening(c, s, w),
           CloseServer(c), wire' = [wire EXCEPT ![c] = w], fastOpen' => fastOpen
    PROVE  Moved(c)
<1>1. /\ ~Linked(c) /\ srv[c].stage # "FREE"
  BY ListeningFacts
<1>2. Becomes(c, NoServer, NoRemote, w)
  BY <1>1, CloseServerBecomes
<1> QED BY <1>1, <1>2, Closes DEF Listening

\* What connect_to_remote took with the SYN, and what is left.
LEMMA ConnectFacts ==
    ASSUME DataInv, NEW b \in Buffers, NEW o \in ConnectResults(b.len)
    PROVE  LET left == Advanced(b, o.sent) IN
           /\ o.ok \in BOOLEAN /\ o.sent \in Nat /\ o.sent <= b.len
           /\ o.fo => fastOpen
           /\ ~FastOpen => o.sent = 0
           /\ left \in Buffers /\ left.base = b.base /\ left.idx = b.idx + o.sent
           /\ left.len = b.len - o.sent
           /\ Drained(left) \in Buffers
           /\ LinkedRemote(left, 0) \in RemoteRecords
           /\ LinkedRemote(left, left.idx) \in RemoteRecords
<1>1. TypeOK /\ b.len \in Nat /\ b.idx \in Nat /\ (fastOpen => FastOpen)
  BY DEF DataInv, ControlInv, Buffers
<1>2. /\ o.ok \in BOOLEAN /\ o.sent \in Nat /\ o.sent <= b.len
      /\ Advanced(b, o.sent) \in Buffers /\ Drained(Advanced(b, o.sent)) \in Buffers
  BY <1>1, ConnectTypes
<1>3. (o.fo => fastOpen) /\ (~fastOpen => o.sent = 0)
  <2>1. CASE fastOpen
    BY <2>1
  <2>2. CASE ~fastOpen
    <3>1. \/ o \in [ok : {FALSE}, sent : {0}, fo : {fastOpen, FALSE}]
          \/ o \in [ok : {TRUE}, sent : {0}, fo : {FALSE}]
      BY <2>2 DEF ConnectResults
    <3> QED BY <2>2, <3>1
  <2> QED BY <2>1, <2>2
<1>4. LET left == Advanced(b, o.sent) IN
      left.base = b.base /\ left.idx = b.idx + o.sent /\ left.len = b.len - o.sent
  BY DEF Advanced, Buffers
<1>5. LET left == Advanced(b, o.sent) IN
      /\ LinkedRemote(left, 0) \in RemoteRecords
      /\ LinkedRemote(left, left.idx) \in RemoteRecords
  <2>1. Advanced(b, o.sent).idx \in Nat /\ 0 \in Nat
    BY <1>1, <1>2, <1>4
  <2> QED BY <1>2, <2>1, BufferTypes
<1> QED BY <1>1, <1>2, <1>3, <1>4, <1>5

\* The remote_t just linked holds all that is left, from + the base on.
LEMMA LinkedFacts ==
    ASSUME NEW sb \in Buffers, NEW from \in Nat
    PROVE  LET m == LinkedRemote(sb, from) IN
           /\ m.state = "connecting" /\ m.io = {"send"}
           /\ m.buf.len = sb.len
           /\ sb.len > 0 => m.buf.base + m.buf.idx = sb.base + from
<1>1. sb.len \in Nat /\ sb.base \in Int
  BY DEF Buffers
<1>2. CASE sb.len > 0
  BY <1>1, <1>2 DEF LinkedRemote, Buf
<1>3. CASE sb.len = 0
  BY <1>3 DEF LinkedRemote, NoBytes, Buf
<1> QED BY <1>1, <1>2, <1>3

\* The server_t and the wire after a connect that took the first o.sent units
\* of b; what is left is in the remote_t m.
LEMMA ConnectData ==
    ASSUME NEW s \in ServerRecords, NEW m \in RemoteRecords, NEW w \in WireRecords,
           NEW b \in Buffers, NEW n \in Nat, n <= b.len,
           s.stage \in {"PARSE", "RESOLVE"}, s.io = {},
           Ordered(w.up, HdrEnd), Len(w.up) = 0,
           w.down = <<>>, w.rgot = 0, "SUSPICIOUS" \notin w.blame,
           w.got = HdrEnd + s.held + b.len,
           b.base + b.idx = HdrEnd + 1,
           m.state = "connecting", m.io = {"send"}, m.buf.len = b.len - n,
           NoRepeat /\ m.buf.len > 0 => m.buf.base + m.buf.idx = HdrEnd + 1 + n
    PROVE  LET w2 == WithUp(w, b, b.idx, n) IN
           /\ Data(s, m, w2) /\ w2 \in WireRecords
           /\ w2.got = w.got /\ w2.rgot = w.rgot /\ w2.down = w.down /\ Len(w2.up) = n
<1> DEFINE w2 == WithUp(w, b, b.idx, n)
<1>1. b.len \in Nat /\ b.idx \in Nat /\ b.base \in Int /\ s.held \in Nat
  BY DEF Buffers, ServerRecords
<1>3. /\ w2 \in WireRecords
      /\ w2.down = w.down /\ w2.got = w.got /\ w2.rgot = w.rgot /\ w2.blame = w.blame
      /\ Len(w2.up) = Len(w.up) + n
  BY <1>1, WithUpFacts
<1>2. w2 \in WireRecords
  BY <1>3
<1>5. Len(w2.up) = n
  BY <1>3
<1>6. Ordered(w2.up, HdrEnd)
  <2>1. n > 0 => b.base + b.idx = HdrEnd + Len(w.up) + 1
    BY <1>1, HeaderSizes
  <2> QED BY <1>1, <2>1, WithUpOrdered
<1> HIDE DEF w2
<1>7. Waiting(s, m) = s.held + (b.len - n)
  BY DEF Waiting
<1>8. EarlyData(s, w2)
  BY DEF EarlyData
<1>9. UpData(s, m, w2)
  <2>1. w2.got = HdrEnd + Len(w2.up) + Waiting(s, m)
    <3>1. w2.got = HdrEnd + s.held + b.len
      BY <1>3
    <3> QED BY <1>1, <3>1, <1>5, <1>7, HeaderSizes
  <2>2. NoRepeat /\ m.buf.len > 0 => m.buf.base + m.buf.idx = HdrEnd + 1 + Len(w2.up)
    BY <1>5
  <2>3. m.state # "none"
    OBVIOUS
  <2> QED BY <1>6, <2>1, <2>2, <2>3 DEF UpData
<1>10. DownData(s, w2)
  BY <1>3, OrderedEmpty DEF DownData
<1>11. BlameData(s, w2)
  BY <1>3 DEF BlameData
<1> QED BY <1>3, <1>5, <1>8, <1>9, <1>10, <1>11 DEF Data, w2

LEMMA ConnectDirectMoves ==
    ASSUME DataInv, NEW c \in Conns, NEW s, NEW w, Listening(c, s, w),
           NEW b \in Buffers, b.base = HdrEnd + 1, b.idx = 0,
           w.got = HdrEnd + s.held + b.len, w.req.kind = "literal",
           ConnectDirect(c, s, w, b)
    PROVE  Moved(c)
<1>1. PICK o \in ConnectResults(b.len) :
        /\ fastOpen' = o.fo
        /\ LET left == Advanced(b, o.sent) IN
           IF ~o.ok
           THEN CloseServer(c) /\ wire' = [wire EXCEPT ![c] = w]
           ELSE /\ srv' = [srv EXCEPT ![c] = [s EXCEPT !.stage = "PARSE", !.io = {},
                                                       !.buf = Drained(left)]]
                /\ rem' = [rem EXCEPT ![c] = LinkedRemote(left, 0)]
                /\ wire' = [wire EXCEPT ![c] =
                               [w EXCEPT !.up = @ \o Units(b, b.idx, o.sent)]]
  BY DEF ConnectDirect
<1> DEFINE left == Advanced(b, o.sent)
           s2 == [s EXCEPT !.stage = "PARSE", !.io = {}, !.buf = Drained(left)]
           m2 == LinkedRemote(left, 0)
           w2 == WithUp(w, b, b.idx, o.sent)
<1>2. /\ o.ok \in BOOLEAN /\ o.sent \in Nat /\ o.sent <= b.len
      /\ o.fo => fastOpen
      /\ ~FastOpen => o.sent = 0
      /\ left \in Buffers /\ left.base = b.base /\ left.len = b.len - o.sent
      /\ Drained(left) \in Buffers /\ m2 \in RemoteRecords
  BY ConnectFacts
<1>3. /\ s \in ServerRecords /\ w \in WireRecords /\ s.held \in Nat
      /\ srv[c].stage # "FREE"
  BY ListeningFacts DEF Listening
<1>4. CASE ~o.ok
  BY <1>1, <1>2, <1>4, RefusedMoves
<1>5. CASE o.ok
  <2>1. s2 \in ServerRecords
    BY <1>2, <1>3 DEF ServerRecords, Watchers, Stages
  <2>2. s2.stage = "PARSE" /\ s2.io = {} /\ s2.held = s.held
    BY <1>3 DEF ServerRecords
  <2>3. /\ m2.state = "connecting" /\ m2.io = {"send"} /\ m2.buf.len = b.len - o.sent
        /\ m2.buf.len > 0 => m2.buf.base + m2.buf.idx = b.base + 0
    BY <1>2, LinkedFacts
  <2>4. NoRepeat => o.sent = 0
    <3>1. w.req \in Requests
      BY <1>3 DEF WireRecords
    <3> QED BY <1>2, <3>1 DEF NoRepeat
  <2>5. NoRepeat /\ m2.buf.len > 0 => m2.buf.base + m2.buf.idx = HdrEnd + 1 + o.sent
    BY <2>3, <2>4, HeaderSizes
  <2>6. Data(s2, m2, w2) /\ w2 \in WireRecords
    <3> HIDE DEF s2, m2
    <3>1. b.base + b.idx = HdrEnd + 1
      BY HeaderSizes
    <3>2. w.got = HdrEnd + s2.held + b.len
      BY <2>2
    <3>3. Ordered(w.up, HdrEnd) /\ Len(w.up) = 0
      BY HeaderSizes, OrderedEmpty DEF Listening
    <3> QED BY <1>2, <1>3, <2>1, <2>2, <2>3, <2>5, <3>1, <3>2, <3>3, ConnectData
            DEF Listening
  <2>7. Becomes(c, s2, m2, w2)
    BY <1>1, <1>5 DEF Becomes, WithUp
  <2>8. Continues(srv[c], wire[c], s2, w2)
    <3>1. w2.got = w.got /\ w2.rgot = w.rgot /\ w2.down = w.down
      BY <1>3 DEF WireRecords, WithUp
    <3>2. Len(w2.up) \in Nat
      BY <2>6 DEF WireRecords
    <3> QED BY <1>3, <2>2, <3>1, <3>2 DEF Continues, Listening
  <2> QED BY <1>1, <1>2, <2>1, <2>6, <2>7, <2>8 DEF Moved
<1> QED BY <1>2, <1>4, <1>5

LEMMA AskResolverMoves ==
    ASSUME DataInv, NEW c \in Conns, NEW s, NEW w, Listening(c, s, w),
           NEW b \in Buffers, b.base = HdrEnd + 1, b.idx = 0,
           w.got = HdrEnd + s.held + b.len,
           AskResolver(c, s, w, b)
    PROVE  Moved(c)
<1>1. PICK a \in BOOLEAN :
        /\ srv' = [srv EXCEPT ![c] = [s EXCEPT !.stage = "RESOLVE", !.io = {},
                                               !.query = a, !.buf = b]]
        /\ wire' = [wire EXCEPT ![c] = w]
        /\ UNCHANGED <<rem, fastOpen>>
  BY DEF AskResolver
<1> DEFINE s2 == [s EXCEPT !.stage = "RESOLVE", !.io = {}, !.query = a, !.buf = b]
<1>2. /\ s \in ServerRecords /\ w \in WireRecords /\ s.held \in Nat
      /\ srv[c].stage # "FREE" /\ TypeOK /\ rem[c] = NoRemote
  BY ListeningFacts DEF Listening
<1>3. s2 \in ServerRecords
  BY <1>2 DEF ServerRecords, Watchers, Stages
<1>4. /\ s2.stage = "RESOLVE" /\ s2.io = {} /\ s2.held = s.held /\ s2.buf = b
  BY <1>2 DEF ServerRecords
<1>5. NoRemote.state = "none" /\ NoRemote.io = {}
  BY DEF NoRemote
<1>6. Becomes(c, s2, NoRemote, w)
  BY <1>1, <1>2 DEF Becomes, TypeOK
<1> HIDE DEF s2
<1>7. b.len \in Nat
  BY DEF Buffers
<1>8. UpData(s2, NoRemote, w)
  BY <1>2, <1>4, <1>5, <1>7, HeaderSizes, OrderedEmpty DEF UpData, Waiting, Listening
<1>9. EarlyData(s2, w) /\ DownData(s2, w) /\ BlameData(s2, w)
  BY <1>4, OrderedEmpty DEF EarlyData, DownData, BlameData, Listening
<1>10. Continues(srv[c], wire[c], s2, w)
  BY <1>2, <1>4 DEF Continues, Listening
<1> QED BY <1>1, <1>2, <1>3, <1>6, <1>8, <1>9, <1>10, RecordTypes DEF Moved, Data

\* b is all of the plain text read so far, from the header on
LEMMA HandleRequestMoves ==
    ASSUME DataInv, NEW c \in Conns, NEW s, NEW w, Listening(c, s, w),
           NEW b \in Buffers, b.base = HdrStart, w.got = IvLen + b.len,
           HandleRequest(c, s, w, b)
    PROVE  Moved(c)
<1> DEFINE payload == b.len - HdrLen
           AsPayload(k) == Buf(b.base + HdrLen, 0, k)
           Parsed(k) == [s EXCEPT !.hdr = 0, !.auth = w.req.auth, !.held = payload - k]
<1>1. ASSUME NEW l \in Levels \ {"SUSPICIOUS"}
      PROVE  Listening(c, s, Blamed(w, l))
  BY BlamedFacts DEF Listening
<1>2. ASSUME NEW v, Listening(c, s, v), Refuse(c, v)
      PROVE  Moved(c)
  BY <1>2, RefusedMoves DEF Refuse
<1>3. CASE \/ Refuse(c, w)
           \/ \E l \in Levels \ {"SUSPICIOUS"} : Refuse(c, Blamed(w, l))
  BY <1>1, <1>2, <1>3
<1>4. ASSUME b.len >= HdrLen, NEW k \in Released(w.req, payload)
      PROVE  /\ Listening(c, Parsed(k), w) /\ AsPayload(k) \in Buffers
             /\ AsPayload(k).base = HdrEnd + 1 /\ AsPayload(k).idx = 0
             /\ w.got = HdrEnd + Parsed(k).held + AsPayload(k).len
  <2>8. s \in ServerRecords
    BY ListeningFacts
  <2>9. w.req.auth \in BOOLEAN
    BY RelayAssumption DEF Listening, WireRecords
  <2>1. payload \in Nat /\ w.req.auth \in BOOLEAN /\ s \in ServerRecords
    BY <1>4, <2>8, <2>9, HeaderSizes DEF Buffers
  <2>2. k \in Nat /\ payload - k \in Nat
    BY <2>1, ReleasedType
  <2>3. /\ AsPayload(k).base = HdrEnd + 1 /\ AsPayload(k).idx = 0 /\ AsPayload(k).len = k
        /\ AsPayload(k) \in Buffers
    BY <2>2, HeaderSizes DEF Buf, Buffers
  <2>4. Parsed(k) \in ServerRecords /\ Parsed(k).held = payload - k
    BY <2>1, <2>2 DEF ServerRecords
  <2>5. Handshaking(c, Parsed(k))
    BY <2>1, <2>4 DEF Listening, Handshaking, ServerRecords
  <2>6. b.len \in Nat
    BY DEF Buffers
  <2>7. w.got = HdrEnd + (payload - k) + k
    BY <2>2, <2>6, HeaderSizes
  <2> QED BY <2>3, <2>4, <2>5, <2>7 DEF Listening
<1>5. ASSUME b.len >= HdrLen, NEW k \in Released(w.req, payload),
             w.req.kind = "literal", ConnectDirect(c, Parsed(k), w, AsPayload(k))
      PROVE  Moved(c)
  BY <1>4, <1>5, ConnectDirectMoves
<1>6. ASSUME b.len >= HdrLen, NEW k \in Released(w.req, payload),
             AskResolver(c, Parsed(k), w, AsPayload(k))
      PROVE  Moved(c)
  BY <1>4, <1>6, AskResolverMoves
<1> QED BY <1>3, <1>5, <1>6 DEF HandleRequest, Levels

LEMMA HandshakeStepMoves ==
    ASSUME DataInv, NEW c \in Conns, NEW s, NEW w, Listening(c, s, w),
           NEW b \in Buffers, w.got = IvLen + s.hdr + b.len,
           HandshakeStep(c, s, w, b)
    PROVE  Moved(c)
<1>1. PICK verdict \in HeaderVerdicts(w.req, b) :
        IF verdict = 1
        THEN HandleRequest(c, s, w, Buf(HdrStart, 0, s.hdr + b.len))
        ELSE /\ srv' = [srv EXCEPT ![c] =
                   [s EXCEPT !.stage = IF verdict = -1 THEN "ERROR" ELSE "HANDSHAKE",
                             !.hdr = @ + b.len, !.buf = Buf(0, 0, 0)]]
             /\ wire' = [wire EXCEPT ![c] = w]
             /\ UNCHANGED <<rem, dns, fastOpen>>
  BY DEF HandshakeStep
<1>2. /\ s \in ServerRecords /\ s.io = {"recv"} /\ rem[c] = NoRemote /\ TypeOK
      /\ s.hdr + b.len \in Nat
  BY ListeningFacts DEF Buffers
<1>3. CASE verdict = 1
  <2> DEFINE b2 == Buf(HdrStart, 0, s.hdr + b.len)
  <2>1. b2 \in Buffers /\ b2.base = HdrStart /\ b2.len = s.hdr + b.len
    BY <1>2, HeaderSizes DEF Buf, Buffers
  <2>2. w.got = IvLen + b2.len
    <3>1. s.hdr \in Nat /\ b.len \in Nat
      BY <1>2 DEF ServerRecords, Buffers
    <3> QED BY <2>1, <3>1, HeaderSizes
  <2> QED BY <1>1, <1>3, <2>1, <2>2, HandleRequestMoves
<1>4. CASE verdict # 1
  <2> DEFINE s2 == [s EXCEPT !.stage = IF verdict = -1 THEN "ERROR" ELSE "HANDSHAKE",
                             !.hdr = @ + b.len, !.buf = Buf(0, 0, 0)]
  <2>1. s2 \in ServerRecords
    <3>1. Buf(0, 0, 0) \in Buffers
      BY BufferTypes
    <3> QED BY <1>2, <3>1 DEF ServerRecords, Stages
  <2>2. s2.stage \in {"HANDSHAKE", "ERROR"} /\ s2.io = s.io /\ s2.hdr = s.hdr + b.len
    BY <1>2 DEF ServerRecords
  <2>3. EarlyData(s2, w)
    <3>1. s.hdr \in Nat /\ b.len \in Nat
      BY <1>2 DEF ServerRecords, Buffers
    <3>2. IvLen + (s.hdr + b.len) = IvLen + s.hdr + b.len
      BY <3>1, HeaderSizes
    <3> HIDE DEF s2
    <3> QED BY <2>2, <3>2 DEF EarlyData, Listening
  <2>4. Becomes(c, s2, NoRemote, w) /\ fastOpen' = fastOpen
    BY <1>1, <1>2, <1>4 DEF Becomes, TypeOK
  <2> QED BY <1>2, <2>1, <2>2, <2>3, <2>4, StillListening
<1> QED BY <1>3, <1>4

LEMMA InitStepMoves ==
    ASSUME DataInv, NEW c \in Conns, NEW s, NEW w, Listening(c, s, w), s.hdr = 0,
           NEW b \in Buffers, b.base = HdrStart, w.got = IvLen + b.len,
           InitStep(c, s, w, b)
    PROVE  Moved(c)
<1>1. /\ s \in ServerRecords /\ s.io = {"recv"} /\ rem[c] = NoRemote /\ TypeOK
  BY ListeningFacts
<1>2. CASE HandleRequest(c, s, w, b)
  BY <1>2, HandleRequestMoves
<1>3. CASE HandshakeStep(c, s, w, b)
  <2>1. w.got = IvLen + s.hdr + b.len
    BY HeaderSizes DEF Buffers
  <2> QED BY <1>3, <2>1, HandshakeStepMoves
<1>4. CASE /\ srv' = [srv EXCEPT ![c] = [s EXCEPT !.stage = "ERROR", !.buf = NoBytes]]
           /\ wire' = [wire EXCEPT ![c] = Blamed(w, "MALFORMED")]
           /\ UNCHANGED <<rem, dns, fastOpen>>
  <2> DEFINE s2 == [s EXCEPT !.stage = "ERROR", !.buf = NoBytes]
             w2 == Blamed(w, "MALFORMED")
  <2>1. s2 \in ServerRecords
    BY <1>1, BufferTypes DEF ServerRecords, Stages
  <2>2. s2.stage = "ERROR" /\ s2.io = s.io
    BY <1>1 DEF ServerRecords
  <2>3. Listening(c, s, w2)
    BY BlamedFacts DEF Listening, Levels
  <2>4. EarlyData(s2, w2)
    BY <2>2, <2>3 DEF EarlyData, Listening
  <2>5. Becomes(c, s2, NoRemote, w2) /\ fastOpen' = fastOpen
    BY <1>1, <1>4 DEF Becomes, TypeOK
  <2> QED BY <1>1, <2>1, <2>2, <2>3, <2>4, <2>5, StillListening
<1> QED BY <1>2, <1>3, <1>4 DEF InitStep

LEMMA ReceivedFacts ==
    ASSUME DataInv, NEW c \in Conns, NEW r \in FromClient(c)
    PROVE  /\ r \in Nat /\ r > 0 /\ Received(c, r) \in WireRecords
           /\ Received(c, r).got = wire[c].got + r
           /\ Received(c, r).rgot = wire[c].rgot
           /\ Received(c, r).up = wire[c].up /\ Received(c, r).down = wire[c].down
           /\ Received(c, r).blame = wire[c].blame
           /\ Received(c, r).req = wire[c].req
<1>1. r \in Nat /\ Received(c, r) \in WireRecords /\ wire[c] \in WireRecords
  BY ReceivedType, ConnFacts
<1>2. r > 0
  BY DEF FromClient
<1> QED BY <1>1, <1>2 DEF Received, WireRecords

\* A read of a connection whose request is not known.
LEMMA ReadFacts ==
    ASSUME DataInv, NEW c \in Conns, srv[c].stage \in {"INIT", "HANDSHAKE"},
           NEW r \in FromClient(c)
    PROVE  Listening(c, srv[c], Received(c, r))
<1>1. /\ Data(srv[c], rem[c], wire[c]) /\ wire[c].got \in Nat /\ ControlInv
  BY ConnFacts
<1>2. Handshaking(c, srv[c])
  BY <1>1, HandshakingFacts
<1>3. /\ wire[c].up = <<>> /\ wire[c].down = <<>> /\ wire[c].rgot = 0
      /\ "SUSPICIOUS" \notin wire[c].blame
  BY <1>1 DEF Data, EarlyData, DownData, BlameData
<1>4. wire[c].got <= wire[c].got + r
  BY <1>1, ReceivedFacts
<1> QED BY <1>2, <1>3, <1>4, ReceivedFacts DEF Listening

LEMMA RecvInitMoves ==
    ASSUME DataInv, NEW c \in Conns, RecvInit(c)
    PROVE  Moved(c)
<1> DEFINE total(r) == srv[c].buf.len + r
<1>1. /\ srv[c].stage = "INIT" /\ TypeOK /\ srv[c] \in ServerRecords
      /\ srv[c].io = {"recv"} /\ rem[c] = NoRemote
      /\ wire[c].got = srv[c].buf.len /\ srv[c].hdr = 0
      /\ srv[c].buf \in Buffers /\ srv[c].buf.len \in Nat
  BY ConnFacts DEF RecvInit, Control, Data, EarlyData
<1>2. PICK r \in FromClient(c) :
        IF total(r) <= IvLen + 1
        THEN /\ srv' = [srv EXCEPT ![c].buf.len = total(r)]
             /\ wire' = [wire EXCEPT ![c] = Received(c, r)]
             /\ UNCHANGED <<rem, dns, fastOpen>>
        ELSE InitStep(c, srv[c], Received(c, r), Buf(HdrStart, 0, total(r) - IvLen))
  BY DEF RecvInit
<1>3. /\ Listening(c, srv[c], Received(c, r)) /\ r \in Nat
      /\ Received(c, r).got = total(r) /\ total(r) \in Nat
  BY <1>1, ReadFacts, ReceivedFacts
<1>4. CASE total(r) <= IvLen + 1
  <2> DEFINE b2 == [srv[c].buf EXCEPT !.len = total(r)]
             s2 == [srv[c] EXCEPT !.buf = b2]
  <2>1. b2 \in Buffers /\ b2.len = total(r)
    BY <1>1, <1>3 DEF Buffers
  <2>2. /\ s2 \in ServerRecords /\ s2.stage = "INIT" /\ s2.io = srv[c].io
        /\ s2.hdr = 0 /\ s2.buf = b2
    BY <1>1, <2>1 DEF ServerRecords
  <2>3. EarlyData(s2, Received(c, r))
    <3> HIDE DEF s2, b2
    <3> QED BY <1>3, <2>1, <2>2 DEF EarlyData, Listening
  <2>4. Becomes(c, s2, NoRemote, Received(c, r)) /\ fastOpen' = fastOpen
    BY <1>1, <1>2, <1>4 DEF Becomes, TypeOK
  <2> QED BY <1>1, <1>3, <2>2, <2>3, <2>4, StillListening
<1>5. CASE ~(total(r) <= IvLen + 1)
  <2> DEFINE b == Buf(HdrStart, 0, total(r) - IvLen)
  <2>1. b \in Buffers /\ b.base = HdrStart /\ b.len = total(r) - IvLen
    BY <1>3, <1>5, HeaderSizes DEF Buf, Buffers
  <2>2. Received(c, r).got = IvLen + b.len
    BY <1>3, <2>1, HeaderSizes
  <2> QED BY <1>1, <1>2, <1>3, <1>5, <2>1, <2>2, InitStepMoves
<1> QED BY <1>4, <1>5

LEMMA RecvHandshakeMoves ==
    ASSUME DataInv, NEW c \in Conns, RecvHandshake(c)
    PROVE  Moved(c)
<1>1. /\ srv[c].stage = "HANDSHAKE" /\ srv[c] \in ServerRecords
      /\ wire[c].got = IvLen + srv[c].hdr /\ wire[c].got \in Nat
  BY ConnFacts DEF RecvHandshake, Data, EarlyData
<1>2. PICK r \in FromClient(c) :
        HandshakeStep(c, srv[c], Received(c, r), Buf(wire[c].got + 1, 0, r))
  BY DEF RecvHandshake
<1>3. /\ Listening(c, srv[c], Received(c, r)) /\ r \in Nat
      /\ Received(c, r).got = wire[c].got + r
  BY <1>1, ReadFacts, ReceivedFacts
<1>4. Buf(wire[c].got + 1, 0, r) \in Buffers /\ Buf(wire[c].got + 1, 0, r).len = r
  BY <1>1, <1>3 DEF Buf, Buffers
<1>5. Received(c, r).got = IvLen + srv[c].hdr + r
  BY <1>1, <1>3
<1> QED BY <1>2, <1>3, <1>4, <1>5, HandshakeStepMoves

LEMMA RecvDropMoves ==
    ASSUME DataInv, NEW c \in Conns, RecvDrop(c)
    PROVE  Moved(c)
<1>1. /\ srv[c].stage = "ERROR" /\ TypeOK /\ srv[c] \in ServerRecords
      /\ srv[c].io = {"recv"} /\ rem[c] = NoRemote
      /\ Data(srv[c], rem[c], wire[c]) /\ wire[c].got \in Nat /\ wire[c].rgot \in Nat
      /\ wire[c].up \in Seq(Int) /\ wire[c].down \in Seq(Int)
  BY ConnFacts DEF RecvDrop, Control
<1>2. PICK r \in FromClient(c) : wire' = [wire EXCEPT ![c] = Received(c, r)]
  BY DEF RecvDrop
<1> DEFINE s2 == [srv[c] EXCEPT !.buf = NoBytes]
           w2 == Received(c, r)
<1>3. s2 \in ServerRecords /\ s2.stage = "ERROR" /\ s2.io = srv[c].io
  BY <1>1, BufferTypes DEF ServerRecords
<1>4. /\ w2 \in WireRecords /\ w2.up = wire[c].up /\ w2.down = wire[c].down
      /\ w2.rgot = wire[c].rgot /\ w2.blame = wire[c].blame /\ wire[c].got <= w2.got
  BY <1>1, ReceivedFacts
<1>5. Becomes(c, s2, NoRemote, w2) /\ fastOpen' = fastOpen
  BY <1>1, <1>2 DEF RecvDrop, Becomes, TypeOK
<1> HIDE DEF s2, w2
<1>6. NoRemote.io = {}
  BY DEF NoRemote
<1>7. Data(s2, NoRemote, w2)
  BY <1>1, <1>3, <1>4, <1>6 DEF Data, EarlyData, UpData, DownData, BlameData
<1>8. Continues(srv[c], wire[c], s2, w2)
  BY <1>1, <1>3, <1>4 DEF Continues
<1> QED BY <1>3, <1>4, <1>5, <1>7, <1>8, RecordTypes DEF Moved

-----------------------------------------------------------------------------
(* The resolver's answer, and the timers. *)

LEMMA ResolveFailedMoves ==
    ASSUME DataInv, NEW c \in Conns, ResolveFailed(c)
    PROVE  Moved(c)
<1>1. /\ TypeOK /\ ~Linked(c) /\ srv[c].stage = "RESOLVE" /\ wire[c] \in WireRecords
      /\ Data(srv[c], rem[c], wire[c]) /\ wire[c].got \in Nat /\ wire[c].rgot \in Nat
  BY QueryFacts, ConnFacts DEF ResolveFailed
<1>2. wire' = [wire EXCEPT ![c] = wire[c]] /\ fastOpen' = fastOpen
  BY <1>1 DEF ResolveFailed, TypeOK
<1>3. Becomes(c, NoServer, NoRemote, wire[c])
  BY <1>1, <1>2, CloseServerBecomes DEF ResolveFailed
<1> QED BY <1>1, <1>2, <1>3, Closes DEF Data, BlameData

LEMMA ResolvedMoves ==
    ASSUME DataInv, NEW c \in Conns, Resolved(c)
    PROVE  Moved(c)
<1> DEFINE sb == srv[c].buf
<1>1. /\ TypeOK /\ ~Linked(c) /\ srv[c].stage = "RESOLVE" /\ rem[c] = NoRemote
      /\ srv[c].io = {} /\ srv[c] \in ServerRecords
      /\ wire[c] \in WireRecords /\ sb \in Buffers /\ sb.len \in Nat
      /\ Data(srv[c], rem[c], wire[c]) /\ wire[c].got \in Nat /\ wire[c].rgot \in Nat
      /\ srv[c].held \in Nat
  BY QueryFacts, ConnFacts DEF Resolved
<1>2. PICK o \in ConnectResults(sb.len) :
        LET left == Advanced(sb, o.sent) IN
        /\ fastOpen' = o.fo
        /\ IF ~o.ok
           THEN CloseServer(c) /\ UNCHANGED wire
           ELSE /\ srv' = [srv EXCEPT ![c].query = FALSE, ![c].buf = Drained(left)]
                /\ rem' = [rem EXCEPT ![c] = LinkedRemote(left, left.idx)]
                /\ wire' = [wire EXCEPT ![c].up = @ \o Units(sb, sb.idx, o.sent)]
  BY DEF Resolved
<1> DEFINE left == Advanced(sb, o.sent)
           s2 == [srv[c] EXCEPT !.query = FALSE, !.buf = Drained(left)]
           m2 == LinkedRemote(left, left.idx)
           w2 == WithUp(wire[c], sb, sb.idx, o.sent)
<1>3. /\ o.ok \in BOOLEAN /\ o.sent \in Nat /\ o.sent <= sb.len
      /\ o.fo => fastOpen
      /\ left \in Buffers /\ left.base = sb.base /\ left.idx = sb.idx + o.sent
      /\ left.len = sb.len - o.sent
      /\ Drained(left) \in Buffers /\ m2 \in RemoteRecords
  BY <1>1, ConnectFacts
<1>4. /\ wire[c].up = <<>> /\ wire[c].down = <<>> /\ wire[c].rgot = 0
      /\ "SUSPICIOUS" \notin wire[c].blame
      /\ sb.base + sb.idx = HdrEnd + 1
      /\ wire[c].got = HdrEnd + srv[c].held + sb.len
  <2>1. Waiting(srv[c], rem[c]) = srv[c].held + sb.len /\ rem[c].state = "none"
    BY <1>1 DEF Waiting, NoRemote
  <2>2. wire[c].up = <<>> /\ sb.base + sb.idx = HdrEnd + 1
    BY <1>1, <2>1 DEF Data, UpData
  <2>3. wire[c].got = HdrEnd + srv[c].held + sb.len
    BY <1>1, <2>1, <2>2, HeaderSizes DEF Data, UpData
  <2> QED BY <1>1, <2>2, <2>3 DEF Data, DownData, BlameData
<1>5. CASE ~o.ok
  <2>1. wire' = [wire EXCEPT ![c] = wire[c]]
    BY <1>1, <1>2, <1>5 DEF TypeOK
  <2>2. Becomes(c, NoServer, NoRemote, wire[c])
    BY <1>1, <1>2, <1>5, <2>1, CloseServerBecomes
  <2> QED BY <1>1, <1>2, <1>3, <1>4, <2>2, Closes
<1>6. CASE o.ok
  <2>1. /\ s2 \in ServerRecords /\ s2.stage = "RESOLVE" /\ s2.io = {}
        /\ s2.held = srv[c].held
    BY <1>1, <1>3 DEF ServerRecords
  <2>2. /\ m2.state = "connecting" /\ m2.io = {"send"} /\ m2.buf.len = sb.len - o.sent
        /\ m2.buf.len > 0 => m2.buf.base + m2.buf.idx = sb.base + left.idx
    <3>1. left.idx \in Nat
      BY <1>3 DEF Buffers
    <3> QED BY <1>3, <3>1, LinkedFacts
  <2>3. m2.buf.len > 0 => m2.buf.base + m2.buf.idx = HdrEnd + 1 + o.sent
    <3>1. sb.base \in Int /\ sb.idx \in Nat
      BY <1>1 DEF Buffers
    <3> QED BY <1>3, <1>4, <2>2, <3>1, HeaderSizes
  <2>4. Ordered(wire[c].up, HdrEnd) /\ Len(wire[c].up) = 0
    BY <1>4, HeaderSizes, OrderedEmpty
  <2>5. /\ Data(s2, m2, w2) /\ w2 \in WireRecords
        /\ w2.got = wire[c].got /\ w2.rgot = wire[c].rgot /\ w2.down = wire[c].down
        /\ Len(w2.up) = o.sent
    <3> HIDE DEF s2, m2, left, sb
    <3>1. /\ s2 \in ServerRecords /\ m2 \in RemoteRecords /\ wire[c] \in WireRecords
          /\ sb \in Buffers /\ o.sent \in Nat /\ o.sent <= sb.len
          /\ s2.stage = "RESOLVE" /\ s2.io = {}
          /\ wire[c].down = <<>> /\ wire[c].rgot = 0 /\ "SUSPICIOUS" \notin wire[c].blame
          /\ wire[c].got = HdrEnd + s2.held + sb.len /\ sb.base + sb.idx = HdrEnd + 1
      BY <1>1, <1>3, <1>4, <2>1
    <3> QED BY <2>2, <2>3, <2>4, <3>1, ConnectData
  <2>6. Becomes(c, s2, m2, w2)
    BY <1>2, <1>6 DEF Becomes, WithUp
  <2>7. Continues(srv[c], wire[c], s2, w2)
    <3> HIDE DEF w2, s2
    <3> QED BY <1>1, <1>3, <1>4, <2>1, <2>4, <2>5 DEF Continues
  <2> QED BY <1>2, <1>3, <2>1, <2>5, <2>6, <2>7 DEF Moved
<1> QED BY <1>3, <1>5, <1>6

\* A callback that changes the timer of an open connection and nothing else.
LEMMA TimerMoves ==
    ASSUME DataInv, NEW c \in Conns,
           RecvAgain(c) \/ RemoteRecvAgain(c) \/ TimerExpires(c)
    PROVE  Moved(c)
<1>1. /\ TypeOK /\ ControlInv /\ srv[c] \in ServerRecords /\ rem[c] \in RemoteRecords
      /\ wire[c] \in WireRecords /\ Data(srv[c], rem[c], wire[c])
      /\ wire[c].got \in Nat /\ wire[c].rgot \in Nat
      /\ wire[c].up \in Seq(Int) /\ wire[c].down \in Seq(Int)
      /\ Control(srv[c], rem[c], c \in dns)
  BY ConnFacts
<1>2. PICK t \in {"armed", "due"} : srv' = [srv EXCEPT ![c].timer = t]
  BY DEF RecvAgain, RemoteRecvAgain, TimerExpires
<1>3. UNCHANGED <<rem, wire, fastOpen>>
  BY DEF RecvAgain, RemoteRecvAgain, TimerExpires
<1>4. srv[c].stage # "FREE"
  <2>1. srv[c].io # {} \/ rem[c].io # {} \/ srv[c].timer = "armed"
    BY DEF RecvAgain, RemoteRecvAgain, TimerExpires
  <2> QED BY <1>1, <2>1, ConnectedFacts DEF Control, NoServer
<1> DEFINE s2 == [srv[c] EXCEPT !.timer = t]
<1>5. /\ s2 \in ServerRecords /\ s2.stage = srv[c].stage /\ s2.io = srv[c].io
      /\ s2.buf = srv[c].buf /\ s2.held = srv[c].held /\ s2.hdr = srv[c].hdr
  BY <1>1 DEF ServerRecords
<1>6. Becomes(c, s2, rem[c], wire[c])
  BY <1>1, <1>2, <1>3 DEF Becomes, TypeOK
<1> HIDE DEF s2
<1>7. Waiting(s2, rem[c]) = Waiting(srv[c], rem[c])
  BY <1>5 DEF Waiting
<1>8. Data(s2, rem[c], wire[c])
  BY <1>1, <1>5, <1>7 DEF Data, EarlyData, UpData, DownData, BlameData
<1>9. Continues(srv[c], wire[c], s2, wire[c])
  BY <1>1, <1>4, <1>5 DEF Continues
<1> QED BY <1>1, <1>3, <1>5, <1>6, <1>8, <1>9 DEF Moved

-----------------------------------------------------------------------------
(* Streaming. *)

\* r units of the client were read, k let through, and n of them sent.
LEMMA StreamData ==
    ASSUME NEW s \in ServerRecords, NEW m \in RemoteRecords,
           NEW w \in WireRecords, NEW r \in Nat, w.got + r <= MaxUp,
           NEW k \in Released(w.req, s.held + r), NEW n \in 0..k,
           Data(s, m, w), s.stage = "STREAM", m.state = "connected", "send" \notin m.io
    PROVE  LET b  == StreamBuf(s, m, w, k)
               w2 == WithUp([w EXCEPT !.got = @ + r], b, 0, n)
           IN  /\ Data(StreamServer(s, r, k, n), StreamRemote(m, b, k, n), w2)
               /\ w2 \in WireRecords
               /\ w2.got = w.got + r /\ w2.rgot = w.rgot /\ w2.down = w.down
               /\ Len(w2.up) = Len(w.up) + n
<1> DEFINE b  == StreamBuf(s, m, w, k)
           s2 == StreamServer(s, r, k, n)
           m2 == StreamRemote(m, b, k, n)
           w1 == [w EXCEPT !.got = @ + r]
           w2 == WithUp(w1, b, 0, n)
<1>2. /\ s.held \in Nat /\ w.got \in Nat /\ Len(w.up) \in Nat
      /\ s.held + r \in Nat
  <2>1. s.held \in Nat
    BY DEF ServerRecords
  <2>2. w.got \in Nat
    BY RelayAssumption DEF WireRecords
  <2>3. Len(w.up) \in Nat
    BY DEF WireRecords
  <2> QED BY <2>1, <2>2, <2>3
<1>20. PICK l \in Nat : Len(w.up) = l
  BY <1>2
<1>3. k \in Nat /\ n \in Nat /\ n <= k
  BY <1>2, ReleasedType
<1>4. /\ b \in Buffers /\ b.len = k /\ b.base = w.got - s.held + 1
  <2>1. b \in Buffers /\ b.len = k
    BY StreamedTypes
  <2> QED BY <2>1 DEF StreamBuf, Buf
<1>5. w.got = HdrEnd + Len(w.up) + s.held
  BY <1>2, HdrEndType DEF Data, UpData, Waiting
<1>6. /\ w1 \in WireRecords
      /\ w1.got = w.got + r /\ w1.rgot = w.rgot /\ w1.down = w.down /\ w1.up = w.up
      /\ w1.blame = w.blame
  <2>1. w.got + r \in 0..MaxUp
    <3>1. MaxUp \in Nat
      BY RelayAssumption
    <3>2. w.got \in Nat
      BY <1>2
    <3>3. PICK g \in Nat : g = w.got + r
      BY <3>2
    <3>4. g <= MaxUp
      BY <3>3
    <3> QED BY <3>1, <3>3, <3>4
  <2> QED BY <2>1 DEF WireRecords
<1>7. /\ w2 \in WireRecords
      /\ w2.got = w.got + r /\ w2.rgot = w.rgot /\ w2.down = w.down
      /\ w2.blame = w.blame /\ Len(w2.up) = Len(w.up) + n
      /\ NoRepeat => Ordered(w2.up, HdrEnd)
  <2> HIDE DEF w1, b
  <2>1. /\ w2 \in WireRecords
        /\ w2.got = w1.got /\ w2.rgot = w1.rgot /\ w2.down = w1.down
        /\ w2.blame = w1.blame /\ Len(w2.up) = Len(w1.up) + n
    BY <1>3, <1>4, <1>6, WithUpFacts
  <2>2. ASSUME NoRepeat PROVE Ordered(w2.up, HdrEnd)
    <3>1. Ordered(w1.up, HdrEnd)
      BY <1>6, <2>2 DEF Data, UpData
    <3>2. b.base + 0 = HdrEnd + Len(w1.up) + 1
      BY <1>2, <1>4, <1>5, <1>6, <1>20, HdrEndType
    <3> QED BY <1>3, <1>4, <1>6, <3>1, <3>2, WithUpOrdered
  <2> QED BY <1>6, <2>1, <2>2
<1>8. /\ s2.stage = "STREAM" /\ s2.held = s.held + r - k
      /\ s2.io = Paused(s.io, n < k) /\ s2.buf = s.buf
  BY DEF ServerRecords, StreamServer
<1>9. /\ m2.state = "connected"
      /\ m2.io = Armed(m.io, n < k) /\ m2.buf = AfterSend(b, n)
  BY DEF RemoteRecords, StreamRemote
<1> HIDE DEF s2, m2, w1, w2, b
<1>10. "send" \in m2.io <=> n < k
  BY <1>9 DEF Armed
<1>11. n < k => m2.buf.base = b.base /\ m2.buf.idx = n /\ m2.buf.len = k - n
  BY <1>4, <1>9 DEF AfterSend, Buf
<1>21. PICK l2 \in Nat : Len(w2.up) = l2
  BY <1>2, <1>3, <1>7
<1>22. PICK h \in Nat : s.held = h
  BY <1>2
<1>23. PICK g \in Nat : w.got = g
  BY <1>2
<1>24. g = HdrEnd + l + h /\ l2 = l + n /\ w2.got = g + r
  BY <1>5, <1>7, <1>20, <1>21, <1>22, <1>23
<1>12. w2.got = HdrEnd + Len(w2.up) + Waiting(s2, m2)
  <2>1. Waiting(s2, m2) = (h + r - k) + (k - n)
    <3>1. CASE n < k
      BY <1>8, <1>9, <1>10, <1>11, <1>22, <3>1 DEF Waiting
    <3>2. CASE ~(n < k)
      <4>1. Waiting(s2, m2) = (h + r - k) + 0
        BY <1>8, <1>9, <1>10, <1>22, <3>2 DEF Waiting
      <4>2. n = k
        BY <1>3, <3>2
      <4>3. (h + r - k) + 0 = (h + r - k) + (k - n)
        BY <1>3, <4>2
      <4> QED BY <4>1, <4>3
    <3> QED BY <3>1, <3>2
  <2>2. g + r = HdrEnd + l2 + ((h + r - k) + (k - n))
    BY <1>3, <1>24, HdrEndType
  <2> QED BY <1>21, <1>24, <2>1, <2>2
<1>13. "send" \in m2.io => m2.buf.base + m2.buf.idx = HdrEnd + 1 + Len(w2.up)
  <2> SUFFICES ASSUME n < k
               PROVE  m2.buf.base + m2.buf.idx = HdrEnd + 1 + Len(w2.up)
    BY <1>10
  <2>1. m2.buf.base + m2.buf.idx = (g - h + 1) + n
    BY <1>4, <1>11, <1>22, <1>23
  <2>2. (g - h + 1) + n = HdrEnd + 1 + l2
    BY <1>3, <1>24, HdrEndType
  <2> QED BY <1>21, <2>1, <2>2
<1>14. UpData(s2, m2, w2)
  BY <1>7, <1>8, <1>12, <1>13 DEF UpData
<1>15. "send" \in s2.io <=> "send" \in s.io
  BY <1>8 DEF Paused
<1>16. DownData(s2, w2)
  BY <1>7, <1>8, <1>15 DEF Data, DownData
<1>17. EarlyData(s2, w2) /\ BlameData(s2, w2)
  BY <1>7, <1>8 DEF Data, EarlyData, BlameData
<1> QED BY <1>7, <1>14, <1>16, <1>17 DEF Data, s2, m2, w1, w2, b

LEMMA RecvStreamMoves ==
    ASSUME DataInv, NEW c \in Conns, RecvStream(c)
    PROVE  Moved(c)
<1>1. /\ TypeOK /\ Control(srv[c], rem[c], c \in dns)
      /\ srv[c] \in ServerRecords /\ rem[c] \in RemoteRecords
      /\ wire[c] \in WireRecords /\ Data(srv[c], rem[c], wire[c])
      /\ srv[c].stage = "STREAM" /\ "recv" \in srv[c].io
      /\ wire[c].got \in Nat /\ wire[c].rgot \in Nat
      /\ wire[c].up \in Seq(Int) /\ wire[c].down \in Seq(Int)
  BY ConnFacts DEF RecvStream
<1> DEFINE Step1(r, k, n) ==
        LET b == Buf(wire[c].got - srv[c].held + 1, rem[c].buf.idx, k)
            blocked == n < k
        IN  /\ rem' = [rem EXCEPT ![c].buf = AfterSend(b, n),
                                  ![c].io = Armed(@, blocked)]
            /\ srv' = [srv EXCEPT ![c].timer = "armed",
                                  ![c].held = @ + r - k,
                                  ![c].io = Paused(@, blocked)]
            /\ wire' = [wire EXCEPT ![c] = [Received(c, r) EXCEPT
                                              !.up = @ \o Units(b, 0, n)]]
<1>2. PICK r \in FromClient(c) :
        \E k \in Released(wire[c].req, srv[c].held + r) : \E n \in 0..k : Step1(r, k, n)
  BY DEF RecvStream
<1>3. PICK k \in Released(wire[c].req, srv[c].held + r) :
        \E n \in 0..k : Step1(r, k, n)
  BY <1>2
<1>4. PICK n \in 0..k : Step1(r, k, n)
  BY <1>3
<1> DEFINE b  == StreamBuf(srv[c], rem[c], wire[c], k)
           s2 == StreamServer(srv[c], r, k, n)
           m2 == StreamRemote(rem[c], b, k, n)
           w1 == Received(c, r)
           w2 == WithUp(w1, b, 0, n)
<1>5. /\ r \in Nat /\ w1 \in WireRecords
      /\ w1.got = wire[c].got + r /\ w1.rgot = wire[c].rgot
      /\ w1.up = wire[c].up /\ w1.down = wire[c].down /\ w1.blame = wire[c].blame
  BY ReceivedFacts
<1>6. Becomes(c, s2, m2, w2)
  BY <1>4 DEF Becomes, StreamServer, StreamRemote, StreamBuf, WithUp
<1>7. s2 \in ServerRecords /\ m2 \in RemoteRecords /\ s2.stage = "STREAM" /\ n \in Nat
  <2>1. s2 \in ServerRecords /\ m2 \in RemoteRecords /\ n \in Nat
    BY <1>1, <1>5, StreamedTypes
  <2> QED BY <1>1, <2>1 DEF StreamServer, ServerRecords
<1>8. /\ Data(s2, m2, w2) /\ w2 \in WireRecords
      /\ w2.got = wire[c].got + r /\ w2.rgot = wire[c].rgot
      /\ w2.down = wire[c].down /\ Len(w2.up) = Len(wire[c].up) + n
  <2>1. rem[c].state = "connected" /\ "send" \notin rem[c].io
    BY <1>1 DEF Control
  <2>2. /\ r \in Nat /\ wire[c].got + r <= MaxUp
        /\ k \in Released(wire[c].req, srv[c].held + r) /\ n \in 0..k
    BY <1>4, <1>5 DEF FromClient
  <2>3. w2 = WithUp([wire[c] EXCEPT !.got = @ + r], b, 0, n)
    BY DEF Received
  <2> HIDE DEF s2, m2, w2, b
  <2>5. /\ srv[c] \in ServerRecords /\ rem[c] \in RemoteRecords /\ wire[c] \in WireRecords
        /\ Data(srv[c], rem[c], wire[c]) /\ srv[c].stage = "STREAM"
    BY <1>1
  <2>4. /\ Data(StreamServer(srv[c], r, k, n),
                StreamRemote(rem[c], StreamBuf(srv[c], rem[c], wire[c], k), k, n),
                WithUp([wire[c] EXCEPT !.got = @ + r],
                       StreamBuf(srv[c], rem[c], wire[c], k), 0, n))
        /\ w2 \in WireRecords
        /\ w2.got = wire[c].got + r /\ w2.rgot = wire[c].rgot
        /\ w2.down = wire[c].down /\ Len(w2.up) = Len(wire[c].up) + n
    <3> HIDE DEF Step1, w1
    <3>1. LET v == WithUp([wire[c] EXCEPT !.got = @ + r],
                          StreamBuf(srv[c], rem[c], wire[c], k), 0, n)
          IN  /\ Data(StreamServer(srv[c], r, k, n),
                      StreamRemote(rem[c], StreamBuf(srv[c], rem[c], wire[c], k), k, n), v)
              /\ v \in WireRecords
              /\ v.got = wire[c].got + r /\ v.rgot = wire[c].rgot
              /\ v.down = wire[c].down /\ Len(v.up) = Len(wire[c].up) + n
      BY <2>1, <2>2, <2>5, StreamData
    <3> QED BY <2>3, <3>1 DEF b
  <2> QED BY <2>3, <2>4 DEF s2, m2, b
<1> HIDE DEF s2, m2, w2
<1>9. Continues(srv[c], wire[c], s2, w2)
  BY <1>1, <1>5, <1>7, <1>8 DEF Continues
<1>10. fastOpen' = fastOpen
  BY DEF RecvStream
<1> QED BY <1>6, <1>7, <1>8, <1>9, <1>10 DEF Moved

\* r units came from the target, and n of them were sent on at once.
LEMMA AnswerData ==
    ASSUME NEW s \in ServerRecords, NEW m \in RemoteRecords,
           NEW w \in WireRecords, NEW b \in Buffers,
           NEW n \in 0..b.len,
           Data(s, m, w), s.stage = "STREAM", m.state = "connected", "send" \notin s.io,
           b.base = w.rgot + 1, w.rgot + b.len <= MaxDown
    PROVE  LET w2 == WithDown([w EXCEPT !.rgot = @ + b.len], b, 0, n)
           IN  /\ Data(AnswerServer(s, b, b.len, n), AnswerRemote(m, b.len, n), w2)
               /\ w2 \in WireRecords
               /\ w2.got = w.got /\ w2.rgot = w.rgot + b.len /\ w2.up = w.up
               /\ Len(w2.down) = Len(w.down) + n
<1> DEFINE s2 == AnswerServer(s, b, b.len, n)
           m2 == AnswerRemote(m, b.len, n)
           w1 == [w EXCEPT !.rgot = @ + b.len]
           w2 == WithDown(w1, b, 0, n)
<1>2. /\ b.len \in Nat /\ n \in Nat /\ n <= b.len /\ w.rgot \in Nat
      /\ w.down \in Seq(Int) /\ Len(w.down) \in Nat
  BY RelayAssumption DEF WireRecords, Buffers
<1>20. PICK l \in Nat : Len(w.down) = l
  BY <1>2
<1>3. w.rgot = Len(w.down)
  BY <1>2 DEF Data, DownData
<1>4. /\ w1 \in WireRecords
      /\ w1.got = w.got /\ w1.rgot = w.rgot + b.len /\ w1.down = w.down /\ w1.up = w.up
      /\ w1.blame = w.blame
  <2>1. w.rgot + b.len \in 0..MaxDown
    BY <1>2, RelayAssumption
  <2> QED BY <2>1 DEF WireRecords
<1>5. /\ w2 \in WireRecords
      /\ w2.got = w.got /\ w2.rgot = w.rgot + b.len /\ w2.up = w.up
      /\ w2.blame = w.blame /\ Len(w2.down) = Len(w.down) + n
      /\ Ordered(w2.down, 0)
  <2> HIDE DEF w1
  <2>0. w1 \in WireRecords /\ b \in Buffers /\ 0 \in Nat /\ n \in Nat
    BY <1>2, <1>4
  <2>1. /\ w2 \in WireRecords
        /\ w2.got = w1.got /\ w2.rgot = w1.rgot /\ w2.up = w1.up
        /\ w2.blame = w1.blame /\ Len(w2.down) = Len(w1.down) + n
    BY <2>0, WithDownFacts
  <2>2. Ordered(w1.down, 0)
    BY <1>4 DEF Data, DownData
  <2>3. b.base + 0 = Len(w1.down) + 1
    BY <1>2, <1>3, <1>4, <1>20
  <2>4. Ordered(w2.down, 0)
    BY <1>2, <1>4, <2>2, <2>3, WithDownOrdered
  <2> QED BY <1>4, <2>1, <2>4
<1>6. /\ s2.stage = "STREAM" /\ s2.held = s.held
      /\ s2.io = Armed(s.io, n < b.len) /\ s2.buf = AfterSend(b, n)
  BY DEF ServerRecords, AnswerServer
<1>7. /\ m2.state = "connected" /\ m2.io = Paused(m.io, n < b.len) /\ m2.buf = m.buf
  BY DEF RemoteRecords, AnswerRemote
<1> HIDE DEF s2, m2, w1, w2
<1>8. "send" \in s2.io <=> n < b.len
  BY <1>6 DEF Armed
<1>9. n < b.len => s2.buf.base = b.base /\ s2.buf.idx = n /\ s2.buf.len = b.len - n
  BY <1>6 DEF AfterSend, Buf
<1>10. "send" \in m2.io <=> "send" \in m.io
  BY <1>7 DEF Paused
<1>11. DownData(s2, w2)
  <2>1. w2.rgot = Len(w2.down) + IF "send" \in s2.io THEN s2.buf.len ELSE 0
    <3>1. CASE n < b.len
      BY <1>2, <1>3, <1>5, <1>8, <1>9, <1>20, <3>1
    <3>2. CASE ~(n < b.len)
      <4>1. n = b.len /\ "send" \notin s2.io
        BY <1>2, <1>8, <3>2
      <4>2. w2.rgot = l + n /\ Len(w2.down) = l + n
        BY <1>3, <1>5, <1>20, <4>1
      <4> QED BY <1>2, <4>1, <4>2
    <3> QED BY <3>1, <3>2
  <2>2. "send" \in s2.io => s2.buf.base + s2.buf.idx = Len(w2.down) + 1
    <3> SUFFICES ASSUME n < b.len
                 PROVE  s2.buf.base + s2.buf.idx = Len(w2.down) + 1
      BY <1>8
    <3>1. s2.buf.base + s2.buf.idx = (w.rgot + 1) + n
      BY <1>9
    <3> QED BY <1>2, <1>3, <1>5, <1>20, <3>1
  <2> QED BY <1>5, <1>6, <2>1, <2>2 DEF DownData
<1>12. UpData(s2, m2, w2)
  <2>1. Waiting(s2, m2) = Waiting(s, m)
    BY <1>6, <1>7, <1>10 DEF Waiting
  <2> QED BY <1>5, <1>6, <1>7, <1>10, <2>1 DEF Data, UpData
<1>13. EarlyData(s2, w2) /\ BlameData(s2, w2)
  BY <1>5, <1>6 DEF Data, EarlyData, BlameData
<1> QED BY <1>5, <1>11, <1>12, <1>13 DEF Data, s2, m2, w1, w2

LEMMA RemoteRecvMoves ==
    ASSUME DataInv, NEW c \in Conns, RemoteRecv(c)
    PROVE  Moved(c)
<1>1. /\ TypeOK /\ Control(srv[c], rem[c], c \in dns) /\ ControlInv
      /\ srv[c] \in ServerRecords /\ rem[c] \in RemoteRecords
      /\ wire[c] \in WireRecords /\ Data(srv[c], rem[c], wire[c])
      /\ "recv" \in rem[c].io
      /\ wire[c].got \in Nat /\ wire[c].rgot \in Nat /\ srv[c].buf.idx \in Nat
      /\ wire[c].up \in Seq(Int) /\ wire[c].down \in Seq(Int)
  BY ConnFacts DEF RemoteRecv
<1>2. srv[c].stage # "FREE"
  BY <1>1, ConnectedFacts
<1> DEFINE b(r) == Buf(wire[c].rgot + 1, srv[c].buf.idx, r)
           Step1(r, n) ==
               /\ srv' = [srv EXCEPT ![c].timer = "armed",
                                     ![c].buf = AfterSend(b(r), n),
                                     ![c].io = Armed(@, n < r)]
               /\ rem' = [rem EXCEPT ![c].io = Paused(@, n < r)]
               /\ wire' = [wire EXCEPT ![c].rgot = @ + r,
                                       ![c].down = @ \o Units(b(r), 0, n)]
<1>3. PICK r \in FromTarget(c) : \E n \in 0..r : Step1(r, n)
  BY DEF RemoteRecv
<1>4. PICK n \in 0..r : Step1(r, n)
  BY <1>3
<1>5. r \in Nat /\ wire[c].rgot + r \in 0..MaxDown /\ n \in Nat
  BY <1>1, RelayAssumption DEF FromTarget, WireRecords
<1>6. b(r) \in Buffers /\ b(r).len = r /\ b(r).base = wire[c].rgot + 1
  BY <1>1, <1>5 DEF Buf, Buffers
<1> DEFINE s2 == AnswerServer(srv[c], b(r), r, n)
           m2 == AnswerRemote(rem[c], r, n)
           w1 == [wire[c] EXCEPT !.rgot = @ + r]
           w2 == WithDown(w1, b(r), 0, n)
<1>7. /\ w1 \in WireRecords /\ w1.got = wire[c].got /\ w1.rgot = wire[c].rgot + r
      /\ w1.up = wire[c].up /\ w1.down = wire[c].down /\ w1.blame = wire[c].blame
  BY <1>1, <1>5 DEF WireRecords
<1>8. s2 \in ServerRecords /\ m2 \in RemoteRecords
  BY <1>1, <1>6, AnswerTypes
<1>9. s2.stage = srv[c].stage
  BY <1>1 DEF AnswerServer, ServerRecords
<1>10. Becomes(c, s2, m2, w2)
  <2>1. wire' = [wire EXCEPT ![c] = w2]
    BY <1>1, <1>4 DEF WireRecords, WithDown
  <2> QED BY <1>4, <2>1 DEF Becomes, AnswerServer, AnswerRemote
<1>11. /\ Data(s2, m2, w2) /\ w2 \in WireRecords
       /\ w2.got = wire[c].got /\ w2.rgot = wire[c].rgot + r
       /\ w2.up = wire[c].up /\ Len(w2.down) = Len(wire[c].down) + n
  <2>1. /\ srv[c].stage = "STREAM" /\ rem[c].state = "connected"
        /\ "send" \notin srv[c].io
    <3>1. rem[c].state # "none"
      BY <1>1 DEF Control, NoRemote
    <3>2. srv[c].stage = "STREAM"
      BY <1>1, <3>1 DEF Control
    <3> QED BY <1>1, <3>2 DEF Control
  <2>2. /\ b(r) \in Buffers /\ n \in 0..b(r).len /\ wire[c].rgot + b(r).len <= MaxDown
    BY <1>4, <1>5, <1>6, RelayAssumption
  <2>3. w2 = WithDown([wire[c] EXCEPT !.rgot = @ + r], b(r), 0, n)
    OBVIOUS
  <2> HIDE DEF w1, w2, s2, m2, b
  <2>4. /\ Data(AnswerServer(srv[c], b(r), b(r).len, n), AnswerRemote(rem[c], b(r).len, n),
                WithDown([wire[c] EXCEPT !.rgot = @ + b(r).len], b(r), 0, n))
        /\ LET v == WithDown([wire[c] EXCEPT !.rgot = @ + b(r).len], b(r), 0, n)
           IN  /\ v \in WireRecords
               /\ v.got = wire[c].got /\ v.rgot = wire[c].rgot + b(r).len
               /\ v.up = wire[c].up /\ Len(v.down) = Len(wire[c].down) + n
    BY <1>1, <1>6, <2>1, <2>2, AnswerData
  <2> QED BY <1>6, <2>3, <2>4 DEF s2, m2
<1> HIDE DEF s2, m2, w2
<1>12. Continues(srv[c], wire[c], s2, w2)
  BY <1>1, <1>2, <1>5, <1>9, <1>11 DEF Continues
<1>13. fastOpen' = fastOpen
  BY DEF RemoteRecv
<1> QED BY <1>8, <1>10, <1>11, <1>12, <1>13 DEF Moved

-----------------------------------------------------------------------------
(* Flushing the remote's buffer. *)

LEMMA ClearedFacts ==
    ASSUME NEW w \in WireRecords, NEW x
    PROVE  LET w2 == ClearedIf(x, w) IN
           /\ w2 \in WireRecords
           /\ w2.got = w.got /\ w2.rgot = w.rgot /\ w2.down = w.down /\ w2.up = w.up
           /\ w2.blame \subseteq w.blame
  BY DEF ClearedIf, WireRecords

\* The n units of the remote's buffer that went out continue the stream.
LEMMA SentUpFacts ==
    ASSUME NEW s, NEW m \in RemoteRecords, NEW w \in WireRecords,
           NEW n \in Nat, NEW x, UpData(s, m, w), "send" \in m.io, m.buf.len > 0
    PROVE  LET w2 == SentUp(ClearedIf(x, w), m.buf, n) IN
           /\ w2 \in WireRecords
           /\ w2.got = w.got /\ w2.rgot = w.rgot /\ w2.down = w.down
           /\ w2.blame \subseteq w.blame
           /\ Len(w2.up) = Len(w.up) + n
           /\ NoRepeat => Ordered(w2.up, HdrEnd)
<1> DEFINE w1 == ClearedIf(x, w)
           w2 == SentUp(w1, m.buf, n)
<1>1. /\ w1 \in WireRecords
      /\ w1.got = w.got /\ w1.rgot = w.rgot /\ w1.down = w.down /\ w1.up = w.up
      /\ w1.blame \subseteq w.blame
  BY ClearedFacts
<1>2. /\ m.buf \in Buffers /\ m.buf.idx \in Nat /\ m.buf.base \in Int
      /\ Len(w.up) \in Nat
  BY DEF RemoteRecords, Buffers, WireRecords
<1>3. w2 = WithUp(w1, m.buf, m.buf.idx, n)
  BY DEF SentUp, WithUp
<1> HIDE DEF w1, w2
<1>4. LET v == WithUp(w1, m.buf, m.buf.idx, n) IN
      /\ v \in WireRecords
      /\ v.got = w1.got /\ v.rgot = w1.rgot /\ v.down = w1.down
      /\ v.blame = w1.blame
      /\ Len(v.up) = Len(w1.up) + n
  <2>1. w1 \in WireRecords /\ m.buf \in Buffers /\ m.buf.idx \in Nat
    BY <1>1, <1>2
  <2> QED BY <2>1, WithUpFacts
<1>5. ASSUME NoRepeat PROVE Ordered(WithUp(w1, m.buf, m.buf.idx, n).up, HdrEnd)
  <2>1. PICK l \in Nat : Len(w.up) = l
    BY <1>2
  <2>2. m.buf.base + m.buf.idx = HdrEnd + 1 + l
    BY <1>5, <2>1 DEF UpData
  <2>3. HdrEnd + 1 + l = HdrEnd + l + 1
    BY HdrEndType
  <2>4. m.buf.base + m.buf.idx = HdrEnd + Len(w1.up) + 1
    BY <1>1, <2>1, <2>2, <2>3
  <2>5. Ordered(w1.up, HdrEnd)
    BY <1>1, <1>5 DEF UpData
  <2> QED BY <1>1, <1>2, <2>4, <2>5, WithUpOrdered
<1> QED BY <1>1, <1>3, <1>4, <1>5 DEF w1, w2

\* The whole of it went out: the connection streams.
LEMMA FlushData ==
    ASSUME NEW s \in ServerRecords, NEW m \in RemoteRecords, NEW w \in WireRecords,
           NEW b \in Buffers, NEW w2 \in WireRecords,
           Data(s, m, w), "send" \in m.io, m.state # "none",
           s.stage \in {"PARSE", "RESOLVE", "STREAM"}, s.stage # "STREAM" => s.io = {},
           w2.got = w.got, w2.rgot = w.rgot, w2.down = w.down,
           w2.blame \subseteq w.blame, Len(w2.up) = Len(w.up) + m.buf.len,
           NoRepeat => Ordered(w2.up, HdrEnd)
    PROVE  Data(FlushedServer(s), FlushedRemote(s, m, b), w2)
<1> DEFINE s2 == FlushedServer(s)
           m2 == FlushedRemote(s, m, b)
<1>1. /\ s2.stage = "STREAM" /\ s2.io = Resumed(s.io) /\ s2.buf = s.buf
      /\ s2.held = s.held
  BY DEF FlushedServer, ServerRecords
<1>2. m2.state = "connected" /\ "send" \notin m2.io
  BY DEF FlushedRemote, RemoteRecords, Resumed
<1>3. /\ s.held \in Nat /\ m.buf.len \in Nat /\ Len(w.up) \in Nat /\ Len(w.down) \in Nat
  BY DEF ServerRecords, RemoteRecords, Buffers, WireRecords
<1> HIDE DEF s2, m2
<1>4. w2.got = HdrEnd + Len(w2.up) + Waiting(s2, m2)
  <2>1. PICK h \in Nat : s.held = h
    BY <1>3
  <2>2. PICK l \in Nat : Len(w.up) = l
    BY <1>3
  <2>3. PICK k \in Nat : m.buf.len = k
    BY <1>3
  <2>4. w.got = HdrEnd + l + (h + k)
    BY <2>1, <2>2, <2>3 DEF Data, UpData, Waiting
  <2>5. Len(w2.up) = l + k
    BY <2>2, <2>3
  <2>6. Waiting(s2, m2) = h + 0
    BY <1>1, <1>2, <2>1 DEF Waiting
  <2>7. HdrEnd + l + (h + k) = HdrEnd + (l + k) + (h + 0)
    BY HdrEndType
  <2> QED BY <2>4, <2>5, <2>6, <2>7
<1>5. UpData(s2, m2, w2)
  BY <1>1, <1>2, <1>4 DEF UpData
<1>6. DownData(s2, w2)
  <2>1. CASE s.stage = "STREAM"
    <3>1. "send" \in s2.io <=> "send" \in s.io
      BY <1>1 DEF Resumed
    <3> QED BY <1>1, <2>1, <3>1 DEF Data, DownData
  <2>2. CASE s.stage # "STREAM"
    <3>1. w.rgot = 0 /\ w.down = <<>>
      BY <2>2 DEF Data, DownData
    <3>2. "send" \notin s2.io
      BY <1>1, <2>2 DEF Resumed
    <3>3. Len(<<>>) + 0 = 0
      OBVIOUS
    <3>4. Ordered(w2.down, 0)
      BY DEF Data, DownData
    <3> QED BY <1>1, <3>1, <3>2, <3>3, <3>4 DEF DownData
  <2> QED BY <2>1, <2>2
<1>7. EarlyData(s2, w2) /\ BlameData(s2, w2)
  BY <1>1 DEF Data, EarlyData, BlameData
<1> QED BY <1>5, <1>6, <1>7 DEF Data, s2, m2

\* A part of it went out.
LEMMA PartialData ==
    ASSUME NEW s \in ServerRecords, NEW m \in RemoteRecords, NEW w \in WireRecords,
           NEW n \in 0..m.buf.len, NEW w2 \in WireRecords, n < m.buf.len,
           Data(s, m, w), "send" \in m.io, m.state # "none",
           s.stage \in {"PARSE", "RESOLVE", "STREAM"},
           w2.got = w.got, w2.rgot = w.rgot, w2.down = w.down,
           w2.blame \subseteq w.blame, Len(w2.up) = Len(w.up) + n,
           NoRepeat => Ordered(w2.up, HdrEnd)
    PROVE  Data(s, PartialRemote(m, Advanced(m.buf, n)), w2)
<1> DEFINE b2 == Advanced(m.buf, n)
           m2 == PartialRemote(m, b2)
<1>1. m2.state = "connected" /\ m2.io = m.io /\ m2.buf = b2
  BY DEF PartialRemote, RemoteRecords
<1>2. /\ s.held \in Nat /\ m.buf.len \in Nat /\ Len(w.up) \in Nat /\ Len(w.down) \in Nat
      /\ m.buf.idx \in Nat /\ m.buf.base \in Int /\ m.buf \in Buffers
  BY DEF ServerRecords, RemoteRecords, Buffers, WireRecords
<1>3. b2.base = m.buf.base /\ b2.idx = m.buf.idx + n /\ b2.len = m.buf.len - n
  BY <1>2 DEF Advanced, Buffers
<1> HIDE DEF b2, m2
<1>20. PICK h \in Nat : s.held = h
  BY <1>2
<1>21. PICK l \in Nat : Len(w.up) = l
  BY <1>2
<1>22. PICK k \in Nat : m.buf.len = k
  BY <1>2
<1>23. n \in Nat
  BY <1>2
<1>24. Len(w2.up) = l + n
  BY <1>21
<1>4. w2.got = HdrEnd + Len(w2.up) + Waiting(s, m2)
  <2>4. w.got = HdrEnd + l + (h + k)
    BY <1>20, <1>21, <1>22 DEF Data, UpData, Waiting
  <2>6. Waiting(s, m2) = h + (k - n)
    BY <1>1, <1>3, <1>20, <1>22 DEF Waiting
  <2>7. HdrEnd + l + (h + k) = HdrEnd + (l + n) + (h + (k - n))
    BY <1>23, HdrEndType
  <2> QED BY <1>24, <2>4, <2>6, <2>7
<1>5. ASSUME NoRepeat PROVE m2.buf.base + m2.buf.idx = HdrEnd + 1 + Len(w2.up)
  <2>1. PICK a \in Int : m.buf.base = a
    BY <1>2
  <2>2. PICK i \in Nat : m.buf.idx = i
    BY <1>2
  <2>3. a + i = HdrEnd + 1 + l
    <3>1. m.buf.base + m.buf.idx = HdrEnd + 1 + Len(w.up)
      BY <1>2, <1>5 DEF Data, UpData
    <3> QED BY <1>21, <2>1, <2>2, <3>1
  <2>4. m2.buf.base = a /\ m2.buf.idx = i + n
    BY <1>1, <1>3, <2>1, <2>2
  <2>5. a + (i + n) = HdrEnd + 1 + (l + n)
    BY <1>23, <2>3, HdrEndType
  <2> QED BY <1>24, <2>4, <2>5
<1>6. UpData(s, m2, w2)
  BY <1>1, <1>4, <1>5 DEF UpData
<1>7. DownData(s, w2)
  BY DEF Data, DownData
<1>8. EarlyData(s, w2) /\ BlameData(s, w2)
  BY DEF Data, EarlyData, BlameData
<1> QED BY <1>6, <1>7, <1>8 DEF Data, m2, b2

LEMMA RemoteSendMoves ==
    ASSUME DataInv, NEW c \in Conns, RemoteSend(c)
    PROVE  Moved(c)
<1> DEFINE b == rem[c].buf
           x == rem[c].state = "connecting"
<1>1. /\ TypeOK /\ Control(srv[c], rem[c], c \in dns)
      /\ srv[c] \in ServerRecords /\ rem[c] \in RemoteRecords
      /\ wire[c] \in WireRecords /\ Data(srv[c], rem[c], wire[c])
      /\ b \in Buffers /\ b.len \in Nat
      /\ wire[c].got \in Nat /\ wire[c].rgot \in Nat
      /\ Len(wire[c].up) \in Nat /\ Len(wire[c].down) \in Nat
  BY ConnFacts
<1>2. "send" \in rem[c].io /\ fastOpen' = fastOpen
  BY DEF RemoteSend
<1>3. /\ rem[c].state # "none" /\ srv[c].stage \in {"PARSE", "RESOLVE", "STREAM"}
      /\ srv[c].stage # "STREAM" => srv[c].io = {}
  BY <1>1, <1>2 DEF Control, NoRemote
<1>4. ASSUME NEW s \in ServerRecords, NEW m \in RemoteRecords, NEW w \in WireRecords,
             Becomes(c, s, m, w), Data(s, m, w), s.stage # "FREE",
             w.got = wire[c].got, w.rgot = wire[c].rgot, w.down = wire[c].down,
             Len(wire[c].up) <= Len(w.up)
      PROVE  Moved(c)
  <2>1. Continues(srv[c], wire[c], s, w)
    BY <1>1, <1>3, <1>4 DEF Continues
  <2> QED BY <1>2, <1>4, <2>1 DEF Moved
<1>5. \A b2 \in Buffers :
        /\ FlushedServer(srv[c]) \in ServerRecords
        /\ FlushedRemote(srv[c], rem[c], b2) \in RemoteRecords
        /\ FlushedServer(srv[c]).stage # "FREE"
  BY <1>1, FlushedTypes DEF FlushedServer, ServerRecords
<1>6. CASE b.len = 0
  <2>1. x
    BY <1>1, <1>2, <1>3, <1>6 DEF Control, RemoteRecords
  <2> DEFINE w2 == ClearedIf(x, wire[c])
  <2>2. /\ srv' = [srv EXCEPT ![c] = FlushedServer(srv[c])]
        /\ wire' = [wire EXCEPT ![c] = w2]
    BY <1>6, <2>1 DEF RemoteSend, FlushedServer, ClearedIf
  <2>3. rem' = [rem EXCEPT ![c] = FlushedRemote(srv[c], rem[c], b)]
    BY <1>1, <1>6, <2>1 DEF RemoteSend, FlushedRemote, RemoteRecords
  <2>4. Becomes(c, FlushedServer(srv[c]), FlushedRemote(srv[c], rem[c], b), w2)
    BY <2>2, <2>3 DEF Becomes
  <2>5. /\ w2 \in WireRecords
        /\ w2.got = wire[c].got /\ w2.rgot = wire[c].rgot /\ w2.down = wire[c].down
        /\ w2.up = wire[c].up /\ w2.blame \subseteq wire[c].blame
    BY <1>1, ClearedFacts
  <2> HIDE DEF w2
  <2>6. Len(w2.up) = Len(wire[c].up) + b.len
    BY <1>1, <1>6, <2>5
  <2>7. NoRepeat => Ordered(w2.up, HdrEnd)
    BY <1>1, <2>5 DEF Data, UpData
  <2>8. Data(FlushedServer(srv[c]), FlushedRemote(srv[c], rem[c], b), w2)
    BY <1>1, <1>2, <1>3, <2>5, <2>6, <2>7, FlushData
  <2>9. Len(wire[c].up) <= Len(w2.up)
    BY <1>1, <2>5
  <2> QED BY <1>1, <1>4, <1>5, <2>4, <2>5, <2>8, <2>9
<1>7. CASE b.len # 0
  <2> DEFINE Streaming(s) == [s EXCEPT !.stage = "STREAM", !.io = Resumed(@)]
             Flushed(m) == [m EXCEPT !.state = "connected",
                                     !.io = IF srv[c].stage = "STREAM" THEN @ \ {"send"}
                                            ELSE Resumed(@ \ {"send"})]
             Cleared(w) == IF x THEN [w EXCEPT !.blame = {}] ELSE w
             Sent(w, n) == [w EXCEPT !.up = @ \o Units(b, b.idx, n)]
  <2>1. PICK n \in 0..b.len :
            /\ wire' = [wire EXCEPT ![c] = Sent(Cleared(@), n)]
            /\ IF n < b.len
               THEN /\ rem' = [rem EXCEPT ![c].state = "connected",
                                          ![c].buf = Advanced(b, n)]
                    /\ UNCHANGED srv
               ELSE /\ rem' = [rem EXCEPT ![c] =
                                   [Flushed(@) EXCEPT !.buf = Buf(b.base, 0, 0)]]
                    /\ srv' = [srv EXCEPT ![c] = Streaming(@)]
    BY <1>7 DEF RemoteSend
  <2> DEFINE w2 == SentUp(ClearedIf(x, wire[c]), b, n)
  <2>2. wire' = [wire EXCEPT ![c] = w2]
    <3>1. wire' = [wire EXCEPT ![c] = Sent(Cleared(wire[c]), n)]
      BY <2>1
    <3> QED BY <3>1 DEF SentUp, ClearedIf
  <2>3. n \in Nat /\ b.len > 0
    BY <1>1, <1>7
  <2>4. /\ w2 \in WireRecords
        /\ w2.got = wire[c].got /\ w2.rgot = wire[c].rgot /\ w2.down = wire[c].down
        /\ w2.blame \subseteq wire[c].blame
        /\ Len(w2.up) = Len(wire[c].up) + n
        /\ NoRepeat => Ordered(w2.up, HdrEnd)
    <3>1. UpData(srv[c], rem[c], wire[c])
      BY <1>1 DEF Data
    <3> HIDE DEF x
    <3> QED BY <1>1, <1>2, <2>3, <3>1, SentUpFacts
  <2>5. CASE n < b.len
    <3> DEFINE m2 == PartialRemote(rem[c], Advanced(b, n))
    <3>1. rem' = [rem EXCEPT ![c] = m2] /\ srv' = srv
      BY <2>1, <2>5 DEF PartialRemote
    <3>2. Becomes(c, srv[c], m2, w2)
      BY <1>1, <2>2, <3>1 DEF Becomes, TypeOK
    <3> HIDE DEF w2
    <3>3. Data(srv[c], m2, w2)
      BY <1>1, <1>2, <1>3, <2>4, <2>5, PartialData
    <3>4. m2 \in RemoteRecords
      BY <1>1, <2>5, AfterSendFacts DEF PartialRemote, RemoteRecords
    <3>5. Len(wire[c].up) <= Len(w2.up)
      BY <1>1, <2>3, <2>4
    <3> HIDE DEF m2
    <3> QED BY <1>1, <1>3, <1>4, <2>4, <3>2, <3>3, <3>4, <3>5
  <2>6. CASE ~(n < b.len)
    <3> DEFINE b2 == Buf(b.base, 0, 0)
               s2 == FlushedServer(srv[c])
               m2 == FlushedRemote(srv[c], rem[c], b2)
    <3>1. rem' = [rem EXCEPT ![c] = m2]
      BY <2>1, <2>6 DEF FlushedRemote
    <3>2. srv' = [srv EXCEPT ![c] = s2]
      BY <2>1, <2>6 DEF FlushedServer
    <3>3. Becomes(c, s2, m2, w2)
      BY <2>2, <3>1, <3>2 DEF Becomes
    <3>4. b2 \in Buffers
      BY <1>1 DEF Buf, Buffers
    <3>5. n = b.len
      BY <1>1, <2>6
    <3> HIDE DEF w2, b2
    <3>6. Data(s2, m2, w2)
      BY <1>1, <1>2, <1>3, <2>4, <3>4, <3>5, FlushData
    <3>7. Len(wire[c].up) <= Len(w2.up)
      BY <1>1, <2>3, <2>4
    <3>8. s2 \in ServerRecords /\ m2 \in RemoteRecords /\ s2.stage # "FREE"
      BY <1>5, <3>4
    <3> HIDE DEF s2, m2
    <3> QED BY <1>4, <2>4, <3>3, <3>6, <3>7, <3>8
  <2> QED BY <2>5, <2>6
<1> QED BY <1>6, <1>7

-----------------------------------------------------------------------------
(* The rest of the answer. *)

LEMMA ServerSendData ==
    ASSUME NEW s \in ServerRecords, NEW m \in RemoteRecords, NEW w \in WireRecords,
           NEW n \in 0..s.buf.len, Data(s, m, w), s.stage = "STREAM", "send" \in s.io,
           m.state = "connected"
    PROVE  LET w2 == WithDown(w, s.buf, s.buf.idx, n) IN
           /\ w2 \in WireRecords
           /\ w2.got = w.got /\ w2.rgot = w.rgot /\ w2.up = w.up
           /\ Len(w2.down) = Len(w.down) + n
           /\ n < s.buf.len => Data(PartialServer(s, n), m, w2)
           /\ n = s.buf.len => Data(DrainedServer(s), ResumedRemote(m), w2)
<1> DEFINE b  == s.buf
           w2 == WithDown(w, b, b.idx, n)
<1>1. /\ b \in Buffers /\ b.len \in Nat /\ b.idx \in Nat /\ b.base \in Int
      /\ n \in Nat /\ n <= b.len /\ w.rgot \in Nat
      /\ Len(w.down) \in Nat
  BY RelayAssumption DEF ServerRecords, Buffers, WireRecords
<1>20. PICK l \in Nat : Len(w.down) = l
  BY <1>1
<1>21. PICK k \in Nat : b.len = k
  BY <1>1
<1>22. w.rgot = l + k
  BY <1>20, <1>21 DEF Data, DownData
<1>23. b.base + b.idx = l + 1
  BY <1>20 DEF Data, DownData
<1>2. LET v == WithDown(w, b, b.idx, n) IN
      /\ v \in WireRecords
      /\ v.got = w.got /\ v.rgot = w.rgot /\ v.up = w.up /\ v.blame = w.blame
      /\ Len(v.down) = Len(w.down) + n
  <2> HIDE DEF b
  <2> QED BY <1>1, WithDownFacts
<1>3. Ordered(w2.down, 0)
  <2>1. Ordered(w.down, 0)
    BY DEF Data, DownData
  <2>2. b.base + b.idx = Len(w.down) + 1
    BY <1>20, <1>23
  <2> HIDE DEF b
  <2> QED BY <1>1, <2>1, <2>2, WithDownOrdered
<1> HIDE DEF w2
<1>4. Len(w2.down) = l + n
  BY <1>2, <1>20 DEF w2
<1>5. /\ w2.got = w.got /\ w2.rgot = l + k /\ w2.up = w.up /\ w2.blame = w.blame
  BY <1>2, <1>22 DEF w2
<1>6. ASSUME n < k PROVE Data(PartialServer(s, n), m, w2)
  <2> DEFINE s2 == PartialServer(s, n)
  <2>1. /\ s2.stage = "STREAM" /\ s2.io = s.io /\ s2.held = s.held /\ s2.hdr = s.hdr
        /\ s2.buf = Advanced(s.buf, n)
    BY DEF PartialServer, ServerRecords
  <2>2. s2.buf.base = b.base /\ s2.buf.idx = b.idx + n /\ s2.buf.len = k - n
    BY <1>1, <1>21, <2>1 DEF Advanced, Buffers
  <2> HIDE DEF s2, b
  <2>3. w2.rgot = Len(w2.down) + s2.buf.len
    <3>1. l + k = (l + n) + (k - n)
      BY <1>1
    <3> QED BY <1>4, <1>5, <2>2, <3>1
  <2>4. s2.buf.base + s2.buf.idx = Len(w2.down) + 1
    <3>1. PICK a \in Int : b.base = a
      BY <1>1
    <3>2. PICK i \in Nat : b.idx = i
      BY <1>1
    <3>3. a + i = l + 1
      BY <1>23, <3>1, <3>2
    <3>4. a + (i + n) = (l + n) + 1
      BY <1>1, <3>3
    <3> QED BY <1>4, <2>2, <3>1, <3>2, <3>4
  <2>5. DownData(s2, w2)
    BY <1>3, <2>1, <2>3, <2>4 DEF DownData
  <2>6. Waiting(s2, m) = Waiting(s, m)
    BY <2>1 DEF Waiting
  <2>7. UpData(s2, m, w2)
    BY <1>5, <2>1, <2>6 DEF Data, UpData
  <2>8. EarlyData(s2, w2) /\ BlameData(s2, w2)
    BY <1>5, <2>1 DEF Data, EarlyData, BlameData
  <2> QED BY <2>5, <2>7, <2>8 DEF Data, s2
<1>7. ASSUME n = k PROVE Data(DrainedServer(s), ResumedRemote(m), w2)
  <2> DEFINE s2 == DrainedServer(s)
             m2 == ResumedRemote(m)
  <2>1. /\ s2.stage = "STREAM" /\ "send" \notin s2.io /\ s2.held = s.held
    BY DEF DrainedServer, ServerRecords
  <2>2. /\ m2.state = m.state /\ m2.buf = m.buf
        /\ ("send" \in m2.io <=> "send" \in m.io)
    BY DEF ResumedRemote, RemoteRecords, Resumed
  <2> HIDE DEF s2, m2, b
  <2>3. w2.rgot = Len(w2.down) + 0
    BY <1>4, <1>5, <1>7
  <2>5. DownData(s2, w2)
    BY <1>3, <2>1, <2>3 DEF DownData
  <2>6. Waiting(s2, m2) = Waiting(s, m)
    BY <2>1, <2>2 DEF Waiting
  <2>7. UpData(s2, m2, w2)
    BY <1>5, <2>1, <2>2, <2>6 DEF Data, UpData
  <2>8. EarlyData(s2, w2) /\ BlameData(s2, w2)
    BY <1>5, <2>1 DEF Data, EarlyData, BlameData
  <2> QED BY <2>5, <2>7, <2>8 DEF Data, s2, m2
<1> QED BY <1>2, <1>6, <1>7, <1>21 DEF w2

LEMMA ServerSendMoves ==
    ASSUME DataInv, NEW c \in Conns, ServerSend(c)
    PROVE  Moved(c)
<1> DEFINE b == srv[c].buf
<1>1. /\ TypeOK /\ Control(srv[c], rem[c], c \in dns) /\ ControlInv
      /\ srv[c] \in ServerRecords /\ rem[c] \in RemoteRecords
      /\ wire[c] \in WireRecords /\ Data(srv[c], rem[c], wire[c])
      /\ b \in Buffers /\ b.len \in Nat /\ b.idx \in Nat
      /\ wire[c].got \in Nat /\ wire[c].rgot \in Nat
      /\ Len(wire[c].up) \in Nat /\ Len(wire[c].down) \in Nat
  BY ConnFacts
<1>2. "send" \in srv[c].io /\ fastOpen' = fastOpen
  BY DEF ServerSend
<1>3. srv[c].stage = "STREAM" /\ rem[c].state = "connected" /\ b.len > 0
  <2>1. srv[c].stage \notin {"FREE", "INIT", "HANDSHAKE", "ERROR", "PARSE", "RESOLVE"}
    BY <1>1, <1>2 DEF Control, NoServer
  <2>2. srv[c].stage = "STREAM"
    BY <1>1, <2>1 DEF ServerRecords, Stages
  <2> QED BY <1>1, <1>2, <2>2 DEF Control
<1>4. PICK n \in 0..b.len :
            /\ wire' = [wire EXCEPT ![c].down = @ \o Units(b, b.idx, n)]
            /\ IF n < b.len
               THEN srv' = [srv EXCEPT ![c].buf = Advanced(b, n)] /\ UNCHANGED rem
               ELSE /\ srv' = [srv EXCEPT ![c].buf = Buf(b.base, 0, 0),
                                          ![c].io = @ \ {"send"}]
                    /\ rem' = [rem EXCEPT ![c].io = Resumed(@)]
  <2>1. ~(rem[c].state = "none" \/ b.len = 0)
    BY <1>1, <1>3
  <2> QED BY <2>1 DEF ServerSend
<1> DEFINE w2 == WithDown(wire[c], b, b.idx, n)
<1>5. wire' = [wire EXCEPT ![c] = w2]
  BY <1>4 DEF WithDown
<1>6. /\ w2 \in WireRecords
      /\ w2.got = wire[c].got /\ w2.rgot = wire[c].rgot /\ w2.up = wire[c].up
      /\ Len(w2.down) = Len(wire[c].down) + n
      /\ n < b.len => Data(PartialServer(srv[c], n), rem[c], w2)
      /\ n = b.len => Data(DrainedServer(srv[c]), ResumedRemote(rem[c]), w2)
  BY <1>1, <1>2, <1>3, ServerSendData
<1>7. n \in Nat
  BY <1>1
<1> HIDE DEF w2
<1>8. ASSUME NEW s \in ServerRecords, NEW m \in RemoteRecords, s.stage = "STREAM",
             Becomes(c, s, m, w2), Data(s, m, w2)
      PROVE  Moved(c)
  <2>1. Continues(srv[c], wire[c], s, w2)
    BY <1>1, <1>3, <1>6, <1>7, <1>8 DEF Continues
  <2> QED BY <1>2, <1>6, <1>8, <2>1 DEF Moved
<1>9. /\ DrainedServer(srv[c]) \in ServerRecords /\ ResumedRemote(rem[c]) \in RemoteRecords
      /\ PartialServer(srv[c], n) \in ServerRecords
  BY <1>1, <1>2, ServerSendFacts
<1>10. DrainedServer(srv[c]).stage = "STREAM" /\ PartialServer(srv[c], n).stage = "STREAM"
  BY <1>1, <1>3 DEF DrainedServer, PartialServer, ServerRecords
<1>11. CASE n < b.len
  <2>1. srv' = [srv EXCEPT ![c] = PartialServer(srv[c], n)]
    BY <1>4, <1>11 DEF PartialServer
  <2>2. rem' = [rem EXCEPT ![c] = rem[c]]
    BY <1>1, <1>4, <1>11 DEF TypeOK
  <2>3. Becomes(c, PartialServer(srv[c], n), rem[c], w2)
    BY <1>5, <2>1, <2>2 DEF Becomes
  <2> QED BY <1>1, <1>6, <1>8, <1>9, <1>10, <1>11, <2>3
<1>12. CASE ~(n < b.len)
  <2>1. srv' = [srv EXCEPT ![c] = DrainedServer(srv[c])]
    BY <1>4, <1>12 DEF DrainedServer
  <2>2. rem' = [rem EXCEPT ![c] = ResumedRemote(rem[c])]
    BY <1>4, <1>12 DEF ResumedRemote
  <2>3. Becomes(c, DrainedServer(srv[c]), ResumedRemote(rem[c]), w2)
    BY <1>5, <2>1, <2>2 DEF Becomes
  <2>4. n = b.len
    BY <1>1, <1>12
  <2> QED BY <1>6, <1>8, <1>9, <1>10, <2>3, <2>4
<1> QED BY <1>11, <1>12

-----------------------------------------------------------------------------
(* The invariant holds, and every step is one of a byte pipe. *)

LEMMA DataInit == ASSUME Init PROVE DataInv
<1>1. ControlInv
  BY ControlInit
<1>2. ASSUME NEW c \in Conns PROVE Data(srv[c], rem[c], wire[c])
  <2>1. srv[c] = NoServer /\ rem[c] = NoRemote
    BY DEF Init
  <2>2. PICK q \in Requests : wire[c] = NewWire(q)
    BY DEF Init
  <2>3. /\ wire[c].got = 0 /\ wire[c].rgot = 0 /\ wire[c].up = <<>>
        /\ wire[c].down = <<>> /\ wire[c].blame = {}
    BY <2>2 DEF NewWire
  <2>4. Ordered(wire[c].up, HdrEnd) /\ Ordered(wire[c].down, 0)
    BY <2>3, HdrEndType, OrderedEmpty
  <2>5. NoServer.stage = "FREE" /\ NoServer.io = {} /\ NoRemote.io = {}
    BY DEF NoServer, NoRemote
  <2> QED BY <2>1, <2>3, <2>4, <2>5
             DEF Data, EarlyData, UpData, DownData, BlameData
<1>3. fastOpen => FastOpen
  BY DEF Init
<1> QED BY <1>1, <1>2, <1>3 DEF DataInv

LEMMA CallbackMoves ==
    ASSUME DataInv, NEW c \in Conns, Callback(c)
    PROVE  Moved(c)
<1>1. CASE Accept(c)
  BY <1>1, AcceptMoves
<1>2. CASE ClientSide(c)
  BY <1>2, RecvInitMoves, RecvHandshakeMoves, RecvDropMoves, RecvStreamMoves,
     ClosingMoves, TimerMoves, ServerSendMoves DEF ClientSide
<1>3. CASE TargetSide(c)
  BY <1>3, RemoteSendMoves, ClosingMoves, RemoteRecvMoves, TimerMoves DEF TargetSide
<1>4. CASE ResolveFailed(c) \/ Resolved(c)
  BY <1>4, ResolveFailedMoves, ResolvedMoves
<1>5. CASE TimerExpires(c) \/ Timeout(c)
  BY <1>5, TimerMoves, ClosingMoves
<1> QED BY <1>1, <1>2, <1>3, <1>4, <1>5 DEF Callback

\* What the program's end leaves of the connections.
LEMMA ShutdownFacts ==
    ASSUME ControlInv, Shutdown
    PROVE  /\ wire' = wire /\ fastOpen' = fastOpen
           /\ \A c \in Conns : srv'[c] = NoServer /\ rem'[c] = NoRemote
  BY DEF Shutdown, ControlInv, Control

LEMMA DataNext == ASSUME DataInv, [Next]_vars PROVE DataInv'
<1>1. ControlInv'
  BY ControlNext DEF DataInv
<1>2. ASSUME NEW c \in Conns, Callback(c)
      PROVE  DataInv'
  BY <1>1, <1>2, CallbackMoves, MovedKeeps
<1>3. CASE UNCHANGED <<srv, rem, wire, fastOpen>>
  BY <1>1, <1>3 DEF DataInv, Data, EarlyData, UpData, DownData, BlameData, Waiting, Ordered
<1>4. CASE Shutdown
  <2>1. /\ wire' = wire /\ fastOpen' = fastOpen
        /\ \A c \in Conns : srv'[c] = NoServer /\ rem'[c] = NoRemote
    BY <1>4, ShutdownFacts DEF DataInv
  <2>2. ASSUME NEW c \in Conns PROVE Data(NoServer, NoRemote, wire[c])
    <3>1. Data(srv[c], rem[c], wire[c])
      BY DEF DataInv
    <3>2. BlameData(NoServer, wire[c])
      BY <3>1 DEF Data, BlameData, NoServer
    <3> QED BY <3>1, <3>2 DEF Data, EarlyData, UpData, DownData, NoServer, NoRemote
  <2>3. ASSUME NEW c \in Conns PROVE Data(srv'[c], rem'[c], wire'[c])
    BY <2>1, <2>2
  <2>4. fastOpen' => FastOpen
    BY <2>1 DEF DataInv
  <2> QED BY <1>1, <2>3, <2>4
             DEF DataInv, Data, EarlyData, UpData, DownData, BlameData, Waiting, Ordered
<1> QED BY <1>2, <1>3, <1>4 DEF Next, Signal, Done, vars

\* The data invariant holds in every reachable state.
THEOREM DataAlways == Spec => []DataInv
<1>1. Init => DataInv
  BY DataInit
<1>2. DataInv /\ [Next]_vars => DataInv'
  BY DataNext
<1> QED BY <1>1, <1>2, PTL DEF Spec

-----------------------------------------------------------------------------
(* What follows from it. *)

\* No byte is lost: from the request on, each payload byte read from the
\* client is sent or in one of the two buffers, while the resolver and the
\* connect are under way and through every partial send; and so is every byte
\* of the answer (server_recv_cb, server_resolve_cb, remote_send_cb,
\* remote_recv_cb, server_send_cb).
THEOREM NothingLost == Spec => []Conserved
<1>1. DataInv => Conserved
  <2> SUFFICES ASSUME DataInv, NEW c \in Conns
               PROVE  /\ srv[c].stage \in {"PARSE", "RESOLVE", "STREAM"} =>
                             wire[c].got = HdrEnd + Len(wire[c].up) + Backlog(c)
                      /\ srv[c].stage = "STREAM" =>
                             wire[c].rgot = Len(wire[c].down) +
                                 IF "send" \in srv[c].io THEN srv[c].buf.len ELSE 0
    BY DEF Conserved
  <2>1. Data(srv[c], rem[c], wire[c])
    BY DEF DataInv
  <2>2. Backlog(c) = Waiting(srv[c], rem[c])
    BY DEF Backlog, Waiting, Linked
  <2> QED BY <2>1, <2>2 DEF Data, UpData, DownData
<1> QED BY <1>1, DataAlways, PTL

\* The target is sent the client's payload from its first byte on, in order,
\* nothing skipped or repeated, unless fast open meets a literal address
\* (server_recv_cb copies from the start of a buffer whose idx has advanced).
THEOREM PayloadInOrder == ASSUME NoRepeat PROVE Spec => []UpInOrder
<1>1. DataInv => UpInOrder
  BY DEF DataInv, Data, UpData, Ordered, UpInOrder
<1> QED BY <1>1, DataAlways, PTL

\* A client whose payload has gone to the target is never reported as
\* suspicious: reset_addr and the stages at which server_timeout_cb reports
\* keep a slow target from being held against it.
THEOREM SlowTargetsExcused == Spec => []SlowTargetNotBlamed
<1>1. DataInv => SlowTargetNotBlamed
  BY DEF DataInv, Data, BlameData, SlowTargetNotBlamed
<1> QED BY <1>1, DataAlways, PTL

-----------------------------------------------------------------------------
(* The relay implements the byte pipes. *)

UpRead(w) == IF w.got > HdrEnd THEN w.got - HdrEnd ELSE 0
UpSent(w) == [i \in 1..Len(w.up) |-> w.up[i] - HdrEnd]
Reads(w) == [up |-> UpRead(w), down |-> w.rgot]
Sents(w) == [up |-> UpSent(w), down |-> w.down]

\* A record of the two directions is a function on them.
LEMMA Directions ==
    ASSUME NEW x PROVE [d \in Pipe!Dirs |-> x] = [up |-> x, down |-> x]
  BY DEF Pipe!Dirs

\* What was sent of a stream is its beginning.
LEMMA SentFacts ==
    ASSUME NoRepeat, NEW s, NEW m, NEW w \in WireRecords, Data(s, m, w)
    PROVE  /\ Len(UpSent(w)) = Len(w.up) /\ UpSent(w) = Pipe!Source(Len(w.up))
           /\ w.down = Pipe!Source(Len(w.down))
<1>1. w.up = [i \in 1..Len(w.up) |-> HdrEnd + i] /\ w.down = [i \in 1..Len(w.down) |-> 0 + i]
  BY DEF Data, UpData, DownData, Ordered
<1>2. w.up \in Seq(Int) /\ w.down \in Seq(Int) /\ Len(w.up) \in Nat
  BY DEF WireRecords
<1>3. ASSUME NEW i \in 1..Len(w.up) PROVE w.up[i] - HdrEnd = i
  <2>1. w.up[i] = HdrEnd + i
    BY <1>1
  <2>2. i \in Int
    OBVIOUS
  <2> QED BY <2>1, <2>2, HdrEndType
<1>4. UpSent(w) = [i \in 1..Len(w.up) |-> i]
  BY <1>3 DEF UpSent
<1>5. Len([i \in 1..Len(w.up) |-> i]) = Len(w.up)
  BY <1>2
<1>6. w.down = [i \in 1..Len(w.down) |-> i]
  <2>1. \A i \in 1..Len(w.down) : 0 + i = i
    OBVIOUS
  <2> QED BY <1>1, <2>1
<1> QED BY <1>4, <1>5, <1>6 DEF Pipe!Source

\* Only what was read is sent.
LEMMA SentWasRead ==
    ASSUME NEW s \in ServerRecords, NEW m \in RemoteRecords, NEW w \in WireRecords,
           Data(s, m, w), s.stage # "FREE"
    PROVE  Len(w.up) <= UpRead(w) /\ Len(w.down) <= w.rgot
<1>1. /\ Len(w.up) \in Nat /\ Len(w.down) \in Nat /\ w.got \in Nat /\ w.rgot \in Nat
      /\ s.held \in Nat /\ s.buf.len \in Nat /\ m.buf.len \in Nat
  BY RelayAssumption DEF WireRecords, ServerRecords, RemoteRecords, Buffers
<1>2. Waiting(s, m) \in Nat
  <2>1. (IF m.state = "none" THEN s.buf.len
         ELSE IF "send" \in m.io THEN m.buf.len ELSE 0) \in Nat
    BY <1>1
  <2>2. PICK k \in Nat : (IF m.state = "none" THEN s.buf.len
                          ELSE IF "send" \in m.io THEN m.buf.len ELSE 0) = k
    BY <2>1
  <2>3. PICK h \in Nat : s.held = h
    BY <1>1
  <2>4. Waiting(s, m) = h + k
    BY <2>2, <2>3 DEF Waiting
  <2>5. h + k \in Nat
    OBVIOUS
  <2> QED BY <2>4, <2>5
<1>3. PICK l \in Nat : Len(w.up) = l
  BY <1>1
<1>4. PICK g \in Nat : w.got = g
  BY <1>1
<1>5. PICK q \in Nat : Waiting(s, m) = q
  BY <1>2
<1>6. l <= UpRead(w)
  <2>1. CASE s.stage \in {"PARSE", "RESOLVE", "STREAM"}
    <3>1. g = HdrEnd + l + q
      BY <1>3, <1>4, <1>5, <2>1 DEF Data, UpData
    <3>2. l <= IF g > HdrEnd THEN g - HdrEnd ELSE 0
      BY <3>1, HdrEndType
    <3> QED BY <1>4, <3>2 DEF UpRead
  <2>2. CASE s.stage \in {"INIT", "HANDSHAKE", "ERROR"}
    <3>1. w.up = <<>>
      BY <2>2 DEF Data, EarlyData
    <3>2. l = 0
      BY <1>3, <3>1
    <3>3. 0 <= IF g > HdrEnd THEN g - HdrEnd ELSE 0
      BY HdrEndType
    <3> QED BY <1>4, <3>2, <3>3 DEF UpRead
  <2> QED BY <2>1, <2>2 DEF ServerRecords, Stages
<1>7. Len(w.down) <= w.rgot
  <2>1. CASE s.stage = "STREAM"
    <3>1. w.rgot = Len(w.down) + IF "send" \in s.io THEN s.buf.len ELSE 0
      BY <2>1 DEF Data, DownData
    <3>2. PICK k \in Nat : Len(w.down) = k
      BY <1>1
    <3> QED BY <1>1, <3>1, <3>2
  <2>2. CASE s.stage # "STREAM"
    <3>1. w.rgot = 0 /\ w.down = <<>>
      BY <2>2 DEF Data, DownData
    <3> QED BY <3>1
  <2> QED BY <2>1, <2>2
<1> QED BY <1>3, <1>6, <1>7

\* What a pipe sees of a connection's step from w to w2.
LEMMA FlowFacts ==
    ASSUME NoRepeat, NEW s \in ServerRecords, NEW m \in RemoteRecords, NEW w \in WireRecords,
           Data(s, m, w),
           NEW s2 \in ServerRecords, NEW m2 \in RemoteRecords, NEW w2 \in WireRecords,
           Data(s2, m2, w2), Continues(s, w, s2, w2)
    PROVE  /\ UpRead(w) <= UpRead(w2) /\ w.rgot <= w2.rgot
           /\ Len(UpSent(w)) <= Len(UpSent(w2)) /\ Len(w.down) <= Len(w2.down)
           /\ Len(UpSent(w2)) <= UpRead(w2) /\ Len(w2.down) <= w2.rgot
           /\ UpSent(w2) = Pipe!Source(Len(UpSent(w2)))
           /\ w2.down = Pipe!Source(Len(w2.down))
<1>1. /\ w.got \in Nat /\ w2.got \in Nat /\ w.rgot \in Nat /\ w2.rgot \in Nat
      /\ Len(w.up) \in Nat /\ Len(w2.up) \in Nat
      /\ Len(w.down) \in Nat /\ Len(w2.down) \in Nat
  BY RelayAssumption DEF WireRecords
<1>2. /\ Len(UpSent(w)) = Len(w.up) /\ Len(UpSent(w2)) = Len(w2.up)
      /\ UpSent(w2) = Pipe!Source(Len(w2.up)) /\ w2.down = Pipe!Source(Len(w2.down))
  BY SentFacts
<1>3. /\ w.got <= w2.got /\ w.rgot <= w2.rgot
      /\ Len(w.up) <= Len(w2.up) /\ Len(w.down) <= Len(w2.down)
      /\ s.stage # "FREE"
      /\ s2.stage = "FREE" => w2.up = w.up /\ w2.down = w.down
  BY DEF Continues
<1>4. UpRead(w) \in Nat /\ UpRead(w2) \in Nat /\ UpRead(w) <= UpRead(w2)
  <2>1. PICK g \in Nat : w.got = g
    BY <1>1
  <2>2. PICK h \in Nat : w2.got = h
    BY <1>1
  <2>3. g <= h
    BY <1>3, <2>1, <2>2
  <2>4. /\ (IF g > HdrEnd THEN g - HdrEnd ELSE 0) \in Nat
        /\ (IF h > HdrEnd THEN h - HdrEnd ELSE 0) \in Nat
        /\ (IF g > HdrEnd THEN g - HdrEnd ELSE 0) <= (IF h > HdrEnd THEN h - HdrEnd ELSE 0)
    BY <2>3, HdrEndType
  <2> QED BY <2>1, <2>2, <2>4 DEF UpRead
<1>5. Len(w2.up) <= UpRead(w2) /\ Len(w2.down) <= w2.rgot
  <2>1. CASE s2.stage # "FREE"
    BY <2>1, SentWasRead
  <2>2. CASE s2.stage = "FREE"
    <3>1. Len(w.up) <= UpRead(w) /\ Len(w.down) <= w.rgot
      BY <1>3, SentWasRead
    <3>2. Len(w2.up) = Len(w.up) /\ Len(w2.down) = Len(w.down)
      BY <1>3, <2>2
    <3> QED BY <1>1, <1>3, <1>4, <3>1, <3>2
  <2> QED BY <2>1, <2>2
<1> QED BY <1>2, <1>3, <1>4, <1>5

LEMMA MovedIsPiped ==
    ASSUME NoRepeat, DataInv, NEW c \in Conns, Moved(c)
    PROVE  Pipe!Establish(c) \/ Pipe!Transfer(c) \/ Pipe!Close(c)
<1>1. PICK s \in ServerRecords, m \in RemoteRecords, w \in WireRecords :
          /\ Becomes(c, s, m, w)
          /\ Data(s, m, w)
          /\ Begins(srv[c], s, w) \/ Continues(srv[c], wire[c], s, w)
  BY DEF Moved
<1>2. /\ TypeOK /\ Data(srv[c], rem[c], wire[c])
      /\ srv[c] \in ServerRecords /\ rem[c] \in RemoteRecords /\ wire[c] \in WireRecords
  BY ConnFacts
<1> DEFINE open == [d \in Conns |-> Open(d)]
           read == [d \in Conns |-> Reads(wire[d])]
           sent == [d \in Conns |-> Sents(wire[d])]
<1>3. /\ srv' = [srv EXCEPT ![c] = s] /\ wire' = [wire EXCEPT ![c] = w]
      /\ srv \in [Conns -> ServerRecords] /\ wire \in [Conns -> WireRecords]
  BY <1>1, <1>2 DEF Becomes, TypeOK
<1>4. /\ open' = [open EXCEPT ![c] = (s.stage # "FREE")]
      /\ read' = [read EXCEPT ![c] = Reads(w)]
      /\ sent' = [sent EXCEPT ![c] = Sents(w)]
  BY <1>3 DEF Open, Reads, Sents, UpRead, UpSent
<1>5. /\ open[c] = (srv[c].stage # "FREE")
      /\ read[c] = Reads(wire[c]) /\ sent[c] = Sents(wire[c])
  BY DEF Open
<1>6. \A x \in Conns \ {c} : open'[x] = open[x] /\ read'[x] = read[x] /\ sent'[x] = sent[x]
  <2>1. \A x \in Conns \ {c} : srv'[x] = srv[x] /\ wire'[x] = wire[x]
    BY <1>3
  <2> QED BY <2>1 DEF Open, Reads, Sents, UpRead, UpSent
<1>7. CASE Begins(srv[c], s, w)
  <2>1. ~open[c] /\ open' = [open EXCEPT ![c] = TRUE]
    BY <1>4, <1>5, <1>7 DEF Begins
  <2>2. Reads(w) = [d \in Pipe!Dirs |-> 0]
    <3>1. UpRead(w) = 0 /\ w.rgot = 0
      BY <1>7, HdrEndType DEF Begins, UpRead
    <3> QED BY <3>1, Directions DEF Reads
  <2>3. Sents(w) = [d \in Pipe!Dirs |-> <<>>]
    <3>1. w.up = <<>> /\ w.down = <<>>
      BY <1>7 DEF Begins
    <3>2. UpSent(w) = <<>>
      BY <3>1 DEF UpSent
    <3> QED BY <3>1, <3>2, Directions DEF Sents
  <2>4. /\ read' = [read EXCEPT ![c] = [d \in Pipe!Dirs |-> 0]]
        /\ sent' = [sent EXCEPT ![c] = [d \in Pipe!Dirs |-> <<>>]]
    BY <1>4, <2>2, <2>3
  <2> QED BY <2>1, <2>4 DEF Pipe!Establish, Reads, Sents, UpRead, UpSent
<1>8. CASE Continues(srv[c], wire[c], s, w)
  <2>1. Pipe!Flow(c)
    <3>1. /\ UpRead(wire[c]) <= UpRead(w) /\ wire[c].rgot <= w.rgot
          /\ Len(UpSent(wire[c])) <= Len(UpSent(w)) /\ Len(wire[c].down) <= Len(w.down)
          /\ Len(UpSent(w)) <= UpRead(w) /\ Len(w.down) <= w.rgot
          /\ UpSent(w) = Pipe!Source(Len(UpSent(w)))
          /\ w.down = Pipe!Source(Len(w.down))
      BY <1>1, <1>2, <1>8, FlowFacts
    <3>2. read'[c] = Reads(w) /\ sent'[c] = Sents(w)
      BY <1>4
    <3>3. ASSUME NEW d \in Pipe!Dirs
          PROVE  /\ read[c][d] <= read'[c][d]
                 /\ Len(sent[c][d]) <= Len(sent'[c][d])
                 /\ Len(sent'[c][d]) <= read'[c][d]
                 /\ sent'[c][d] = Pipe!Source(Len(sent'[c][d]))
      <4> HIDE DEF open, read, sent
      <4>1. CASE d = "up"
        BY <1>5, <3>1, <3>2, <4>1 DEF Reads, Sents
      <4>2. CASE d = "down"
        BY <1>5, <3>1, <3>2, <4>2 DEF Reads, Sents
      <4> QED BY <4>1, <4>2 DEF Pipe!Dirs
    <3> QED BY <3>3 DEF Pipe!Flow, Reads, Sents, UpRead, UpSent
  <2>2. Pipe!OthersUnchanged(c)
    BY <1>6 DEF Pipe!OthersUnchanged, Reads, Sents, UpRead, UpSent
  <2>3. open[c]
    BY <1>5, <1>8 DEF Continues
  <2>4. CASE s.stage # "FREE"
    <3>1. open' = open
      <4>1. srv'[c].stage # "FREE" /\ srv[c].stage # "FREE"
        BY <1>3, <1>8, <2>4 DEF Continues
      <4>2. \A d \in Conns \ {c} : srv'[d] = srv[d]
        BY <1>3
      <4>3. \A d \in Conns : Open(d)' = Open(d)
        BY <4>1, <4>2 DEF Open
      <4> QED BY <4>3
    <3> QED BY <2>1, <2>2, <2>3, <3>1 DEF Pipe!Transfer
  <2>5. CASE s.stage = "FREE"
    <3>1. open' = [open EXCEPT ![c] = FALSE]
      BY <1>4, <2>5
    <3>2. Sents(w) = Sents(wire[c])
      BY <1>8, <2>5 DEF Continues, Sents, UpSent
    <3>3. sent' = sent
      BY <1>4, <1>5, <3>2
    <3> QED BY <2>1, <2>2, <2>3, <3>1, <3>3 DEF Pipe!Close, Sents, UpSent
  <2> QED BY <2>4, <2>5
<1> QED BY <1>1, <1>7, <1>8

LEMMA PipeInit == ASSUME Init PROVE Pipe!Init
<1>1. ASSUME NEW c \in Conns
      PROVE  /\ Open(c) = FALSE
             /\ Reads(wire[c]) = [d \in Pipe!Dirs |-> 0]
             /\ Sents(wire[c]) = [d \in Pipe!Dirs |-> <<>>]
  <2>1. PICK q \in Requests : wire[c] = NewWire(q)
    BY DEF Init
  <2>2. wire[c].got = 0 /\ wire[c].rgot = 0 /\ wire[c].up = <<>> /\ wire[c].down = <<>>
    BY <2>1 DEF NewWire
  <2>3. UpRead(wire[c]) = 0 /\ UpSent(wire[c]) = <<>>
    BY <2>2, HdrEndType DEF UpRead, UpSent
  <2>4. Open(c) = FALSE
    BY DEF Init, Open, NoServer
  <2> QED BY <2>2, <2>3, <2>4, Directions DEF Reads, Sents
<1> QED BY <1>1 DEF Pipe!Init, Reads, Sents, UpRead, UpSent

LEMMA PipeNext ==
    ASSUME NoRepeat, DataInv, [Next]_vars
    PROVE  [Pipe!Next]_(Pipe!vars)
<1>1. ASSUME NEW c \in Conns, Callback(c)
      PROVE  Pipe!Next
  BY <1>1, CallbackMoves, MovedIsPiped DEF Pipe!Next
<1>2. CASE UNCHANGED <<srv, wire>>
  BY <1>2 DEF Pipe!vars, Open
<1>3. CASE Shutdown
  <2>1. wire' = wire /\ \A c \in Conns : srv'[c] = NoServer
    BY <1>3, ShutdownFacts DEF DataInv
  <2>2. Pipe!CloseAll
    <3>1. \A c \in Conns : Open(c)' = FALSE
      BY <2>1 DEF Open, NoServer
    <3>2. [c \in Conns |-> Open(c)]' = [c \in Conns |-> FALSE]
      BY <3>1
    <3> QED BY <2>1, <3>2 DEF Pipe!CloseAll
  <2> QED BY <2>2 DEF Pipe!Next
<1> QED BY <1>1, <1>2, <1>3 DEF Next, Signal, Done, vars

\* Each connection is two byte pipes, whatever its stages, buffers, watchers
\* and closing paths do: what either side is sent is the beginning of what the
\* other side sent, it only grows, and nothing is sent as the two sockets close
\* (server.c as a whole, under the same condition as PayloadInOrder).
THEOREM RelayIsPipes == ASSUME NoRepeat PROVE Spec => ImplementsPipe
<1>1. Init => Pipe!Init
  BY PipeInit
<1>2. DataInv /\ [Next]_vars => [Pipe!Next]_(Pipe!vars)
  BY PipeNext
<1> QED BY <1>1, <1>2, DataAlways, PTL DEF Spec, ImplementsPipe, Pipe!Spec
============================================================================
