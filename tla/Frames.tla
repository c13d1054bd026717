------------------------------- MODULE Frames -------------------------------
(***************************************************************************)
(* The framing of the protocol plug-ins: verify.c and the client half of   *)
(* auth.c.  A write is cut into frames (head, padding, data, check), which *)
(* are packed into a buffer of twice the write's length and some slack;    *)
(* the other end collects what the stream brings in a buffer of 16 KiB and *)
(* takes complete frames off its front.  TCP may cut the stream anywhere.  *)
(*                                                                         *)
(* One direction of one connection is modelled at a time, with the lengths *)
(* of the code.  verify_simple has both ends here.  Of the auth_* plug-ins *)
(* this tree has the client half: the frames a client packs ("up") are     *)
(* read by a server that is elsewhere, and the frames it reads ("down")    *)
(* are packed by that server in the layout the client reads.               *)
(*                                                                         *)
(* Positions are offsets since the connection began: of plain data in from *)
(* and to, of the framed stream in start and end.                          *)
(***************************************************************************)
EXTENDS Integers, Sequences, FiniteSets

CONSTANTS Protocols,     \* the plug-ins to run
          SendSizes,     \* lengths of the writes handed to pre_encrypt
          ReadSizes,     \* the most bytes one read may bring
          NameLengths,   \* lengths of the names a request may hold: one byte
          CharSigned,    \* whether the platform's char is signed
          Paddings,      \* the padding lengths the random numbers may give
          GarbageLengths,\* what a stream under another key may show as a length
          IdMask,        \* 0xFFFFFF in the code: a new connection_id is at most this
          IdLimit,       \* 0xFF000000 in the code
          MaxWrites, MaxConns  \* bounds of the model

AllProtocols == {"verify_simple", "auth_simple", "auth_sha1", "auth_sha1_v2",
                 "auth_sha1_v4", "auth_aes128"}

MostRead == 8192   \* ss_server reads BUF_SIZE (2048) bytes at a time

ASSUME ConstantsAssumption ==
    /\ Protocols \subseteq AllProtocols
    /\ SendSizes \subseteq Nat \ {0}
    /\ ReadSizes \subseteq 1..MostRead
    /\ NameLengths \subseteq 0..255 /\ CharSigned \in BOOLEAN
    /\ Paddings \subseteq Nat
    /\ GarbageLengths \subseteq Nat
    /\ IdMask \in Nat /\ IdLimit \in Nat /\ IdMask < IdLimit
    /\ MaxWrites \in Nat /\ MaxConns \in Nat

VARIABLES
    proto, up, garbage,   \* the plug-in, whether this is the client's direction,
                          \* and the length a head shows under another key
    global,               \* [client, id]: local_client_id and connection_id
    issued,               \* history: the pairs that first frames carried
    packer,               \* [left, alloc, out, sentHeader, packId, from]
    request,              \* history: length of the name in the connection's
                          \* first request, NoName when that holds none
    frames,               \* the frames packed on this connection
    sent, got, taken,     \* offsets: handed to TCP, received, taken off the buffer
    receiver,             \* [next, recvId, unpacked, looping]
    delivered,            \* bytes of data handed on
    status,               \* "open", why post_decrypt returned -1, or "overrun":
                          \* the process wrote past the packing buffer
    writes, conns         \* counters for the bounds

end    == <<proto, up, garbage>>
reader == <<got, taken, receiver, delivered, status>>
writer == <<global, issued, packer, request, frames, sent, writes>>
vars   == <<end, writer, reader, conns>>

NoName    == -1
NoGarbage == -1
sameKey   == garbage = NoGarbage

Min2(a, b) == IF a < b THEN a ELSE b

-----------------------------------------------------------------------------
(* The layouts. *)

RecvCapacity_Small == 8192                                           \* fault

PackUnit     == 2000
RecvCapacity == 16384
LengthLimit  == 8192

Simple(p) == p \in {"verify_simple", "auth_simple", "auth_sha1"}

(* Bytes of a frame that are neither padding nor data. *)
Overhead(p)     == IF p \in {"auth_sha1_v4", "auth_aes128"} THEN 8 ELSE 6
(* The same of the first frame of a connection. *)
AuthOverhead(p) == IF p = "auth_simple" THEN 18
                   ELSE IF p = "auth_aes128" THEN 35 ELSE 28
Slack_Verify(p) == 32                                             \* fault

(* out_buffer has twice the length of the write and this much more. *)
Slack(p) == IF p = "verify_simple" THEN 32
            ELSE IF p = "auth_simple" THEN 64
            ELSE IF p = "auth_sha1" THEN 256 ELSE 4096

(* rand_len of a frame with n bytes of data. *)
PaddingV2(n) == IF n > 1300 THEN {1} ELSE IF n > 400 THEN 1..128 ELSE 1..1024

Padding(p, n, packId) ==
    IF Simple(p) THEN 1..16
    ELSE IF p # "auth_aes128" THEN PaddingV2(n)
    ELSE IF n > 1200 THEN {1}
    ELSE IF packId > 4 THEN {1, 33}
    ELSE IF n > 900 THEN {1, 129} ELSE {1, 513}

AuthPadding(p, n) ==
    IF p = "auth_simple" THEN 1..16
    ELSE IF p = "auth_sha1" THEN 1..128
    ELSE IF p # "auth_aes128" THEN PaddingV2(n)
    ELSE IF n > 400 THEN {0, 512} ELSE {0, 1024}

ReadPad_OneByte(p, f) == f[1]                                        \* fault

(* How rand_len is written, in one byte or after an escape, and read back. *)
PadField(p, r) == IF ~Simple(p) /\ r >= 128 THEN <<255, r>> ELSE <<r>>
ReadPad(p, f)  == IF ~Simple(p) /\ f[1] = 255 THEN f[2] ELSE f[1]

(* A byte, as the platform's char has it. *)
Char(b) == IF CharSigned /\ b > 127 THEN b - 256 ELSE b

(* get_head_size: the address of the request, by its type; the length of a *)
(* name is read from a char.  def_size when the write is too short to say. *)
HeadSizes(n, name) ==
    IF n < 2 THEN {30} ELSE IF name = NoName THEN {7, 19, 30} ELSE {4 + Char(name)}

(* auth_aes128 does not look at the request. *)
Requests(p) == IF p = "auth_aes128" THEN {NoName} ELSE NameLengths \cup {NoName}

FirstSizes(p, n, name) ==
    IF p = "auth_aes128" THEN {Min2(1200, n)} ELSE {Min2(h, n) : h \in HeadSizes(n, name)}

-----------------------------------------------------------------------------
(* Packing: client_pre_encrypt and server_pre_encrypt. *)

NewLocal(p, u) ==
    [left |-> 0, alloc |-> 0, out |-> 0, packId |-> 1, from |-> 0,
     sentHeader |-> ~u \/ p = "verify_simple"]

NewReceiver == [next |-> 1, recvId |-> 1, unpacked |-> 0, looping |-> FALSE]

(* The receiver runs this code, or mirrors the packer's. *)
HasReceiver == ~up \/ proto = "verify_simple"

Packed == IF frames = <<>> THEN 0 ELSE frames[Len(frames)].end

Frame(n, size, pad) ==
    [start |-> Packed, end |-> Packed + size,
     length |-> IF sameKey THEN size ELSE garbage,
     pad |-> PadField(proto, pad), from |-> packer.from, to |-> packer.from + n,
     id |-> packer.packId]

BeginPack(n) ==
    /\ packer.alloc = 0 /\ status = "open"
    /\ writes < MaxWrites
    /\ writes' = writes + 1
    /\ packer' = [packer EXCEPT !.left = n, !.alloc = 2 * n + Slack(proto)]
    /\ UNCHANGED <<end, global, issued, request, frames, sent, reader, conns>>

NextIds_KeepClient(g) ==                                             \* fault
    IF g.id + 1 > IdLimit
    THEN [client : {g.client}, id : 0..IdMask]
    ELSE {[client |-> g.client, id |-> g.id + 1]}

(* ++connection_id; past its limit the pair starts afresh. *)
NextIds(g) ==
    IF g.id + 1 > IdLimit
    THEN [client : {g.client + 1}, id : 0..IdMask]
    ELSE {[client |-> g.client, id |-> g.id + 1]}

(* A frame of size bytes with n bytes of data is put behind what is there. *)
Fill(n, size, packId) ==
    packer' = [left |-> packer.left - n, alloc |-> packer.alloc,
               out |-> packer.out + size, from |-> packer.from + n,
               packId |-> packId, sentHeader |-> TRUE]

(* The first frame: who the client is, which connection this is, and when. *)
PackAuth ==
    /\ packer.alloc > 0 /\ packer.left > 0 /\ ~packer.sentHeader
    /\ request' \in Requests(proto)
    /\ \E n \in FirstSizes(proto, packer.left, request') :
          /\ n >= 0
          /\ \E pad \in AuthPadding(proto, n) \cap Paddings :
                Fill(n, pad + n + AuthOverhead(proto), packer.packId)
    /\ global' \in NextIds(global)
    /\ issued' = Append(issued, global')
    /\ UNCHANGED <<end, frames, sent, writes, reader, conns>>

(* A head of negative length passes the comparison with the write's, and   *)
(* memmove takes it for a huge one: the process does not survive it.       *)
PackOverrun ==
    /\ packer.alloc > 0 /\ packer.left > 0 /\ ~packer.sentHeader
    /\ request' \in Requests(proto)
    /\ \E n \in FirstSizes(proto, packer.left, request') : n < 0
    /\ global' \in NextIds(global)
    /\ status' = "overrun"
    /\ packer' = [packer EXCEPT !.left = 0, !.alloc = 0, !.out = 0]
    /\ UNCHANGED <<end, issued, frames, sent, writes, got, taken, receiver, delivered, conns>>

(* One turn of the packing loop, or the last frame of the write. *)
PackOne ==
    /\ packer.alloc > 0 /\ packer.left > 0 /\ packer.sentHeader
    /\ LET n == Min2(packer.left, PackUnit)
       IN \E pad \in Padding(proto, n, packer.packId) \cap Paddings :
          LET size == pad + n + Overhead(proto)
          IN /\ Fill(n, size, packer.packId + 1)
             /\ frames' = IF HasReceiver THEN Append(frames, Frame(n, size, pad))
                          ELSE frames
    /\ UNCHANGED <<end, global, issued, request, sent, writes, reader, conns>>

(* The frames are copied over the write and handed to the cipher and TCP. *)
EndPack ==
    /\ packer.alloc > 0 /\ packer.left = 0
    /\ packer' = [packer EXCEPT !.alloc = 0, !.out = 0]
    /\ sent' = Packed
    /\ UNCHANGED <<end, global, issued, request, frames, writes, reader, conns>>

-----------------------------------------------------------------------------
(* Unpacking: client_post_decrypt and server_post_decrypt. *)

BufferSize == got - taken          \* recv_buffer_size

(* The loop looks at a head once it has more bytes than this. *)
HeadBytes(p) == IF p \in {"auth_sha1_v4", "auth_aes128"} THEN 4 ELSE 2
LeastLength(p) == IF p = "auth_aes128" THEN 8 ELSE 7

Recv(k) ==
    /\ status = "open" /\ ~receiver.looping /\ got < sent
    /\ LET n == Min2(k, sent - got)
       IN IF BufferSize + n > RecvCapacity
          THEN status' = "capacity" /\ UNCHANGED <<got, receiver>>
          ELSE /\ got' = got + n
               /\ receiver' = [receiver EXCEPT !.looping = TRUE]
               /\ UNCHANGED status
    /\ UNCHANGED <<end, writer, taken, delivered, conns>>

(* The check value of a frame covers the key, and with auth_aes128 the     *)
(* frame's number; a check of the head alone comes before its length is    *)
(* read in auth_sha1_v4 and auth_aes128.                                   *)
Genuine(f) == sameKey /\ (proto = "auth_aes128" => f.id = receiver.recvId)

Refusable(f) ==
    \/ HeadBytes(proto) = 4 /\ ~Genuine(f)
    \/ f.length >= LengthLimit \/ f.length < LeastLength(proto)
    \/ f.length <= BufferSize /\ ~Genuine(f)

DataSize(f) == f.length - ReadPad(proto, f.pad) - Overhead(proto)

AtHead == receiver.looping /\ BufferSize > HeadBytes(proto)

(* A wrong head, length or check: the buffer is dropped, with what this    *)
(* call had already unpacked, and the caller closes the connection.        *)
RefuseFrame ==
    /\ AtHead /\ Refusable(frames[receiver.next])
    /\ status' = "frame" /\ taken' = got
    /\ receiver' = [receiver EXCEPT !.looping = FALSE, !.unpacked = 0]
    /\ UNCHANGED <<end, writer, got, delivered, conns>>

NextRecvId_Kept(r) == r.recvId                                       \* fault

NextRecvId(r) == IF proto = "auth_aes128" THEN r.recvId + 1 ELSE r.recvId

TakeFrame ==
    /\ AtHead
    /\ LET f == frames[receiver.next]
       IN /\ ~Refusable(f) /\ f.length <= BufferSize
          /\ taken' = taken + f.length
          /\ receiver' = [receiver EXCEPT !.next = @ + 1,
                             !.recvId = NextRecvId(receiver),
                             !.unpacked = @ + DataSize(f)]
    /\ UNCHANGED <<end, writer, got, delivered, status, conns>>

LoopEnds_OneFrame ==                                                 \* fault
    receiver.unpacked = 0 /\ BufferSize > HeadBytes(proto) =>
        LET f == frames[receiver.next]
        IN ~Refusable(f) /\ f.length > BufferSize

(* The loop stops at the first frame that is not complete yet. *)
LoopEnds ==
    BufferSize > HeadBytes(proto) =>
        LET f == frames[receiver.next]
        IN ~Refusable(f) /\ f.length > BufferSize

Return ==
    /\ receiver.looping /\ LoopEnds
    /\ delivered' = delivered + receiver.unpacked
    /\ receiver' = [receiver EXCEPT !.looping = FALSE, !.unpacked = 0]
    /\ UNCHANGED <<end, writer, got, taken, status, conns>>

-----------------------------------------------------------------------------
(* A new connection: new local data (local_data_init), the same global     *)
(* data.  Which end writes and whether the keys agree is free.             *)
Quiet == /\ packer.alloc = 0 /\ ~receiver.looping
         /\ got = sent \/ status # "open"

NewConnection ==
    /\ Quiet /\ conns < MaxConns /\ status # "overrun"
    /\ conns' = conns + 1
    /\ proto' = proto
    /\ up' \in BOOLEAN /\ garbage' \in GarbageLengths \cup {NoGarbage}
    /\ packer' = NewLocal(proto, up') /\ request' = NoName
    /\ frames' = <<>> /\ sent' = 0 /\ got' = 0 /\ taken' = 0
    /\ receiver' = NewReceiver /\ delivered' = 0 /\ status' = "open"
    /\ writes' = 0
    /\ UNCHANGED <<global, issued>>

Init ==
    /\ proto \in Protocols /\ up \in BOOLEAN
    /\ garbage \in GarbageLengths \cup {NoGarbage}
    /\ global \in [client : {1}, id : 0..IdMask]
    /\ issued = <<>>
    /\ packer = NewLocal(proto, up) /\ request = NoName
    /\ frames = <<>> /\ sent = 0 /\ got = 0 /\ taken = 0
    /\ receiver = NewReceiver /\ delivered = 0 /\ status = "open"
    /\ writes = 0 /\ conns = 1

Packing   == PackAuth \/ PackOverrun \/ PackOne \/ EndPack
Unpacking == RefuseFrame \/ TakeFrame \/ Return

Next ==
    \/ \E n \in SendSizes : BeginPack(n)
    \/ Packing
    \/ \E k \in ReadSizes : Recv(k)
    \/ Unpacking
    \/ NewConnection

Spec == Init /\ [][Next]_vars

(* A call runs to its end; the event loop serves a readable socket. *)
FairSpec == Spec /\ WF_vars(Packing) /\ WF_vars(Unpacking)
                 /\ WF_vars(\E k \in ReadSizes : Recv(k))

-----------------------------------------------------------------------------
(* Properties. *)

TypeOK ==
    /\ proto \in Protocols /\ up \in BOOLEAN
    /\ garbage \in GarbageLengths \cup {NoGarbage}
    /\ global \in [client : Nat, id : Nat]
    /\ issued \in Seq([client : Nat, id : Nat])
    /\ packer \in [left : Nat, alloc : Nat, out : Nat, packId : Nat, from : Nat,
                   sentHeader : BOOLEAN]
    /\ frames \in Seq([start : Nat, end : Nat, length : Nat, pad : Seq(Nat),
                       from : Nat, to : Nat, id : Nat])
    /\ sent \in Nat /\ got \in Nat /\ taken \in Nat
    /\ receiver \in [next : Nat, recvId : Nat, unpacked : Int, looping : BOOLEAN]
    /\ delivered \in Int
    /\ request \in NameLengths \cup {NoName}
    /\ status \in {"open", "capacity", "frame", "overrun"}
    /\ writes \in Nat /\ conns \in Nat

(* The frames of one write never outgrow the buffer they are packed in,    *)
(* whatever the padding and however the write is cut, with one exception: a*)
(* first request for a name of 128 to 251 bytes where char is signed, whose*)
(* length get_head_size turns negative.                                    *)
OutFits ==
    /\ packer.alloc > 0 => packer.out <= packer.alloc
    /\ status = "overrun" => CharSigned /\ request \in 128..251

(* The receive buffer never refuses a read for want of room: what waits    *)
(* for the rest of a frame is shorter than the longest length accepted,    *)
(* even when that length is another key's garbage.                         *)
CapacitySuffices == status # "capacity"

(* Only a stream under another key is refused: the two ends agree about    *)
(* the layout, the limits and the numbers of the frames.                   *)
OnlyGarbageRefused == status = "frame" => ~sameKey

(* What is handed on is exactly the data of the frames taken off the       *)
(* buffer: the padding is found at the length it was written with.         *)
DataIntact ==
    delivered + receiver.unpacked
        = IF receiver.next = 1 THEN 0 ELSE frames[receiver.next - 1].to

(* No two connections present the same client and connection id.           *)
IdsFresh == \A i, j \in 1..Len(issued) : i # j => issued[i] # issued[j]

(* Whatever was written is delivered, or the stream was refused or is      *)
(* another key's: no complete frame is left waiting for the next read.     *)
AllArrives ==
    []<>(\/ ~HasReceiver \/ ~sameKey \/ status # "open"
         \/ packer.alloc = 0 /\ delivered = packer.from)
=============================================================================
