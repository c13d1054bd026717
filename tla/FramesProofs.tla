---------------------------- MODULE FramesProofs ----------------------------
(***************************************************************************)
(* Proofs about Frames for every plug-in, write, padding and way of        *)
(* cutting the stream: the packing buffer and the receive buffer are large *)
(* enough, the two ends agree about every frame, and no two connections    *)
(* carry the same identifiers.  Names have any length a byte can say, and  *)
(* char is signed or not: the packing buffer is overrun by some names where*)
(* it is signed, and by nothing else.                                      *)
(***************************************************************************)
EXTENDS Frames, TLAPS

FrameType ==
    [start : Nat, end : Nat, length : Nat, pad : Seq(Nat),
     from : Nat, to : Nat, id : Nat]
PackerType ==
    [left : Nat, alloc : Nat, out : Nat, packId : Nat, from : Nat,
     sentHeader : BOOLEAN]
ReceiverType == [next : Nat, recvId : Nat, unpacked : Int, looping : BOOLEAN]
IdType == [client : Nat, id : Nat]

-----------------------------------------------------------------------------
(* Packing.  What the rest of a write can still add to the buffer: twice   *)
(* its length, what the last frame has beyond that, and the same of the    *)
(* first frame while it has not been sent.                                 *)

Last(p)  == IF Simple(p) THEN 22 ELSE 1032
First(p) == IF p = "auth_simple" THEN 34
            ELSE IF p = "auth_sha1" THEN 156 ELSE 1060

Remaining(p, left, sentHeader) ==
    (2 * left + (IF left > 0 THEN Last(p) ELSE 0)) + (IF sentHeader THEN 0 ELSE First(p))

PackInv ==
    /\ packer.alloc = 0 => packer.out = 0 /\ packer.left = 0
    /\ packer.alloc > 0 =>
          packer.out + Remaining(proto, packer.left, packer.sentHeader) <= packer.alloc
    /\ proto = "verify_simple" => packer.sentHeader

LEMMA PaddingBounds ==
    ASSUME NEW p \in AllProtocols, NEW n \in Nat, NEW k \in Nat, NEW r \in Padding(p, n, k)
    PROVE  /\ r \in Nat /\ r >= 1 /\ r <= 1024
           /\ Simple(p) => r <= 16
           /\ n > 1300 => r <= 16
           /\ r + Overhead(p) <= Last(p)
BY SMTT(30) DEF Padding, PaddingV2, Simple, Overhead, Last, AllProtocols

LEMMA AuthPaddingBounds ==
    ASSUME NEW p \in AllProtocols, p # "verify_simple", NEW n \in Nat, NEW r \in AuthPadding(p, n)
    PROVE  r \in Nat /\ r + AuthOverhead(p) <= First(p)
BY SMTT(30) DEF AuthPadding, PaddingV2, AuthOverhead, First, AllProtocols

\* A request's head is shorter than nothing only by a name of 128 to 251 bytes.
LEMMA HeadBounds ==
    ASSUME NEW left \in Nat, NEW name \in NameLengths \cup {NoName},
           NEW h \in HeadSizes(left, name)
    PROVE  h \in Int /\ (h < 0 => CharSigned /\ name \in 128..251)
<1>1. CASE left < 2
    BY <1>1 DEF HeadSizes
<1>2. CASE ~(left < 2) /\ name = NoName
    BY <1>2 DEF HeadSizes
<1>3. CASE ~(left < 2) /\ name # NoName
    <2>1. name \in 0..255
        BY <1>3, ConstantsAssumption
    <2>2. h = 4 + Char(name)
        BY <1>3 DEF HeadSizes
    <2>3. CASE CharSigned /\ name > 127
        <3>1. h = 4 + (name - 256)
            BY <2>2, <2>3 DEF Char
        <3> QED
            BY <2>1, <2>3, <3>1
    <2>4. CASE ~(CharSigned /\ name > 127)
        <3>1. h = 4 + name
            BY <2>2, <2>4 DEF Char
        <3> QED
            BY <2>1, <3>1
    <2> QED
        BY <2>3, <2>4
<1> QED
    BY <1>1, <1>2, <1>3

LEMMA FirstSizeBounds ==
    ASSUME NEW p, NEW left \in Nat, left > 0, NEW name \in Requests(p),
           NEW n \in FirstSizes(p, left, name)
    PROVE  n \in Int /\ n <= left /\ (n < 0 => CharSigned /\ name \in 128..251)
<1>1. CASE p = "auth_aes128"
    BY <1>1 DEF FirstSizes, Min2
<1>2. CASE p # "auth_aes128"
    <2>1. PICK h \in HeadSizes(left, name) : n = Min2(h, left)
        BY <1>2 DEF FirstSizes
    <2>2. name \in NameLengths \cup {NoName}
        BY <1>2 DEF Requests
    <2>3. h \in Int /\ (h < 0 => CharSigned /\ name \in 128..251)
        BY <2>1, <2>2, HeadBounds
    <2>4. n \in Int /\ n <= left /\ (n < 0 => h < 0)
        BY <2>1, <2>3 DEF Min2
    <2> QED
        BY <2>3, <2>4
<1> QED
    BY <1>1, <1>2

\* One frame: what it adds is paid for by what it takes off the rest.
LEMMA FrameRoom ==
    ASSUME NEW p \in AllProtocols, NEW left \in Nat, left > 0, NEW k \in Nat,
           NEW n, n = Min2(left, PackUnit), NEW r \in Padding(p, n, k)
    PROVE  /\ n \in Nat /\ n >= 1 /\ n <= PackUnit /\ left - n \in Nat
           /\ (r + n + Overhead(p)) + Remaining(p, left - n, TRUE)
                 <= Remaining(p, left, TRUE)
<1>1. n \in Nat /\ n >= 1 /\ n <= PackUnit /\ left - n \in Nat
    BY DEF Min2, PackUnit
<1>2a. r \in Nat /\ r + Overhead(p) <= Last(p) /\ (n > 1300 => r <= 16)
    BY <1>1, PaddingBounds
<1>2b. Overhead(p) \in {6, 8} /\ Last(p) \in {22, 1032}
    BY DEF Overhead, Last
<1>2. /\ r \in Nat /\ r + Overhead(p) <= Last(p) /\ (n > 1300 => r <= 16)
      /\ Overhead(p) \in {6, 8} /\ Last(p) \in {22, 1032}
    BY <1>2a, <1>2b
<1>3. CASE left > PackUnit
    BY <1>1, <1>2, <1>3 DEF Min2, PackUnit, Remaining
<1>4. CASE left <= PackUnit
    BY <1>1, <1>2, <1>4 DEF Min2, PackUnit, Remaining
<1>5. left > PackUnit \/ left <= PackUnit
    BY DEF PackUnit
<1> QED
    BY <1>3, <1>4, <1>5

LEMMA FirstRoom ==
    ASSUME NEW p \in AllProtocols, p # "verify_simple", NEW left \in Nat, left > 0,
           NEW name \in Requests(p), NEW n \in FirstSizes(p, left, name), n >= 0,
           NEW r \in AuthPadding(p, n)
    PROVE  /\ n \in Nat /\ left - n \in Nat
           /\ r + n + AuthOverhead(p) \in Nat
           /\ (r + n + AuthOverhead(p)) + Remaining(p, left - n, TRUE)
                 <= Remaining(p, left, FALSE)
<1>1. n \in Nat /\ n <= left /\ left - n \in Nat
    BY FirstSizeBounds
<1>2. r \in Nat /\ r + AuthOverhead(p) <= First(p)
    BY <1>1, AuthPaddingBounds
<1>3. AuthOverhead(p) \in Nat /\ First(p) \in Nat /\ Last(p) \in Nat
    BY DEF AuthOverhead, First, Last
<1> QED
    BY <1>1, <1>2, <1>3 DEF Remaining

\* What is allocated is enough for the whole write.
LEMMA AllocRoom ==
    ASSUME NEW p \in AllProtocols, NEW n \in Nat, n > 0, NEW sentHeader \in BOOLEAN,
           p = "verify_simple" => sentHeader
    PROVE  /\ Remaining(p, n, sentHeader) <= 2 * n + Slack(p)
           /\ 2 * n + Slack(p) \in Nat /\ 2 * n + Slack(p) > 0
BY SMTT(30) DEF Remaining, Last, First, Slack, Simple, AllProtocols

LEMMA RemainingNat ==
    ASSUME NEW p, NEW left \in Nat, NEW sentHeader \in BOOLEAN
    PROVE  Remaining(p, left, sentHeader) \in Nat
BY DEF Remaining, Last, First

-----------------------------------------------------------------------------
(* The rest of the inductive invariant. *)

\* Every identifier issued comes before, or is, the current one.
NotAfter(a, b) == a.client < b.client \/ (a.client = b.client /\ a.id <= b.id)

IdInv == (\A i \in 1..Len(issued) : NotAfter(issued[i], global)) /\ IdsFresh

\* A frame the receiver can accept, with the data that was put in it.
Wellformed(f) ==
    /\ f.length = f.end - f.start
    /\ f.length >= 8 /\ f.length < LengthLimit
    /\ DataSize(f) = f.to - f.from

FrameAt(i) ==
    /\ frames[i].start = (IF i = 1 THEN 0 ELSE frames[i - 1].end)
    /\ frames[i].from = (IF i = 1 THEN 0 ELSE frames[i - 1].to)
    /\ frames[i].start < frames[i].end
    /\ frames[i].id = i
    /\ sameKey => Wellformed(frames[i])

\* The frames follow each other without a gap, in the stream and in the data.
ChainInv == \A i \in 1..Len(frames) : FrameAt(i)

\* The packer goes on where the last frame ends.
LinkInv ==
    /\ HasReceiver =>
          /\ packer.sentHeader
          /\ packer.packId = Len(frames) + 1
          /\ packer.from = (IF frames = <<>> THEN 0 ELSE frames[Len(frames)].to)
    /\ ~HasReceiver => frames = <<>>

StartOf(fs, i, packed) == IF i <= Len(fs) THEN fs[i].start ELSE packed

\* The receiver's buffer begins where the frame it will look at begins.
PosInv ==
    /\ receiver.next <= Len(frames) + 1 /\ receiver.next >= 1
    /\ status = "open" => taken = StartOf(frames, receiver.next, Packed)
    /\ taken <= got /\ got <= sent /\ sent <= Packed
    /\ proto = "auth_aes128" => receiver.recvId = receiver.next
    /\ ~sameKey => receiver.next = 1 /\ receiver.unpacked = 0

\* What waits for the rest of a frame is shorter than any frame accepted.
RefuseInv ==
    /\ CapacitySuffices /\ OnlyGarbageRefused
    /\ receiver.looping => status = "open"
    /\ ~receiver.looping /\ status = "open" => BufferSize < LengthLimit
    /\ ~HasReceiver => ~receiver.looping

\* The process ends by the write that overruns, and only by such a one.
OverrunInv == status = "overrun" => packer.alloc = 0 /\ CharSigned /\ request \in 128..251

Inv == /\ TypeOK /\ PackInv /\ IdInv /\ ChainInv /\ LinkInv /\ PosInv /\ RefuseInv
       /\ DataIntact /\ OverrunInv

-----------------------------------------------------------------------------
(* Lemmas about the data structures. *)

LEMMA ConstantTypes ==
    /\ Protocols \subseteq AllProtocols
    /\ SendSizes \subseteq Nat \ {0}
    /\ GarbageLengths \subseteq Nat
    /\ Paddings \subseteq Nat
    /\ \A k \in ReadSizes : k \in 1..MostRead
    /\ IdMask \in Nat /\ IdLimit \in Nat
BY ConstantsAssumption

LEMMA AppendFrame ==
    ASSUME NEW fs \in Seq(FrameType), NEW f \in FrameType, NEW gs, gs = Append(fs, f)
    PROVE  /\ gs \in Seq(FrameType) /\ Len(gs) = Len(fs) + 1 /\ gs # <<>>
           /\ gs[Len(fs) + 1] = f
           /\ \A i \in 1..Len(fs) : gs[i] = fs[i]
OBVIOUS

LEMMA AppendId ==
    ASSUME NEW s \in Seq(IdType), NEW g \in IdType, NEW t, t = Append(s, g)
    PROVE  /\ t \in Seq(IdType) /\ Len(t) = Len(s) + 1
           /\ t[Len(s) + 1] = g
           /\ \A i \in 1..Len(s) : t[i] = s[i]
OBVIOUS

LEMMA PackedNat ==
    ASSUME frames \in Seq(FrameType)
    PROVE  Packed \in Nat
<1>1. CASE frames = <<>>
    BY <1>1 DEF Packed
<1>2. CASE frames # <<>>
    <2>1. Len(frames) \in 1..Len(frames)
        BY <1>2
    <2>2. frames[Len(frames)] \in FrameType
        BY <2>1
    <2> QED
        BY <1>2, <2>2 DEF Packed, FrameType
<1> QED
    BY <1>1, <1>2

\* The padding is read back as it was written.
LEMMA PadRoundTrip ==
    ASSUME NEW p \in AllProtocols, NEW r \in Nat, Simple(p) => r <= 16
    PROVE  PadField(p, r) \in Seq(Nat) /\ ReadPad(p, PadField(p, r)) = r
<1>1. CASE ~Simple(p) /\ r >= 128
    <2>1. PadField(p, r) = <<255, r>>
        BY <1>1 DEF PadField
    <2> QED
        BY <1>1, <2>1 DEF ReadPad
<1>2. CASE ~(~Simple(p) /\ r >= 128)
    <2>1. PadField(p, r) = <<r>>
        BY <1>2 DEF PadField
    <2>2. PadField(p, r)[1] = r /\ (Simple(p) \/ r < 128)
        BY <1>2, <2>1
    <2> QED
        BY <2>1, <2>2 DEF ReadPad
<1> QED
    BY <1>1, <1>2

-----------------------------------------------------------------------------
(* The initial states, and one lemma per action. *)

\* The local data of a new connection satisfy the invariant.
LEMMA FreshConnection ==
    ASSUME proto \in AllProtocols, up \in BOOLEAN,
           packer = NewLocal(proto, up), frames = <<>>,
           sent = 0, got = 0, taken = 0,
           receiver = NewReceiver, delivered = 0, status = "open"
    PROVE  /\ packer \in PackerType /\ receiver \in ReceiverType
           /\ frames \in Seq(FrameType)
           /\ PackInv /\ ChainInv /\ LinkInv /\ PosInv /\ RefuseInv /\ DataIntact
<1>1. /\ packer.left = 0 /\ packer.alloc = 0 /\ packer.out = 0
      /\ packer.packId = 1 /\ packer.from = 0
      /\ packer.sentHeader = (~up \/ proto = "verify_simple")
      /\ packer \in PackerType
    BY DEF NewLocal, PackerType
<1>2. /\ receiver.next = 1 /\ receiver.recvId = 1 /\ receiver.unpacked = 0
      /\ receiver.looping = FALSE /\ receiver \in ReceiverType
    BY DEF NewReceiver, ReceiverType
<1>3. Len(frames) = 0 /\ Packed = 0 /\ frames \in Seq(FrameType)
    BY DEF Packed
<1>3a. /\ proto = "verify_simple" => packer.sentHeader
       /\ HasReceiver => packer.sentHeader
    <2>1. packer.sentHeader = (~up \/ proto = "verify_simple")
        BY <1>1
    <2> QED
        BY <2>1, Zenon DEF HasReceiver
<1>4. PackInv
    BY <1>1, <1>3a DEF PackInv
<1>5. ChainInv
    BY <1>3 DEF ChainInv
<1>6. LinkInv
    BY <1>1, <1>3, <1>3a DEF LinkInv
<1>7. PosInv
    BY <1>2, <1>3 DEF PosInv, StartOf
<1>8. RefuseInv
    BY <1>2 DEF RefuseInv, CapacitySuffices, OnlyGarbageRefused, BufferSize, LengthLimit
<1>9. DataIntact
    BY <1>2 DEF DataIntact
<1> QED
    BY <1>1, <1>2, <1>3, <1>4, <1>5, <1>6, <1>7, <1>8, <1>9

LEMMA InitInv == Init => Inv
<1> SUFFICES ASSUME Init PROVE Inv
    OBVIOUS
<1>1. proto \in AllProtocols /\ up \in BOOLEAN
    BY ConstantTypes DEF Init
<1>2. /\ packer \in PackerType /\ receiver \in ReceiverType
      /\ frames \in Seq(FrameType)
      /\ PackInv /\ ChainInv /\ LinkInv /\ PosInv /\ RefuseInv /\ DataIntact
    BY <1>1, FreshConnection DEF Init
<1>3. global \in IdType /\ issued \in Seq(IdType) /\ Len(issued) = 0
    <2>1. 0..IdMask \subseteq Nat
        BY ConstantTypes
    <2> QED
        BY <2>1 DEF Init, IdType
<1>4. IdInv
    BY <1>3 DEF IdInv, IdsFresh
<1>5. TypeOK
    BY <1>2, <1>3 DEF Init, TypeOK, PackerType, ReceiverType, FrameType, IdType
<1>6. OverrunInv
    BY DEF Init, OverrunInv
<1> QED
    BY <1>2, <1>4, <1>5, <1>6 DEF Inv

\* Parts of the invariant that a packing step may leave alone.
LEMMA ReaderKept ==
    ASSUME Inv, UNCHANGED <<end, frames, sent, reader>>
    PROVE  ChainInv' /\ PosInv' /\ RefuseInv' /\ DataIntact'
<1>1. /\ UNCHANGED <<proto, up, garbage>> /\ UNCHANGED frames /\ UNCHANGED sent
      /\ UNCHANGED <<got, taken, receiver, delivered, status>>
    BY DEF end, reader
<1>2. Packed' = Packed /\ BufferSize' = BufferSize /\ sameKey' = sameKey
    BY <1>1 DEF Packed, BufferSize, sameKey
<1>3. ChainInv'
    BY <1>1, <1>2 DEF Inv, ChainInv, FrameAt, Wellformed, DataSize, ReadPad, Simple, Overhead
<1>4. PosInv'
    BY <1>1, <1>2 DEF Inv, PosInv, StartOf
<1>5. RefuseInv'
    BY <1>1, <1>2 DEF Inv, RefuseInv, CapacitySuffices, OnlyGarbageRefused, HasReceiver
<1>6. DataIntact'
    BY <1>1 DEF Inv, DataIntact
<1> QED
    BY <1>3, <1>4, <1>5, <1>6

LEMMA IdsKept ==
    ASSUME Inv, UNCHANGED <<global, issued>>
    PROVE  IdInv'
BY DEF Inv, IdInv, IdsFresh, NotAfter

LEMMA BeginPackStep ==
    ASSUME Inv, NEW n \in SendSizes, BeginPack(n)
    PROVE  Inv'
<1>0. n \in Nat /\ n > 0
    BY ConstantTypes
<1>1. /\ UNCHANGED <<end, frames, sent, reader>> /\ UNCHANGED <<global, issued>>
      /\ UNCHANGED <<proto, up, garbage, frames, sent, got, taken, receiver, delivered,
                     status, conns, request>>
      /\ writes' = writes + 1 /\ packer.alloc = 0 /\ status = "open"
    BY DEF BeginPack, end, reader
<1>2. packer \in PackerType /\ proto \in AllProtocols /\ PackInv /\ LinkInv /\ TypeOK
    BY ConstantTypes DEF Inv, TypeOK, PackerType
<1>3. /\ packer'.left = n /\ packer'.alloc = 2 * n + Slack(proto)
      /\ packer'.out = packer.out /\ packer'.packId = packer.packId
      /\ packer'.from = packer.from /\ packer'.sentHeader = packer.sentHeader
    BY <1>2 DEF BeginPack, PackerType
<1>4. /\ Remaining(proto, n, packer.sentHeader) <= 2 * n + Slack(proto)
      /\ 2 * n + Slack(proto) \in Nat /\ 2 * n + Slack(proto) > 0
      /\ Remaining(proto, n, packer.sentHeader) \in Nat
    <2>1. packer.sentHeader \in BOOLEAN /\ (proto = "verify_simple" => packer.sentHeader)
        BY <1>2 DEF PackInv, PackerType
    <2> QED
        BY <1>0, <1>2, <2>1, AllocRoom, RemainingNat
<1>5. packer' \in PackerType
    BY <1>0, <1>2, <1>4 DEF BeginPack, PackerType
<1>6. PackInv'
    BY <1>1, <1>2, <1>3, <1>4 DEF PackInv
<1>7. LinkInv'
    BY <1>1, <1>2, <1>3 DEF LinkInv, HasReceiver
<1>8. TypeOK'
    BY <1>1, <1>2, <1>5 DEF TypeOK, PackerType
<1>9. OverrunInv'
    BY <1>1 DEF OverrunInv
<1> QED
    BY <1>1, <1>6, <1>7, <1>8, <1>9, ReaderKept, IdsKept DEF Inv

\* The next pair of identifiers comes strictly after the current one.
LEMMA NextIdsAfter ==
    ASSUME NEW g \in IdType, NEW h \in NextIds(g)
    PROVE  /\ h \in IdType
           /\ g.client < h.client \/ (g.client = h.client /\ g.id < h.id)
<1>0. 0..IdMask \subseteq Nat /\ g.client \in Nat /\ g.id \in Nat
    BY ConstantTypes DEF IdType
<1>1. CASE g.id + 1 > IdLimit
    <2>1. h \in [client : {g.client + 1}, id : 0..IdMask]
        BY <1>1 DEF NextIds
    <2>2. h.client = g.client + 1 /\ h.id \in Nat /\ h \in IdType
        BY <1>0, <2>1 DEF IdType
    <2> QED
        BY <1>0, <2>2
<1>2. CASE ~(g.id + 1 > IdLimit)
    <2>1. h = [client |-> g.client, id |-> g.id + 1]
        BY <1>2 DEF NextIds
    <2> QED
        BY <1>0, <2>1 DEF IdType
<1> QED
    BY <1>1, <1>2

LEMMA IssueStep ==
    ASSUME IdInv, global \in IdType, issued \in Seq(IdType),
           global' \in NextIds(global), issued' = Append(issued, global')
    PROVE  global' \in IdType /\ issued' \in Seq(IdType) /\ IdInv'
<1>1. /\ global' \in IdType
      /\ global.client < global'.client
         \/ (global.client = global'.client /\ global.id < global'.id)
    BY NextIdsAfter
<1>2. /\ issued' \in Seq(IdType) /\ Len(issued') = Len(issued) + 1
      /\ issued'[Len(issued) + 1] = global'
      /\ \A i \in 1..Len(issued) : issued'[i] = issued[i]
    BY <1>1, AppendId
<1>3. \A i \in 1..Len(issued) :
         /\ issued[i].client \in Nat /\ issued[i].id \in Nat
         /\ NotAfter(issued[i], global)
    <2>1. \A i \in 1..Len(issued) : issued[i] \in IdType
        OBVIOUS
    <2> QED
        BY <2>1 DEF IdInv, IdType
<1>4. global.client \in Nat /\ global.id \in Nat /\ global'.client \in Nat /\ global'.id \in Nat
    BY <1>1 DEF IdType
<1>5. \A i \in 1..Len(issued) : NotAfter(issued[i], global') /\ issued[i] # global'
    <2>1. TAKE i \in 1..Len(issued)
    <2>2. /\ issued[i].client \in Nat /\ issued[i].id \in Nat
          /\ \/ issued[i].client < global.client
             \/ (issued[i].client = global.client /\ issued[i].id <= global.id)
        BY <1>3 DEF NotAfter
    <2>3. /\ NotAfter(issued[i], global')
          /\ issued[i].client # global'.client \/ issued[i].id # global'.id
        BY <1>1, <1>4, <2>2 DEF NotAfter
    <2> QED
        BY <2>3
<1>6. Len(issued) \in Nat
    OBVIOUS
<1>7. \A i \in 1..Len(issued') : i \in 1..Len(issued) \/ i = Len(issued) + 1
    BY <1>2, <1>6
<1>8. \A i \in 1..Len(issued') : NotAfter(issued'[i], global')
    <2>1. NotAfter(global', global')
        BY <1>4 DEF NotAfter
    <2> QED
        BY <1>2, <1>5, <1>7, <2>1
<1>9. IdsFresh'
    <2>1. \A i, j \in 1..Len(issued) : i # j => issued[i] # issued[j]
        BY DEF IdInv, IdsFresh
    <2>2. \A i, j \in 1..Len(issued') : i # j => issued'[i] # issued'[j]
        BY <1>2, <1>5, <1>7, <2>1
    <2> QED
        BY <2>2 DEF IdsFresh
<1> QED
    BY <1>1, <1>2, <1>8, <1>9 DEF IdInv

LEMMA FillStep ==
    ASSUME packer \in PackerType, NEW n \in Nat, NEW size \in Nat, NEW packId \in Nat,
           packer.left - n \in Nat, Fill(n, size, packId)
    PROVE  /\ packer'.left = packer.left - n /\ packer'.out = packer.out + size
           /\ packer'.from = packer.from + n /\ packer'.packId = packId
           /\ packer'.sentHeader = TRUE /\ packer'.alloc = packer.alloc
           /\ packer' \in PackerType
BY DEF Fill, PackerType

\* What a frame adds is paid for by what it takes off the rest of the write.
LEMMA PackInvStep ==
    ASSUME PackInv, proto' = proto, packer.alloc > 0, NEW size \in Nat,
           packer \in PackerType, packer' \in PackerType,
           packer'.out = packer.out + size, packer'.alloc = packer.alloc,
           packer'.sentHeader = TRUE,
           size + Remaining(proto, packer'.left, TRUE)
              <= Remaining(proto, packer.left, packer.sentHeader)
    PROVE  PackInv'
<1>1. /\ packer.left \in Nat /\ packer.out \in Nat /\ packer.alloc \in Nat
      /\ packer'.left \in Nat /\ packer'.out \in Nat /\ packer.sentHeader \in BOOLEAN
    BY DEF PackerType
<1>2. /\ Remaining(proto, packer.left, packer.sentHeader) \in Nat
      /\ Remaining(proto, packer'.left, TRUE) \in Nat
    BY <1>1, RemainingNat
<1>3. packer.out + Remaining(proto, packer.left, packer.sentHeader) <= packer.alloc
    BY DEF PackInv
<1>4. DEFINE a == Remaining(proto, packer.left, packer.sentHeader)
             b == Remaining(proto, packer'.left, TRUE)
<1>5. packer.out + a <= packer.alloc /\ size + b <= a /\ a \in Nat /\ b \in Nat
    BY <1>2, <1>3
<1> HIDE DEF a, b
<1>6. packer'.out + b <= packer'.alloc
    BY <1>1, <1>5
<1>7. b = Remaining(proto', packer'.left, packer'.sentHeader)
    BY DEF b
<1>8. packer'.alloc # 0 /\ packer'.sentHeader
    BY <1>1
<1> QED
    BY <1>6, <1>7, <1>8 DEF PackInv

LEMMA PackAuthStep ==
    ASSUME Inv, PackAuth
    PROVE  Inv'
<1>1. /\ UNCHANGED <<end, frames, sent, reader>>
      /\ UNCHANGED <<proto, up, garbage, frames, sent, got, taken, receiver, delivered,
                     status, writes, conns>>
      /\ packer.alloc > 0 /\ packer.left > 0 /\ ~packer.sentHeader
    BY DEF PackAuth, end, reader
<1>2. /\ packer \in PackerType /\ proto \in AllProtocols /\ PackInv /\ LinkInv /\ TypeOK
      /\ global \in IdType /\ issued \in Seq(IdType) /\ IdInv
    BY ConstantTypes DEF Inv, TypeOK, PackerType, IdType
<1>3. PICK n \in FirstSizes(proto, packer.left, request') :
         /\ n >= 0
         /\ \E pad \in AuthPadding(proto, n) \cap Paddings :
               Fill(n, pad + n + AuthOverhead(proto), packer.packId)
    BY DEF PackAuth
<1>3a. request' \in Requests(proto) /\ request' \in NameLengths \cup {NoName}
    BY DEF PackAuth, Requests
<1>4. PICK pad \in AuthPadding(proto, n) :
         Fill(n, pad + n + AuthOverhead(proto), packer.packId)
    BY <1>3
<1>5. proto # "verify_simple"
    BY <1>1, <1>2 DEF PackInv
<1>6. packer.left \in Nat /\ packer.packId \in Nat /\ packer.sentHeader = FALSE
    BY <1>1, <1>2 DEF PackerType
<1>7. /\ n \in Nat /\ packer.left - n \in Nat
      /\ pad + n + AuthOverhead(proto) \in Nat
      /\ (pad + n + AuthOverhead(proto)) + Remaining(proto, packer.left - n, TRUE)
            <= Remaining(proto, packer.left, FALSE)
    BY <1>1, <1>2, <1>3, <1>3a, <1>5, <1>6, FirstRoom
<1>9. /\ packer'.left = packer.left - n /\ packer'.sentHeader = TRUE
      /\ packer'.out = packer.out + (pad + n + AuthOverhead(proto))
      /\ packer'.alloc = packer.alloc
      /\ packer' \in PackerType
    BY <1>2, <1>4, <1>6, <1>7, FillStep
<1>10. PackInv'
    BY <1>1, <1>2, <1>6, <1>7, <1>9, PackInvStep
<1>11. LinkInv'
    <2>1. ~HasReceiver
        BY <1>1, <1>2 DEF LinkInv
    <2>2. ~HasReceiver' /\ frames' = <<>>
        BY <1>1, <1>2, <2>1 DEF LinkInv, HasReceiver
    <2> QED
        BY <2>2 DEF LinkInv
<1>12. global' \in NextIds(global) /\ issued' = Append(issued, global')
    BY DEF PackAuth
<1>13. global' \in IdType /\ issued' \in Seq(IdType) /\ IdInv'
    BY <1>2, <1>12, IssueStep
<1>14. TypeOK'
    BY <1>1, <1>2, <1>3a, <1>9, <1>13 DEF TypeOK, PackerType, IdType
<1>15. OverrunInv'
    <2>1. status # "overrun"
        BY <1>1 DEF Inv, OverrunInv
    <2> QED
        BY <1>1, <2>1 DEF OverrunInv
<1> QED
    BY <1>1, <1>10, <1>11, <1>13, <1>14, <1>15, ReaderKept DEF Inv

\* The head is of negative length: then the name is to blame, and nothing that
\* the receiver holds is touched, because nobody reads what this end packs.
LEMMA PackOverrunStep ==
    ASSUME Inv, PackOverrun
    PROVE  Inv'
<1>1. /\ UNCHANGED <<proto, up, garbage, issued, frames, sent, got, taken, receiver, delivered,
                     writes, conns>>
      /\ packer.alloc > 0 /\ packer.left > 0 /\ ~packer.sentHeader
      /\ status' = "overrun" /\ request' \in Requests(proto)
      /\ packer' = [packer EXCEPT !.left = 0, !.alloc = 0, !.out = 0]
      /\ global' \in NextIds(global)
    BY DEF PackOverrun, end
<1>2. /\ packer \in PackerType /\ proto \in AllProtocols /\ PackInv /\ LinkInv /\ TypeOK
      /\ global \in IdType /\ issued \in Seq(IdType) /\ IdInv /\ packer.left \in Nat
    BY ConstantTypes DEF Inv, TypeOK, PackerType, IdType
<1>3. /\ packer'.left = 0 /\ packer'.alloc = 0 /\ packer'.out = 0
      /\ packer'.packId = packer.packId /\ packer'.from = packer.from
      /\ packer'.sentHeader = packer.sentHeader /\ packer' \in PackerType
    BY <1>1, <1>2 DEF PackerType
<1>4. ~HasReceiver /\ ~HasReceiver' /\ ~receiver.looping
    BY <1>1, <1>2 DEF LinkInv, HasReceiver, Inv, RefuseInv
<1>5. PackInv' /\ LinkInv'
    BY <1>1, <1>2, <1>3, <1>4 DEF PackInv, LinkInv
<1>6. /\ global' \in IdType
      /\ global.client < global'.client
         \/ (global.client = global'.client /\ global.id < global'.id)
    BY <1>1, <1>2, NextIdsAfter
<1>7. IdInv'
    <2>1. ASSUME NEW i \in 1..Len(issued) PROVE NotAfter(issued[i], global')
        <3>1. issued[i] \in IdType /\ NotAfter(issued[i], global)
            BY <1>2 DEF IdInv
        <3> QED
            BY <1>2, <1>6, <3>1 DEF NotAfter, IdType
    <2> QED
        BY <1>1, <1>2, <2>1 DEF IdInv, IdsFresh
<1>8. Packed' = Packed /\ BufferSize' = BufferSize /\ sameKey' = sameKey
    BY <1>1 DEF Packed, BufferSize, sameKey
<1>9. ChainInv' /\ DataIntact'
    BY <1>1, <1>8 DEF Inv, ChainInv, FrameAt, Wellformed, DataSize, DataIntact
<1>10. PosInv' /\ RefuseInv'
    BY <1>1, <1>4, <1>8
       DEF Inv, PosInv, RefuseInv, CapacitySuffices, OnlyGarbageRefused
<1>11. OverrunInv'
    <2>1. PICK n \in FirstSizes(proto, packer.left, request') : n < 0
        BY DEF PackOverrun
    <2> QED
        BY <1>1, <1>2, <1>3, <2>1, FirstSizeBounds DEF OverrunInv
<1>12. TypeOK'
    <2>1. request' \in NameLengths \cup {NoName}
        BY <1>1 DEF Requests
    <2> QED
        BY <1>1, <1>2, <1>3, <1>6, <2>1 DEF TypeOK, PackerType, IdType
<1> QED
    BY <1>5, <1>7, <1>9, <1>10, <1>11, <1>12 DEF Inv

\* The frame that PackOne puts behind the others.
LEMMA NewFrame ==
    ASSUME Inv, HasReceiver, NEW n \in Nat, n >= 1, n <= PackUnit,
           NEW pad \in Padding(proto, n, packer.packId), NEW size,
           size = pad + n + Overhead(proto), NEW f, f = Frame(n, size, pad)
    PROVE  /\ f \in FrameType
           /\ f.start = Packed /\ f.end = Packed + size /\ f.id = Len(frames) + 1
           /\ f.from = (IF frames = <<>> THEN 0 ELSE frames[Len(frames)].to)
           /\ f.to = f.from + n
           /\ size \in Nat /\ size > 0
           /\ sameKey => Wellformed(f)
<1>1. /\ proto \in AllProtocols /\ packer \in PackerType /\ frames \in Seq(FrameType)
      /\ garbage \in GarbageLengths \cup {NoGarbage} /\ LinkInv
    BY ConstantTypes DEF Inv, TypeOK, PackerType, FrameType
<1>2. packer.packId \in Nat /\ packer.from \in Nat
    BY <1>1 DEF PackerType
<1>3. /\ pad \in Nat /\ pad >= 1 /\ pad <= 1024 /\ (Simple(proto) => pad <= 16)
    BY <1>1, <1>2, PaddingBounds
<1>4. Overhead(proto) \in {6, 8}
    BY DEF Overhead
<1>5. size \in Nat /\ size >= 8 /\ size < LengthLimit
    BY <1>3, <1>4 DEF PackUnit, LengthLimit
<1>6. Packed \in Nat
    BY <1>1, PackedNat
<1>7. /\ PadField(proto, pad) \in Seq(Nat)
      /\ ReadPad(proto, PadField(proto, pad)) = pad
    BY <1>1, <1>3, PadRoundTrip
<1>8. /\ f.start = Packed /\ f.end = Packed + size /\ f.id = packer.packId
      /\ f.from = packer.from /\ f.to = packer.from + n
      /\ f.pad = PadField(proto, pad)
      /\ f.length = (IF sameKey THEN size ELSE garbage)
    BY DEF Frame
<1>9. f.length \in Nat
    <2>1. garbage \in Nat \/ sameKey
        BY <1>1, ConstantTypes DEF sameKey
    <2> QED
        BY <1>5, <1>8, <2>1
<1>10. f \in FrameType
    <2>1. f = [start |-> f.start, end |-> f.end, length |-> f.length, pad |-> f.pad,
               from |-> f.from, to |-> f.to, id |-> f.id]
        BY DEF Frame
    <2>2. f.end \in Nat /\ f.to \in Nat
        BY <1>2, <1>5, <1>6, <1>8
    <2> QED
        BY <1>2, <1>6, <1>7, <1>8, <1>9, <2>1, <2>2 DEF FrameType
<1>11. sameKey => Wellformed(f)
    <2> SUFFICES ASSUME sameKey PROVE Wellformed(f)
        OBVIOUS
    <2>1. f.length = size /\ f.end - f.start = size /\ f.to - f.from = n
        BY <1>2, <1>5, <1>6, <1>8
    <2>2. DataSize(f) = (size - pad) - Overhead(proto)
        BY <1>7, <1>8, <2>1 DEF DataSize
    <2>3. DataSize(f) = n
        BY <1>3, <1>4, <2>2
    <2> QED
        BY <1>5, <2>1, <2>3 DEF Wellformed
<1> QED
    BY <1>1, <1>5, <1>8, <1>10, <1>11 DEF LinkInv

\* Appending that frame keeps the chain, and what the reader relies on.
LEMMA AppendStep ==
    ASSUME Inv, NEW f \in FrameType, NEW size \in Nat, size > 0,
           f.start = Packed, f.end = Packed + size, f.id = Len(frames) + 1,
           f.from = (IF frames = <<>> THEN 0 ELSE frames[Len(frames)].to),
           sameKey => Wellformed(f),
           frames' = Append(frames, f), UNCHANGED <<end, sent, reader>>
    PROVE  /\ frames' \in Seq(FrameType)
           /\ ChainInv' /\ PosInv' /\ RefuseInv' /\ DataIntact'
<1>1. /\ UNCHANGED <<proto, up, garbage>> /\ UNCHANGED sent
      /\ UNCHANGED <<got, taken, receiver, delivered, status>>
    BY DEF end, reader
<1>2. /\ frames \in Seq(FrameType) /\ receiver \in ReceiverType
      /\ taken \in Nat /\ got \in Nat /\ sent \in Nat
    BY DEF Inv, TypeOK, FrameType, ReceiverType
<1>3. /\ frames' \in Seq(FrameType) /\ Len(frames') = Len(frames) + 1 /\ frames' # <<>>
      /\ frames'[Len(frames) + 1] = f
      /\ \A i \in 1..Len(frames) : frames'[i] = frames[i]
    BY <1>2, AppendFrame
<1>4. Len(frames) \in Nat /\ Packed \in Nat
    BY <1>2, PackedNat
<1>5. Packed' = Packed + size
    BY <1>3 DEF Packed
<1>6. sameKey' = sameKey /\ BufferSize' = BufferSize
    BY <1>1 DEF sameKey, BufferSize
<1>7. ASSUME NEW i \in 1..Len(frames')
      PROVE  FrameAt(i)'
    <2>1. CASE i \in 1..Len(frames)
        <3>1. FrameAt(i)
            BY <2>1 DEF Inv, ChainInv
        <3>2. frames'[i] = frames[i] /\ (i # 1 => frames'[i - 1] = frames[i - 1])
            BY <1>3, <1>4, <2>1
        <3>3. sameKey' => Wellformed(frames[i])'
            BY <1>1, <1>6, <3>1, <3>2 DEF FrameAt, Wellformed, DataSize
        <3> QED
            BY <3>1, <3>2, <3>3 DEF FrameAt
    <2>2. CASE i = Len(frames) + 1
        <3>1. frames'[i] = f
            BY <1>3, <2>2
        <3>2. f.start = (IF i = 1 THEN 0 ELSE frames'[i - 1].end)
            BY <1>2, <1>3, <1>4, <2>2 DEF Packed
        <3>3. f.from = (IF i = 1 THEN 0 ELSE frames'[i - 1].to)
            BY <1>2, <1>3, <1>4, <2>2
        <3>4. f.start < f.end
            BY <1>4
        <3>5. sameKey' => Wellformed(frames[i])'
            BY <1>1, <1>6, <3>1 DEF Wellformed, DataSize
        <3> QED
            BY <2>2, <3>1, <3>2, <3>3, <3>4, <3>5 DEF FrameAt
    <2> QED
        BY <1>3, <1>4, <2>1, <2>2
<1>8. ChainInv'
    BY <1>7 DEF ChainInv
<1>9. PosInv'
    <2>1. receiver.next \in Nat /\ receiver.next >= 1 /\ receiver.next <= Len(frames) + 1
        BY <1>2 DEF Inv, PosInv, ReceiverType
    <2>2. StartOf(frames', receiver.next, Packed') = StartOf(frames, receiver.next, Packed)
        BY <1>3, <1>4, <2>1 DEF StartOf
    <2>3. sent <= Packed'
        BY <1>2, <1>4, <1>5 DEF Inv, PosInv
    <2> QED
        BY <1>1, <1>3, <1>4, <1>6, <2>1, <2>2, <2>3 DEF Inv, PosInv
<1>10. RefuseInv'
    BY <1>1, <1>6 DEF Inv, RefuseInv, CapacitySuffices, OnlyGarbageRefused, HasReceiver
<1>11. DataIntact'
    <2>1. receiver.next \in Nat /\ receiver.next >= 1 /\ receiver.next <= Len(frames) + 1
        BY <1>2 DEF Inv, PosInv, ReceiverType
    <2>2. receiver.next # 1 => frames'[receiver.next - 1] = frames[receiver.next - 1]
        BY <1>3, <1>4, <2>1
    <2> QED
        BY <1>1, <2>2 DEF Inv, DataIntact
<1> QED
    BY <1>3, <1>8, <1>9, <1>10, <1>11

LEMMA PackOneStep ==
    ASSUME Inv, PackOne
    PROVE  Inv'
<1>1. /\ UNCHANGED <<end, sent, reader>> /\ UNCHANGED <<global, issued>>
      /\ UNCHANGED <<proto, up, garbage, sent, got, taken, receiver, delivered,
                     status, writes, conns, request>>
      /\ packer.alloc > 0 /\ packer.left > 0 /\ packer.sentHeader
    BY DEF PackOne, end, reader
<1>1a. OverrunInv'
    BY <1>1 DEF Inv, OverrunInv
<1>2. /\ packer \in PackerType /\ proto \in AllProtocols /\ PackInv /\ LinkInv /\ TypeOK
      /\ frames \in Seq(FrameType)
    BY ConstantTypes DEF Inv, TypeOK, PackerType, FrameType
<1>3. /\ packer.left \in Nat /\ packer.packId \in Nat /\ packer.sentHeader = TRUE
    BY <1>1, <1>2 DEF PackerType
<1>4. PICK n : n = Min2(packer.left, PackUnit)
    OBVIOUS
<1>5. PICK pad \in Padding(proto, n, packer.packId) :
         /\ Fill(n, pad + n + Overhead(proto), packer.packId + 1)
         /\ frames' = IF HasReceiver
                      THEN Append(frames, Frame(n, pad + n + Overhead(proto), pad))
                      ELSE frames
    BY <1>4 DEF PackOne
<1>6. PICK size : size = pad + n + Overhead(proto)
    OBVIOUS
<1>7. /\ n \in Nat /\ n >= 1 /\ n <= PackUnit /\ packer.left - n \in Nat
      /\ size + Remaining(proto, packer.left - n, TRUE) <= Remaining(proto, packer.left, TRUE)
    BY <1>1, <1>2, <1>3, <1>4, <1>6, FrameRoom
<1>8. size \in Nat /\ size > 0
    <2>1. pad \in Nat /\ Overhead(proto) \in Nat
        BY <1>2, <1>3, <1>7, PaddingBounds DEF Overhead
    <2> QED
        BY <1>6, <1>7, <2>1
<1>9. /\ packer'.left = packer.left - n /\ packer'.sentHeader = TRUE
      /\ packer'.out = packer.out + size /\ packer'.alloc = packer.alloc
      /\ packer'.from = packer.from + n /\ packer'.packId = packer.packId + 1
      /\ packer' \in PackerType
    <2>1. packer.packId + 1 \in Nat
        BY <1>3
    <2>2. Fill(n, size, packer.packId + 1)
        BY <1>5, <1>6
    <2> QED
        BY <1>2, <1>7, <1>8, <2>1, <2>2, FillStep
<1>10. PackInv'
    BY <1>1, <1>2, <1>3, <1>7, <1>8, <1>9, PackInvStep
<1>11. CASE HasReceiver
    <2>1. PICK f : f = Frame(n, size, pad)
        OBVIOUS
    <2>2. /\ f \in FrameType
          /\ f.start = Packed /\ f.end = Packed + size /\ f.id = Len(frames) + 1
          /\ f.from = (IF frames = <<>> THEN 0 ELSE frames[Len(frames)].to)
          /\ f.to = f.from + n
          /\ sameKey => Wellformed(f)
        BY <1>6, <1>7, <1>11, <2>1, NewFrame
    <2>3. frames' = Append(frames, f)
        BY <1>5, <1>6, <1>11, <2>1
    <2>4. /\ frames' \in Seq(FrameType)
          /\ ChainInv' /\ PosInv' /\ RefuseInv' /\ DataIntact'
        BY <1>1, <1>8, <2>2, <2>3, AppendStep
    <2>5. /\ Len(frames') = Len(frames) + 1 /\ frames' # <<>>
          /\ frames'[Len(frames) + 1] = f
        BY <1>2, <2>2, <2>3, AppendFrame
    <2>6. LinkInv'
        <3>1. packer.packId = Len(frames) + 1 /\ packer.from = f.from
            BY <1>2, <1>11, <2>2 DEF LinkInv
        <3>2. HasReceiver' = HasReceiver
            BY <1>1 DEF HasReceiver
        <3>3. packer'.packId = Len(frames') + 1 /\ packer'.from = f.to
            BY <1>9, <2>2, <2>5, <3>1
        <3> QED
            BY <1>9, <1>11, <2>5, <3>2, <3>3 DEF LinkInv
    <2>7. TypeOK'
        BY <1>1, <1>2, <1>9, <2>4 DEF TypeOK, PackerType, FrameType
    <2> QED
        BY <1>1, <1>1a, <1>10, <2>4, <2>6, <2>7, IdsKept DEF Inv
<1>12. CASE ~HasReceiver
    <2>1. frames' = frames
        BY <1>5, <1>12
    <2>2. LinkInv'
        BY <1>1, <1>2, <1>12, <2>1 DEF LinkInv, HasReceiver
    <2>3. TypeOK'
        BY <1>1, <1>2, <1>9, <2>1 DEF TypeOK, PackerType
    <2> QED
        BY <1>1, <1>1a, <1>10, <2>1, <2>2, <2>3, ReaderKept, IdsKept DEF Inv
<1> QED
    BY <1>11, <1>12

LEMMA EndPackStep ==
    ASSUME Inv, EndPack
    PROVE  Inv'
<1>1. /\ UNCHANGED <<end, reader>> /\ UNCHANGED <<global, issued>>
      /\ UNCHANGED <<proto, up, garbage, frames, got, taken, receiver, delivered,
                     status, writes, conns, request>>
      /\ packer.left = 0 /\ sent' = Packed
    BY DEF EndPack, end, reader
<1>2. /\ packer \in PackerType /\ PackInv /\ LinkInv /\ TypeOK /\ PosInv
      /\ frames \in Seq(FrameType) /\ got \in Nat /\ sent \in Nat
    BY DEF Inv, TypeOK, PackerType, FrameType
<1>3. /\ packer'.left = 0 /\ packer'.alloc = 0 /\ packer'.out = 0
      /\ packer'.packId = packer.packId /\ packer'.from = packer.from
      /\ packer'.sentHeader = packer.sentHeader /\ packer' \in PackerType
    BY <1>1, <1>2 DEF EndPack, PackerType
<1>4. PackInv'
    BY <1>1, <1>2, <1>3 DEF PackInv
<1>5. LinkInv'
    BY <1>1, <1>2, <1>3 DEF LinkInv, HasReceiver
<1>6. Packed' = Packed /\ Packed \in Nat /\ BufferSize' = BufferSize /\ sameKey' = sameKey
    BY <1>1, <1>2, PackedNat DEF Packed, BufferSize, sameKey
<1>7. PosInv'
    BY <1>1, <1>2, <1>6 DEF PosInv, StartOf
<1>8. ChainInv'
    BY <1>1, <1>6 DEF Inv, ChainInv, FrameAt, Wellformed, DataSize
<1>9. RefuseInv' /\ DataIntact'
    BY <1>1, <1>6
       DEF Inv, RefuseInv, CapacitySuffices, OnlyGarbageRefused, DataIntact, HasReceiver
<1>10. TypeOK'
    BY <1>1, <1>2, <1>3, <1>6 DEF TypeOK, PackerType
<1>11. OverrunInv'
    BY <1>1, <1>3 DEF Inv, OverrunInv
<1> QED
    BY <1>1, <1>4, <1>5, <1>7, <1>8, <1>9, <1>10, <1>11, IdsKept DEF Inv

-----------------------------------------------------------------------------
(* The receiver's actions leave the packer alone. *)

LEMMA WriterKept ==
    ASSUME Inv, UNCHANGED <<end, writer>>
    PROVE  /\ PackInv' /\ IdInv' /\ ChainInv' /\ LinkInv'
           /\ Packed' = Packed /\ sameKey' = sameKey
           /\ UNCHANGED <<proto, up, garbage>>
           /\ UNCHANGED <<global, issued, packer, request, frames, sent, writes>>
<1>1. /\ UNCHANGED <<proto, up, garbage>>
      /\ UNCHANGED <<global, issued, packer, request, frames, sent, writes>>
    BY DEF end, writer
<1>2. Packed' = Packed /\ sameKey' = sameKey /\ HasReceiver' = HasReceiver
    BY <1>1 DEF Packed, sameKey, HasReceiver
<1>3. PackInv' /\ LinkInv'
    BY <1>1, <1>2 DEF Inv, PackInv, LinkInv
<1>4. ChainInv'
    BY <1>1, <1>2 DEF Inv, ChainInv, FrameAt, Wellformed, DataSize
<1> QED
    BY <1>1, <1>2, <1>3, <1>4, IdsKept

LEMMA NoOverrun ==
    ASSUME Inv, UNCHANGED <<end, writer>>, status' = status \/ status' # "overrun"
    PROVE  OverrunInv'
BY DEF writer, Inv, OverrunInv

LEMMA ReceiverFacts ==
    ASSUME Inv
    PROVE  /\ receiver \in ReceiverType /\ receiver.next \in Nat
           /\ receiver.unpacked \in Int /\ receiver.recvId \in Nat
           /\ frames \in Seq(FrameType) /\ Packed \in Nat /\ Len(frames) \in Nat
           /\ taken \in Nat /\ got \in Nat /\ sent \in Nat /\ delivered \in Int
           /\ taken <= got /\ got <= sent /\ sent <= Packed
           /\ receiver.next >= 1 /\ receiver.next <= Len(frames) + 1
           /\ garbage \in GarbageLengths \cup {NoGarbage} /\ proto \in AllProtocols
<1>1. receiver \in ReceiverType /\ frames \in Seq(FrameType)
    BY DEF Inv, TypeOK, ReceiverType, FrameType
<1> QED
    BY <1>1, PackedNat, ConstantTypes DEF Inv, TypeOK, PosInv, ReceiverType

LEMMA ReaderTypes ==
    ASSUME Inv, UNCHANGED <<end, writer>>, conns' = conns,
           receiver' \in ReceiverType, got' \in Nat, taken' \in Nat, delivered' \in Int,
           status' \in {"open", "capacity", "frame", "overrun"}
    PROVE  TypeOK'
<1>1. /\ UNCHANGED <<proto, up, garbage>>
      /\ UNCHANGED <<global, issued, packer, request, frames, sent, writes>>
    BY DEF end, writer
<1> QED
    BY <1>1 DEF Inv, TypeOK, ReceiverType

LEMMA RecvStep ==
    ASSUME Inv, NEW k \in ReadSizes, Recv(k)
    PROVE  Inv'
<1>0. k \in 1..MostRead
    BY ConstantTypes
<1>1. k \in Nat /\ k >= 1 /\ k <= MostRead
    BY <1>0 DEF MostRead
<1>2. /\ UNCHANGED <<end, writer>> /\ UNCHANGED <<taken, delivered, conns>>
      /\ status = "open" /\ ~receiver.looping /\ got < sent
    BY DEF Recv
<1>3. PICK n : n = Min2(k, sent - got)
    OBVIOUS
<1>4. n \in Nat /\ n <= k /\ got + n <= sent
    BY <1>1, <1>2, <1>3, ReceiverFacts DEF Min2
<1>5. BufferSize < LengthLimit /\ BufferSize \in Nat
    BY <1>2, ReceiverFacts DEF Inv, RefuseInv, BufferSize
<1>6. ~(BufferSize + n > RecvCapacity)
    BY <1>1, <1>4, <1>5 DEF LengthLimit, RecvCapacity, MostRead
<1>7. /\ got' = got + n /\ status' = status
      /\ receiver' = [receiver EXCEPT !.looping = TRUE]
    BY <1>3, <1>6 DEF Recv
<1>8. /\ receiver'.next = receiver.next /\ receiver'.recvId = receiver.recvId
      /\ receiver'.unpacked = receiver.unpacked /\ receiver'.looping = TRUE
      /\ receiver' \in ReceiverType
    BY <1>7, ReceiverFacts DEF ReceiverType
<1>9. /\ PackInv' /\ IdInv' /\ ChainInv' /\ LinkInv'
      /\ Packed' = Packed /\ sameKey' = sameKey
      /\ UNCHANGED <<proto, up, garbage>>
      /\ UNCHANGED <<global, issued, packer, request, frames, sent, writes>>
    BY <1>2, WriterKept
<1>10. PosInv'
    BY <1>2, <1>4, <1>7, <1>8, <1>9, ReceiverFacts DEF Inv, PosInv, StartOf
<1>11. RefuseInv'
    <2>1. HasReceiver
        BY <1>2, ReceiverFacts DEF Inv, LinkInv, Packed
    <2> QED
        BY <1>2, <1>7, <1>8, <1>9, <2>1
           DEF Inv, RefuseInv, CapacitySuffices, OnlyGarbageRefused, HasReceiver
<1>12. DataIntact'
    BY <1>2, <1>8, <1>9 DEF Inv, DataIntact
<1>13. TypeOK'
    <2>1. got' \in Nat /\ taken' \in Nat /\ delivered' \in Int
        BY <1>2, <1>4, <1>7, ReceiverFacts
    <2> QED
        BY <1>2, <1>7, <1>8, <2>1, ReaderTypes DEF Inv, TypeOK
<1>14. OverrunInv'
    BY <1>2, <1>7, NoOverrun
<1> QED
    BY <1>9, <1>10, <1>11, <1>12, <1>13, <1>14 DEF Inv

LEMMA ReceiverStops ==
    ASSUME NEW q, NEW r \in ReceiverType,
           q = [r EXCEPT !.looping = FALSE, !.unpacked = 0]
    PROVE  /\ q.next = r.next /\ q.recvId = r.recvId /\ q.unpacked = 0
           /\ q.looping = FALSE /\ q \in ReceiverType
<1>1. r.next \in Nat /\ r.recvId \in Nat
    BY DEF ReceiverType
<1>2. q = [next |-> r.next, recvId |-> r.recvId, unpacked |-> 0, looping |-> FALSE]
    BY DEF ReceiverType
<1>3. q.next = r.next /\ q.recvId = r.recvId /\ q.unpacked = 0 /\ q.looping = FALSE
    BY <1>2
<1>4. q \in ReceiverType
    <2>1. FALSE \in BOOLEAN /\ 0 \in Int
        OBVIOUS
    <2> QED
        BY <1>1, <1>2, <2>1, Zenon DEF ReceiverType
<1> QED
    BY <1>3, <1>4

\* A head that is looked at belongs to a frame that was sent.
LEMMA HeadExists ==
    ASSUME Inv, AtHead
    PROVE  /\ status = "open" /\ receiver.next <= Len(frames)
           /\ receiver.next \in 1..Len(frames)
           /\ frames[receiver.next] \in FrameType
           /\ FrameAt(receiver.next) /\ taken = frames[receiver.next].start
           /\ BufferSize \in Nat
<1>1. status = "open" /\ BufferSize > HeadBytes(proto)
    BY DEF AtHead, Inv, RefuseInv
<1>2. BufferSize > 0
    BY <1>1, ReceiverFacts DEF HeadBytes, BufferSize
<1>3. taken < Packed
    BY <1>2, ReceiverFacts DEF BufferSize
<1>4. taken = StartOf(frames, receiver.next, Packed)
    BY <1>1 DEF Inv, PosInv
<1>5. receiver.next <= Len(frames)
    BY <1>3, <1>4, ReceiverFacts DEF StartOf
<1>6. receiver.next \in 1..Len(frames) /\ taken = frames[receiver.next].start
    BY <1>4, <1>5, ReceiverFacts DEF StartOf
<1>7. frames[receiver.next] \in FrameType
    BY <1>6, ReceiverFacts
<1>8. FrameAt(receiver.next)
    BY <1>6 DEF Inv, ChainInv
<1>9. BufferSize \in Nat
    BY <1>2, ReceiverFacts DEF BufferSize
<1> QED
    BY <1>1, <1>5, <1>6, <1>7, <1>8, <1>9

\* Under the same key no frame is refused.
LEMMA SameKeyAccepted ==
    ASSUME Inv, AtHead, sameKey
    PROVE  ~Refusable(frames[receiver.next])
<1>1. FrameAt(receiver.next)
    BY HeadExists
<1>2. /\ frames[receiver.next].length >= 8 /\ frames[receiver.next].length < LengthLimit
      /\ frames[receiver.next].id = receiver.next
    BY <1>1 DEF FrameAt, Wellformed
<1>3. frames[receiver.next].length \in Nat
    BY HeadExists DEF FrameType
<1>4. Genuine(frames[receiver.next])
    BY <1>2 DEF Genuine, Inv, PosInv
<1>5. /\ ~(frames[receiver.next].length >= LengthLimit)
      /\ ~(frames[receiver.next].length < LeastLength(proto))
    BY <1>2, <1>3 DEF LeastLength, LengthLimit
<1> QED
    BY <1>4, <1>5 DEF Refusable

LEMMA RefuseFrameStep ==
    ASSUME Inv, RefuseFrame
    PROVE  Inv'
<1>1. /\ UNCHANGED <<end, writer>> /\ UNCHANGED <<got, delivered, conns>>
      /\ AtHead /\ Refusable(frames[receiver.next])
      /\ status' = "frame" /\ taken' = got
    BY DEF RefuseFrame
<1>2. ~sameKey
    BY <1>1, SameKeyAccepted
<1>3. /\ receiver'.next = receiver.next /\ receiver'.recvId = receiver.recvId
      /\ receiver'.unpacked = 0 /\ receiver'.looping = FALSE
      /\ receiver' \in ReceiverType
    <2>1. receiver' = [receiver EXCEPT !.looping = FALSE, !.unpacked = 0]
        BY DEF RefuseFrame
    <2>2. receiver \in ReceiverType
        BY ReceiverFacts
    <2> QED
        BY <2>1, <2>2, ReceiverStops
<1>4. /\ PackInv' /\ IdInv' /\ ChainInv' /\ LinkInv'
      /\ Packed' = Packed /\ sameKey' = sameKey
      /\ UNCHANGED <<proto, up, garbage>>
      /\ UNCHANGED <<global, issued, packer, request, frames, sent, writes>>
    BY <1>1, WriterKept
<1>5. receiver.unpacked = 0
    BY <1>2 DEF Inv, PosInv
<1>6. PosInv'
    BY <1>1, <1>3, <1>4, ReceiverFacts DEF Inv, PosInv
<1>7. RefuseInv'
    BY <1>1, <1>2, <1>3, <1>4 DEF RefuseInv, CapacitySuffices, OnlyGarbageRefused
<1>8. DataIntact'
    BY <1>1, <1>3, <1>4, <1>5 DEF Inv, DataIntact
<1>9. TypeOK'
    BY <1>1, <1>3, ReceiverFacts, ReaderTypes
<1>10. OverrunInv'
    BY <1>1, NoOverrun
<1> QED
    BY <1>4, <1>6, <1>7, <1>8, <1>9, <1>10 DEF Inv

LEMMA TakeFrameStep ==
    ASSUME Inv, TakeFrame
    PROVE  Inv'
<1>1. PICK f : f = frames[receiver.next]
    OBVIOUS
<1>2. /\ UNCHANGED <<end, writer>> /\ UNCHANGED <<got, delivered, status, conns>>
      /\ AtHead /\ ~Refusable(f) /\ f.length <= BufferSize
      /\ taken' = taken + f.length
      /\ receiver' = [receiver EXCEPT !.next = @ + 1,
                             !.recvId = NextRecvId(receiver),
                             !.unpacked = @ + DataSize(f)]
    BY <1>1 DEF TakeFrame
<1>3. /\ status = "open" /\ receiver.next \in 1..Len(frames) /\ f \in FrameType
      /\ FrameAt(receiver.next) /\ taken = f.start
      /\ receiver.looping
    BY <1>1, <1>2, HeadExists DEF AtHead
<1>4. sameKey
    BY <1>2 DEF Refusable, Genuine
<1>5. /\ f.length = f.end - f.start /\ DataSize(f) = f.to - f.from
      /\ f.from = (IF receiver.next = 1 THEN 0 ELSE frames[receiver.next - 1].to)
      /\ f.length \in Nat /\ f.end \in Nat /\ f.start \in Nat /\ f.from \in Nat /\ f.to \in Nat
    BY <1>1, <1>3, <1>4 DEF FrameAt, Wellformed, FrameType
<1>6. taken' = f.end /\ f.end <= got /\ DataSize(f) \in Int
    <2>1. got \in Nat /\ taken \in Nat
        BY ReceiverFacts
    <2>2. f.length <= got - taken /\ taken' = taken + f.length /\ taken = f.start
        BY <1>2, <1>3 DEF BufferSize
    <2>3. taken' = f.end /\ f.end <= got
        BY <1>5, <2>1, <2>2
    <2>4. DataSize(f) \in Int
        BY <1>5
    <2> QED
        BY <2>3, <2>4
<1>7. NextRecvId(receiver) \in Nat /\ (proto = "auth_aes128" => NextRecvId(receiver) = receiver.next + 1)
    BY ReceiverFacts DEF NextRecvId, Inv, PosInv
<1>8. /\ receiver'.next = receiver.next + 1 /\ receiver'.recvId = NextRecvId(receiver)
      /\ receiver'.unpacked = receiver.unpacked + DataSize(f)
      /\ receiver'.looping = receiver.looping
      /\ receiver' \in ReceiverType
    <2>1. receiver \in ReceiverType
        BY ReceiverFacts
    <2>2. PICK id \in Nat : id = NextRecvId(receiver)
        BY <1>7
    <2>3. PICK d \in Int : d = DataSize(f)
        BY <1>6
    <2>4. receiver' = [receiver EXCEPT !.next = @ + 1, !.recvId = id, !.unpacked = @ + d]
        BY <1>2, <2>2, <2>3
    <2>5. /\ receiver.next + 1 \in Nat /\ receiver.unpacked + d \in Int
          /\ receiver.looping \in BOOLEAN
        BY <2>1 DEF ReceiverType
    <2>6. receiver' = [next |-> receiver.next + 1, recvId |-> id,
                       unpacked |-> receiver.unpacked + d, looping |-> receiver.looping]
        BY <2>1, <2>4 DEF ReceiverType
    <2>7. /\ receiver'.next = receiver.next + 1 /\ receiver'.recvId = id
          /\ receiver'.unpacked = receiver.unpacked + d
          /\ receiver'.looping = receiver.looping
          /\ receiver' \in ReceiverType
        BY <2>5, <2>6 DEF ReceiverType
    <2> QED
        BY <2>2, <2>3, <2>7
<1>9. /\ PackInv' /\ IdInv' /\ ChainInv' /\ LinkInv'
      /\ Packed' = Packed /\ sameKey' = sameKey
      /\ UNCHANGED <<proto, up, garbage>>
      /\ UNCHANGED <<global, issued, packer, request, frames, sent, writes>>
    BY <1>2, WriterKept
<1>10. PosInv'
    <2>1. taken' = StartOf(frames, receiver.next + 1, Packed)
        <3>1. CASE receiver.next + 1 <= Len(frames)
            <4>1. receiver.next + 1 \in 1..Len(frames)
                BY <3>1, ReceiverFacts
            <4>2. FrameAt(receiver.next + 1)
                BY <4>1 DEF Inv, ChainInv
            <4>3. frames[receiver.next + 1].start = frames[receiver.next].end
                BY <4>2, ReceiverFacts DEF FrameAt
            <4> QED
                BY <1>1, <1>6, <3>1, <4>3 DEF StartOf
        <3>2. CASE ~(receiver.next + 1 <= Len(frames))
            <4>1. receiver.next = Len(frames) /\ frames # <<>>
                BY <1>3, <3>2, ReceiverFacts
            <4> QED
                BY <1>1, <1>6, <3>2, <4>1 DEF StartOf, Packed
        <3> QED
            BY <3>1, <3>2
    <2>2. receiver.next + 1 <= Len(frames) + 1 /\ receiver.next + 1 >= 1
        BY <1>3, ReceiverFacts
    <2> QED
        BY <1>2, <1>4, <1>6, <1>7, <1>8, <1>9, <2>1, <2>2, ReceiverFacts DEF PosInv
<1>11. RefuseInv'
    BY <1>2, <1>3, <1>8, <1>9
       DEF Inv, RefuseInv, CapacitySuffices, OnlyGarbageRefused, HasReceiver
<1>12. DataIntact'
    <2>0. delivered + receiver.unpacked = f.from
        BY <1>5 DEF Inv, DataIntact
    <2>1. delivered + (receiver.unpacked + DataSize(f)) = f.to
        <3>1. delivered \in Int /\ receiver.unpacked \in Int
            BY ReceiverFacts
        <3>2. DataSize(f) = f.to - f.from /\ f.from \in Nat /\ f.to \in Nat
            BY <1>5
        <3> QED
            BY <2>0, <3>1, <3>2
    <2>2. receiver'.next # 1 /\ receiver'.next - 1 = receiver.next
        BY <1>8, ReceiverFacts
    <2> QED
        BY <1>1, <1>2, <1>8, <1>9, <2>1, <2>2 DEF DataIntact
<1>13. TypeOK'
    <2>1. taken' \in Nat /\ got' \in Nat /\ delivered' \in Int
        BY <1>2, <1>5, <1>6, ReceiverFacts
    <2> QED
        BY <1>2, <1>8, <2>1, ReaderTypes DEF Inv, TypeOK
<1>14. OverrunInv'
    BY <1>2, NoOverrun
<1> QED
    BY <1>9, <1>10, <1>11, <1>12, <1>13, <1>14 DEF Inv

LEMMA ReturnStep ==
    ASSUME Inv, Return
    PROVE  Inv'
<1>1. /\ UNCHANGED <<end, writer>> /\ UNCHANGED <<got, taken, status, conns>>
      /\ receiver.looping /\ LoopEnds
      /\ delivered' = delivered + receiver.unpacked
      /\ receiver' = [receiver EXCEPT !.looping = FALSE, !.unpacked = 0]
    BY DEF Return
<1>2. /\ receiver'.next = receiver.next /\ receiver'.recvId = receiver.recvId
      /\ receiver'.unpacked = 0 /\ receiver'.looping = FALSE
      /\ receiver' \in ReceiverType
    <2>1. receiver \in ReceiverType
        BY ReceiverFacts
    <2> QED
        BY <1>1, <2>1, ReceiverStops
<1>3. /\ PackInv' /\ IdInv' /\ ChainInv' /\ LinkInv'
      /\ Packed' = Packed /\ sameKey' = sameKey
      /\ UNCHANGED <<proto, up, garbage>>
      /\ UNCHANGED <<global, issued, packer, request, frames, sent, writes>>
    BY <1>1, WriterKept
<1>4. BufferSize < LengthLimit /\ BufferSize' = BufferSize
    <2>1. BufferSize' = BufferSize /\ BufferSize \in Int
        BY <1>1, ReceiverFacts DEF BufferSize
    <2>2. CASE BufferSize <= HeadBytes(proto)
        BY <2>1, <2>2 DEF HeadBytes, LengthLimit
    <2>3. CASE BufferSize > HeadBytes(proto)
        <3>1. frames[receiver.next] \in FrameType
            BY <1>1, <2>3, HeadExists DEF AtHead
        <3>2. /\ ~Refusable(frames[receiver.next])
              /\ frames[receiver.next].length > BufferSize
            BY <1>1, <2>3 DEF LoopEnds
        <3>3. ~(frames[receiver.next].length >= LengthLimit)
            BY <3>2 DEF Refusable
        <3>4. frames[receiver.next].length \in Nat
            BY <3>1 DEF FrameType
        <3> QED
            BY <2>1, <3>2, <3>3, <3>4 DEF LengthLimit
    <2>4. HeadBytes(proto) \in Int
        BY DEF HeadBytes
    <2> QED
        BY <2>1, <2>2, <2>3, <2>4
<1>5. PosInv'
    BY <1>1, <1>2, <1>3 DEF Inv, PosInv
<1>6. RefuseInv'
    BY <1>1, <1>2, <1>3, <1>4 DEF Inv, RefuseInv, CapacitySuffices, OnlyGarbageRefused
<1>7. DataIntact'
    <2>1. delivered \in Int /\ receiver.unpacked \in Int
        BY ReceiverFacts
    <2>2. delivered' + receiver'.unpacked = delivered + receiver.unpacked
        BY <1>1, <1>2, <2>1
    <2> QED
        BY <1>2, <1>3, <2>2 DEF Inv, DataIntact
<1>8. TypeOK'
    <2>1. got' \in Nat /\ taken' \in Nat /\ delivered' \in Int
        BY <1>1, ReceiverFacts
    <2> QED
        BY <1>1, <1>2, <2>1, ReaderTypes DEF Inv, TypeOK
<1>9. OverrunInv'
    BY <1>1, NoOverrun
<1> QED
    BY <1>3, <1>5, <1>6, <1>7, <1>8, <1>9 DEF Inv

\* FreshConnection, said of the next state.
LEMMA FreshConnectionNext ==
    ASSUME proto' \in AllProtocols, up' \in BOOLEAN,
           packer' = NewLocal(proto', up'), frames' = <<>>,
           sent' = 0, got' = 0, taken' = 0,
           receiver' = NewReceiver, delivered' = 0, status' = "open"
    PROVE  /\ packer' \in PackerType /\ receiver' \in ReceiverType
           /\ frames' \in Seq(FrameType)
           /\ PackInv' /\ ChainInv' /\ LinkInv' /\ PosInv' /\ RefuseInv' /\ DataIntact'
<1>1. /\ packer'.left = 0 /\ packer'.alloc = 0 /\ packer'.out = 0
      /\ packer'.packId = 1 /\ packer'.from = 0
      /\ packer'.sentHeader = (~up' \/ proto' = "verify_simple")
      /\ packer' \in PackerType
    BY DEF NewLocal, PackerType
<1>2. /\ receiver'.next = 1 /\ receiver'.recvId = 1 /\ receiver'.unpacked = 0
      /\ receiver'.looping = FALSE /\ receiver' \in ReceiverType
    BY DEF NewReceiver, ReceiverType
<1>3. Len(frames') = 0 /\ Packed' = 0 /\ frames' \in Seq(FrameType)
    BY DEF Packed
<1>4. /\ proto' = "verify_simple" => packer'.sentHeader
      /\ HasReceiver' => packer'.sentHeader
    <2>1. packer'.sentHeader = (~up' \/ proto' = "verify_simple")
        BY <1>1
    <2> QED
        BY <2>1, Zenon DEF HasReceiver
<1>5. PackInv'
    BY <1>1, <1>4 DEF PackInv
<1>6. ChainInv'
    BY <1>3 DEF ChainInv
<1>7. LinkInv'
    BY <1>1, <1>3, <1>4 DEF LinkInv
<1>8. PosInv'
    BY <1>2, <1>3 DEF PosInv, StartOf
<1>9. RefuseInv'
    BY <1>2 DEF RefuseInv, CapacitySuffices, OnlyGarbageRefused, BufferSize, LengthLimit
<1>10. DataIntact'
    BY <1>2 DEF DataIntact
<1> QED
    BY <1>1, <1>2, <1>3, <1>5, <1>6, <1>7, <1>8, <1>9, <1>10

LEMMA NewConnectionStep ==
    ASSUME Inv, NewConnection
    PROVE  Inv'
<1>1. /\ proto' = proto /\ up' \in BOOLEAN
      /\ garbage' \in GarbageLengths \cup {NoGarbage}
      /\ packer' = NewLocal(proto', up') /\ frames' = <<>>
      /\ sent' = 0 /\ got' = 0 /\ taken' = 0
      /\ receiver' = NewReceiver /\ delivered' = 0 /\ status' = "open"
      /\ writes' = 0 /\ conns' = conns + 1 /\ UNCHANGED <<global, issued>>
      /\ request' = NoName
    BY DEF NewConnection
<1>2. proto' \in AllProtocols
    BY <1>1, ConstantTypes DEF Inv, TypeOK
<1>3. /\ packer' \in PackerType /\ receiver' \in ReceiverType
      /\ frames' \in Seq(FrameType)
      /\ PackInv' /\ ChainInv' /\ LinkInv' /\ PosInv' /\ RefuseInv' /\ DataIntact'
    BY <1>1, <1>2, FreshConnectionNext
<1>4. TypeOK'
    BY <1>1, <1>3 DEF Inv, TypeOK, PackerType, ReceiverType, FrameType
<1>5. OverrunInv'
    BY <1>1 DEF OverrunInv
<1> QED
    BY <1>1, <1>3, <1>4, <1>5, IdsKept DEF Inv

-----------------------------------------------------------------------------
(* The theorems. *)

LEMMA NextInv == Inv /\ [Next]_vars => Inv'
<1> SUFFICES ASSUME Inv, [Next]_vars PROVE Inv'
    OBVIOUS
<1>1. CASE \E n \in SendSizes : BeginPack(n)
    BY <1>1, BeginPackStep
<1>2. CASE PackAuth
    BY <1>2, PackAuthStep
<1>2a. CASE PackOverrun
    BY <1>2a, PackOverrunStep
<1>3. CASE PackOne
    BY <1>3, PackOneStep
<1>4. CASE EndPack
    BY <1>4, EndPackStep
<1>5. CASE \E k \in ReadSizes : Recv(k)
    BY <1>5, RecvStep
<1>6. CASE RefuseFrame
    BY <1>6, RefuseFrameStep
<1>7. CASE TakeFrame
    BY <1>7, TakeFrameStep
<1>8. CASE Return
    BY <1>8, ReturnStep
<1>9. CASE NewConnection
    BY <1>9, NewConnectionStep
<1>10. CASE UNCHANGED vars
    <2>1. /\ UNCHANGED <<end, frames, sent, reader>> /\ UNCHANGED <<end, writer>>
          /\ UNCHANGED <<global, issued>> /\ conns' = conns /\ UNCHANGED reader
        BY <1>10 DEF vars, writer
    <2>2. TypeOK'
        BY <2>1 DEF Inv, TypeOK, end, writer, reader
    <2>3. OverrunInv'
        BY <2>1, NoOverrun DEF reader
    <2> QED
        BY <2>1, <2>2, <2>3, ReaderKept, WriterKept DEF Inv
<1> QED
    BY <1>1, <1>2, <1>2a, <1>3, <1>4, <1>5, <1>6, <1>7, <1>8, <1>9, <1>10
       DEF Next, Packing, Unpacking

THEOREM Invariance == Spec => []Inv
BY InitInv, NextInv, PTL DEF Spec

(* Every state of the framing has the types the code declares: lengths are *)
(* never negative, for names of any length a byte can say and either kind  *)
(* of char, since the head that would be is where the process ends.        *)
THEOREM TypeCorrect == Spec => []TypeOK
<1>1. Inv => TypeOK
    BY DEF Inv
<1> QED
    BY Invariance, <1>1, PTL

(* The packing buffer (twice the write and the plug-in's slack) holds the  *)
(* frames of any write of any length, with any padding, and any name the   *)
(* first request may hold, with one exception: a name of 128 to 251 bytes, *)
(* where char is signed (get_head_size, *_pack_auth_data).                 *)
THEOREM PackingFits == Spec => []OutFits
<1>1. Inv => OutFits
    <2> SUFFICES ASSUME Inv PROVE OutFits
        OBVIOUS
    <2>1. /\ packer.left \in Nat /\ packer.out \in Nat /\ packer.alloc \in Nat
          /\ packer.sentHeader \in BOOLEAN
        BY DEF Inv, TypeOK
    <2>2. Remaining(proto, packer.left, packer.sentHeader) \in Nat
        BY <2>1, RemainingNat
    <2>3. packer.alloc > 0 =>
             packer.out + Remaining(proto, packer.left, packer.sentHeader) <= packer.alloc
        BY DEF Inv, PackInv
    <2>4. packer.alloc > 0 => packer.out <= packer.alloc
        BY <2>1, <2>2, <2>3
    <2> QED
        BY <2>4 DEF OutFits, Inv, OverrunInv
<1> QED
    BY Invariance, <1>1, PTL

(* The receive buffer never overflows into a refusal, whatever the reads.  *)
THEOREM ReceivingFits == Spec => []CapacitySuffices
<1>1. Inv => CapacitySuffices
    BY DEF Inv, RefuseInv
<1> QED
    BY Invariance, <1>1, PTL

(* Two ends with the same key never refuse each other's frames.            *)
THEOREM EndsAgree == Spec => []OnlyGarbageRefused
<1>1. Inv => OnlyGarbageRefused
    BY DEF Inv, RefuseInv
<1> QED
    BY Invariance, <1>1, PTL

(* The data handed on are the data that were packed, in order.             *)
THEOREM DataKept == Spec => []DataIntact
<1>1. Inv => DataIntact
    BY DEF Inv
<1> QED
    BY Invariance, <1>1, PTL

(* Client and connection ids never repeat, also when the counter wraps.    *)
THEOREM IdsNeverRepeat == Spec => []IdsFresh
<1>1. Inv => IdsFresh
    BY DEF Inv, IdInv
<1> QED
    BY Invariance, <1>1, PTL

=============================================================================
