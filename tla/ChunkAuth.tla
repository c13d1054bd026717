------------------------------- MODULE ChunkAuth -------------------------------
(***************************************************************************)
(* The one-time authentication of a client's stream: ss_gen_hash of        *)
(* encrypt.c cuts the payload into chunks of a length, a hash and data, and*)
(* ss_check_hash, called for each piece TCP delivers, puts the payload back*)
(* in place of the chunks in the very buffer it reads from.  A chunk may   *)
(* come in many pieces and a piece may hold many chunks.  One iteration of *)
(* its loop is one action here; a byte is a record of its chunk and its    *)
(* place there.  TcpRelay sees the result only: units held and released.   *)
(***************************************************************************)
EXTENDS Integers, Sequences, SequencesExt

CONSTANTS
    ClenBytes,  \* CLEN_BYTES (2): the length field
    AuthBytes,  \* AUTH_BYTES (12): the length and the hash
    BufSize,    \* BUF_SIZE (2048): most that recv returns, least capacity
    Plans       \* sequences of chunk lengths a client may send

ASSUME ChunkAssumption ==
    /\ ClenBytes \in Nat \ {0}
    /\ AuthBytes \in Nat
    /\ ClenBytes < AuthBytes
    /\ BufSize \in Nat
    /\ ClenBytes <= BufSize
    /\ Plans \subseteq Seq(Nat)

VARIABLES
    sent,       \* the client's chunks: [lens, bad], bad being the number of
                \* the one whose hash does not match, or 0
    taken,      \* bytes of the stream received so far
    buf,        \* buffer_t: [array, cap]
    chunk,      \* chunk_t: [array, cap, idx, len, counter]
    call,       \* locals of ss_check_hash: [i, j, k, blen, cidx]
    released,   \* history: the payload handed on
    pc          \* "wait", "loop" or "failed" (the caller closes)

vars == <<sent, taken, buf, chunk, call, released, pc>>

Junk == [chunk |-> 0, pos |-> 0]

\* the bytes of chunk n, as ss_gen_hash lays them out
ChunkBytes(n, len) == [p \in 1..(AuthBytes + len) |-> [chunk |-> n, pos |-> p - 1]]
ChunkData(n, len) == [p \in 1..len |-> [chunk |-> n, pos |-> AuthBytes + p - 1]]

Stream == FlattenSeq([n \in DOMAIN sent.lens |-> ChunkBytes(n, sent.lens[n])])
Payload(m) == FlattenSeq([n \in 1..m |-> ChunkData(n, sent.lens[n])])

\* brealloc: never below the caller's capacity, never shrinking
Larger(a, b) == IF a < b THEN b ELSE a
Capacity(cap, len) == Larger(cap, Larger(len, BufSize))

NoCall == [i |-> 0, j |-> 0, k |-> 0, blen |-> 0, cidx |-> 0]

Init ==
    /\ \E lens \in Plans : \E bad \in 0..Len(lens) : sent = [lens |-> lens, bad |-> bad]
    /\ taken = 0
    /\ buf = [array |-> [x \in {} |-> Junk], cap |-> BufSize]
    /\ chunk = [array |-> [x \in {} |-> Junk], cap |-> 0, idx |-> 0, len |-> 0, counter |-> 0]
    /\ call = NoCall
    /\ released = <<>>
    /\ pc = "wait"

-----------------------------------------------------------------------------
(* server_recv_cb receives n bytes and calls ss_check_hash.                *)

GrownForPiece(n) == Capacity(buf.cap, n)   \* fault
Grown(n) == Capacity(buf.cap, chunk.len + n)

Recv(n) ==
    /\ pc = "wait"
    /\ n \in 1..BufSize
    /\ taken + n <= Len(Stream)
    /\ taken' = taken + n
    /\ buf' = [array |-> [x \in 0..n - 1 |-> Stream[taken + x + 1]], cap |-> Grown(n)]
    /\ chunk' = [chunk EXCEPT !.cap = Capacity(@, chunk.len + n)]
    /\ call' = [NoCall EXCEPT !.blen = n, !.cidx = chunk.idx]
    /\ pc' = "loop"
    /\ UNCHANGED <<sent, released>>

-----------------------------------------------------------------------------
(* The loop: a byte goes from buf to chunk->buf.                           *)

Looping == pc = "loop" /\ call.i < call.blen

\* an array after some of its places are written
Overwritten(array, places) ==
    [x \in DOMAIN places \cup DOMAIN array |->
        IF x \in DOMAIN places THEN places[x] ELSE array[x]]

\* chunk->buf with the next byte
Copied == Overwritten(chunk.array, [x \in {call.cidx} |-> buf.array[call.k]])

\* The two bytes of the length field, read as the length of their chunk;
\* any other two would be no length at all.
Claimed(array) ==
    IF /\ array[0].chunk \in DOMAIN sent.lens
       /\ \A p \in 0..ClenBytes - 1 : array[p] = [chunk |-> array[0].chunk, pos |-> p]
    THEN sent.lens[array[0].chunk]
    ELSE 0

NextLen == IF call.cidx + 1 = ClenBytes THEN Claimed(Copied) ELSE chunk.len

NextCap == IF call.cidx + 1 = ClenBytes THEN Capacity(chunk.cap, NextLen + AuthBytes) ELSE chunk.cap

Complete == call.cidx + 1 = NextLen + AuthBytes

\* The HMAC under the IV and the counter: it matches for the chunk of that
\* number, whole and as the client sent it.
HashMatches ==
    LET n == chunk.counter + 1 IN
    /\ n \in DOMAIN sent.lens
    /\ n # sent.bad
    /\ NextLen = sent.lens[n]
    /\ \A p \in 0..NextLen + AuthBytes - 1 : Copied[p] = [chunk |-> n, pos |-> p]

\* not the last byte of a chunk
Copy ==
    /\ Looping
    /\ ~Complete
    /\ call' = [call EXCEPT !.i = @ + 1, !.k = @ + 1, !.cidx = @ + 1]
    /\ chunk' = [chunk EXCEPT !.array = Copied, !.len = NextLen, !.cap = NextCap]
    /\ UNCHANGED <<sent, taken, buf, released, pc>>

\* n bytes of an array, moved elsewhere
Slice(array, from, n, to) == [x \in to..to + n - 1 |-> array[from + x - to]]

\* What is left of the piece moves behind the chunk's data (memmove), and the
\* data to where the payload found so far ends (memcpy), in this order.
MovedLast(array, data, j, k, rest) ==   \* fault
    LET copied == Overwritten(array, Slice(data, 1, Len(data), j))
    IN  Overwritten(copied, Slice(copied, k, rest, j + Len(data)))
PlacedAtStart(array, data, j, k, rest) ==   \* fault
    LET moved == Overwritten(array, Slice(array, k, rest, j + Len(data)))
    IN  Overwritten(moved, Slice(data, 1, Len(data), 0))
Placed(array, data, j, k, rest) ==
    LET moved == Overwritten(array, Slice(array, k, rest, j + Len(data)))
    IN  Overwritten(moved, Slice(data, 1, Len(data), j))

\* chunk->buf begins anew
IdxKept(idx) == idx   \* fault
IdxReset(idx) == 0

\* a whole chunk whose hash matches
Release ==
    LET data == [p \in 1..NextLen |-> Copied[AuthBytes + p - 1]] IN
    /\ Looping
    /\ Complete
    /\ HashMatches
    /\ buf' = [buf EXCEPT !.array =
           Placed(@, data, call.j, call.k + 1, call.blen - call.i - 1)]
    /\ call' = [call EXCEPT !.i = @ + 1, !.j = @ + NextLen, !.k = call.j + NextLen,
                            !.cidx = IdxReset(@ + 1)]
    /\ chunk' = [chunk EXCEPT !.array = Copied, !.len = NextLen, !.cap = NextCap, !.counter = @ + 1]
    /\ UNCHANGED <<sent, taken, released, pc>>

\* Its hash does not match: 0 is returned and the caller closes; neither
\* buf->len nor chunk->idx is set.
Mismatch ==
    /\ Looping
    /\ Complete
    /\ ~HashMatches
    /\ pc' = "failed"
    /\ UNCHANGED <<sent, taken, buf, chunk, call, released>>

\* buf->len = j: the payload found goes to the target
Return ==
    /\ pc = "loop"
    /\ call.i = call.blen
    /\ released' = released \o [x \in 1..call.j |-> buf.array[x - 1]]
    /\ chunk' = [chunk EXCEPT !.idx = call.cidx]
    /\ call' = NoCall
    /\ pc' = "wait"
    /\ UNCHANGED <<sent, taken, buf>>

Done ==
    /\ \/ pc = "failed"
       \/ pc = "wait" /\ taken = Len(Stream)
    /\ UNCHANGED vars

Next ==
    \/ \E n \in 1..BufSize : Recv(n)
    \/ Copy \/ Release \/ Mismatch \/ Return \/ Done

Spec == Init /\ [][Next]_vars

-----------------------------------------------------------------------------
(* Properties. *)

\* The place in chunk->buf is within the chunk that is being read; the length
\* of the one before counts no more once a new one has begun.
InChunk(idx, len) == idx < ClenBytes \/ (idx < len + AuthBytes)

TypeOK ==
    /\ taken \in Nat
    /\ buf.cap \in Nat /\ chunk.cap \in Nat
    /\ chunk.idx \in Nat /\ chunk.len \in Nat /\ chunk.counter \in Nat
    /\ call \in [i : Nat, j : Nat, k : Nat, blen : Nat, cidx : Nat]
    /\ call.i <= call.blen
    /\ pc = "wait" => InChunk(chunk.idx, chunk.len)
    /\ pc = "loop" => InChunk(call.cidx, chunk.len)
    /\ pc \in {"wait", "loop", "failed"}

\* What the loop writes next is inside both buffers, and so is what it has
\* still to read: a chunk that began in an earlier piece makes room for its
\* data in the buffer of the piece that ends it.
WithinCapacity ==
    pc = "loop" =>
        /\ call.i < call.blen => call.cidx < chunk.cap
        /\ call.k + (call.blen - call.i) <= buf.cap

\* The number of chunks that have come whole.
Whole == Cardinality({m \in DOMAIN sent.lens :
             taken >= Len(FlattenSeq([n \in 1..m |-> ChunkBytes(n, sent.lens[n])]))})

\* After each call the payload of every chunk that has come whole has been
\* handed on, once and in order, and nothing else, however the stream was cut;
\* no byte of a chunk that does not verify, or of a later one, ever is.
ReleasedExactly ==
    /\ pc = "wait" => released = Payload(Whole) /\ chunk.counter = Whole
    /\ sent.bad # 0 => \A x \in DOMAIN released : released[x].chunk < sent.bad

\* Only that chunk is refused: the caller blames and closes no client whose
\* chunks are sound, whatever pieces they come in.
RefusedForCause == pc = "failed" => chunk.counter + 1 = sent.bad
=============================================================================
