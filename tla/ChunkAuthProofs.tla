---------------------------- MODULE ChunkAuthProofs ----------------------------
(***************************************************************************)
(* Proofs about ChunkAuth for every buffer size, every sequence of chunk   *)
(* lengths and every way of cutting the stream: ss_check_hash stays inside *)
(* both of its buffers, hands on exactly the payload of the chunks that    *)
(* have come whole, and refuses a client only for the chunk it spoiled.    *)
(***************************************************************************)
EXTENDS ChunkAuth, FiniteSetTheorems, SequenceTheorems, WellFoundedInduction, TLAPS

Shape ==
    /\ sent.lens \in Seq(Nat)
    /\ DOMAIN buf = {"array", "cap"}
    /\ DOMAIN chunk = {"array", "cap", "idx", "len", "counter"}

\* chunk->buf holds the largest piece, and the chunk once its length is known
ChunkFits(idx) ==
    /\ BufSize <= chunk.cap
    /\ idx >= ClenBytes => chunk.len + AuthBytes <= chunk.cap

\* What has been found, what is left of the piece, and the data of the
\* current chunk, which may have begun in an earlier piece, fit together.
Room ==
    /\ call.k + (call.blen - call.i) <= buf.cap
    /\ call.j + (call.blen - call.i) <= buf.cap
    /\ call.j + (call.cidx - AuthBytes) + (call.blen - call.i) <= buf.cap

Inv ==
    /\ TypeOK
    /\ Shape
    /\ pc = "wait" /\ chunk.idx >= ClenBytes => chunk.len + AuthBytes <= chunk.cap
    /\ pc = "loop" => ChunkFits(call.cidx) /\ Room

LEMMA CapacityBounds ==
    ASSUME NEW cap \in Nat, NEW len \in Nat
    PROVE  /\ Capacity(cap, len) \in Nat
           /\ cap <= Capacity(cap, len)
           /\ len <= Capacity(cap, len)
           /\ BufSize <= Capacity(cap, len)
BY ChunkAssumption DEF Capacity, Larger

\* What the length field is read as is a length.
LEMMA NextLenNat ==
    ASSUME sent.lens \in Seq(Nat), chunk.len \in Nat
    PROVE  NextLen \in Nat
<1>1. Claimed(Copied) \in Nat
    BY DEF Claimed
<1> QED
    BY <1>1 DEF NextLen

LEMMA InitInv == Init => Inv
<1> SUFFICES ASSUME Init PROVE Inv
    OBVIOUS
<1>1. \E lens \in Plans : sent.lens = lens
    BY DEF Init
<1>2. sent.lens \in Seq(Nat)
    BY <1>1, ChunkAssumption
<1>3. Shape
    BY <1>2 DEF Init, Shape
<1>4. TypeOK
    BY ChunkAssumption DEF Init, TypeOK, NoCall, InChunk
<1> QED
    BY <1>3, <1>4, ChunkAssumption DEF Init, Inv

-----------------------------------------------------------------------------
(* One lemma per action. *)

LEMMA RecvStep ==
    ASSUME Inv, NEW n \in 1..BufSize, Recv(n)
    PROVE  Inv'
<1> USE ChunkAssumption
<1>1. /\ n \in Nat /\ n >= 1
      /\ pc = "wait" /\ pc' = "loop"
      /\ taken \in Nat /\ taken' = taken + n
      /\ chunk.len \in Nat /\ chunk.cap \in Nat /\ buf.cap \in Nat
      /\ chunk.idx \in Nat /\ chunk.counter \in Nat
      /\ InChunk(chunk.idx, chunk.len)
    BY DEF Inv, TypeOK, Recv
<1>2. /\ chunk'.cap = Capacity(chunk.cap, chunk.len + n)
      /\ chunk'.idx = chunk.idx /\ chunk'.len = chunk.len
      /\ chunk'.counter = chunk.counter
      /\ DOMAIN chunk' = DOMAIN chunk
    BY DEF Inv, Shape, Recv
<1>3. buf'.cap = Capacity(buf.cap, chunk.len + n) /\ DOMAIN buf' = {"array", "cap"}
    BY DEF Recv, Grown
<1>4. call' = [i |-> 0, j |-> 0, k |-> 0, blen |-> n, cidx |-> chunk.idx]
    BY DEF Recv, NoCall
<1>5. chunk.len + n \in Nat
    BY <1>1
<1>6. /\ chunk'.cap \in Nat /\ BufSize <= chunk'.cap
      /\ chunk.cap <= chunk'.cap
    <2>1. /\ Capacity(chunk.cap, chunk.len + n) \in Nat
          /\ BufSize <= Capacity(chunk.cap, chunk.len + n)
          /\ chunk.cap <= Capacity(chunk.cap, chunk.len + n)
        BY <1>1, <1>5, CapacityBounds
    <2> QED
        BY <1>2, <2>1
<1>7. buf'.cap \in Nat /\ chunk.len + n <= buf'.cap
    BY <1>1, <1>3, <1>5, CapacityBounds
<1>8. Shape'
    BY <1>2, <1>3 DEF Inv, Shape, Recv
<1>9. TypeOK'
    BY <1>1, <1>2, <1>4, <1>6, <1>7 DEF TypeOK, InChunk
<1>10. ChunkFits(call.cidx)'
    BY <1>1, <1>2, <1>4, <1>6 DEF Inv, ChunkFits
<1>11. Room'
    BY <1>1, <1>4, <1>7 DEF Room, InChunk
<1> QED
    BY <1>1, <1>8, <1>9, <1>10, <1>11 DEF Inv

\* The arithmetic of Room.
LEMMA RoomAfterByte ==
    ASSUME NEW i \in Nat, NEW j \in Nat, NEW k \in Nat, NEW b \in Nat,
           NEW c \in Nat, NEW cap \in Nat,
           k + (b - i) <= cap, j + (b - i) <= cap,
           j + (c - AuthBytes) + (b - i) <= cap
    PROVE  /\ (k + 1) + (b - (i + 1)) <= cap
           /\ j + (b - (i + 1)) <= cap
           /\ j + ((c + 1) - AuthBytes) + (b - (i + 1)) <= cap
BY ChunkAssumption

LEMMA RoomAfterChunk ==
    ASSUME NEW i \in Nat, NEW j \in Nat, NEW b \in Nat,
           NEW c \in Nat, NEW len \in Nat, NEW cap \in Nat,
           c + 1 = len + AuthBytes,
           j + (c - AuthBytes) + (b - i) <= cap
    PROVE  /\ (j + len) + (b - (i + 1)) <= cap
           /\ (j + len) + (0 - AuthBytes) + (b - (i + 1)) <= cap
BY ChunkAssumption

LEMMA CallUpdate ==
    ASSUME call \in [i : Nat, j : Nat, k : Nat, blen : Nat, cidx : Nat],
           NEW i \in Nat, NEW j \in Nat, NEW k \in Nat, NEW cidx \in Nat,
           call' = [call EXCEPT !.i = i, !.j = j, !.k = k, !.cidx = cidx]
    PROVE  /\ call'.i = i /\ call'.j = j /\ call'.k = k
           /\ call'.blen = call.blen /\ call'.cidx = cidx
           /\ call' \in [i : Nat, j : Nat, k : Nat, blen : Nat, cidx : Nat]
OBVIOUS

\* What an iteration does to the chunk, whether it completes it or not.
LEMMA CopiedStep ==
    ASSUME Inv, Looping
    PROVE  /\ NextLen \in Nat /\ NextCap \in Nat
           /\ BufSize <= NextCap
           /\ call.cidx + 1 >= ClenBytes => NextLen + AuthBytes <= NextCap
           /\ call.cidx + 1 > ClenBytes => NextLen = chunk.len
           /\ call.cidx + 1 < ClenBytes => NextLen = chunk.len
           /\ call.i \in Nat /\ call.j \in Nat /\ call.k \in Nat
           /\ call.blen \in Nat /\ call.cidx \in Nat /\ call.i < call.blen
           /\ InChunk(call.cidx, chunk.len)
<1> USE ChunkAssumption
<1>1. /\ chunk.len \in Nat /\ chunk.cap \in Nat /\ sent.lens \in Seq(Nat)
      /\ call.i \in Nat /\ call.j \in Nat /\ call.k \in Nat
      /\ call.blen \in Nat /\ call.cidx \in Nat /\ call.i < call.blen
      /\ InChunk(call.cidx, chunk.len)
      /\ ChunkFits(call.cidx)
    BY DEF Inv, TypeOK, Shape, Looping
<1>2. NextLen \in Nat
    BY <1>1, NextLenNat
<1>3. CASE call.cidx + 1 = ClenBytes
    <2>1. NextCap = Capacity(chunk.cap, NextLen + AuthBytes)
        BY <1>3 DEF NextCap
    <2>2. NextLen + AuthBytes \in Nat
        BY <1>2
    <2>3. /\ NextCap \in Nat /\ BufSize <= NextCap
          /\ NextLen + AuthBytes <= NextCap
        BY <1>1, <2>1, <2>2, CapacityBounds
    <2> QED
        BY <1>1, <1>2, <1>3, <2>3
<1>4. CASE call.cidx + 1 # ClenBytes
    <2>1. NextLen = chunk.len /\ NextCap = chunk.cap
        BY <1>4 DEF NextLen, NextCap
    <2> QED
        BY <1>1, <1>2, <1>4, <2>1 DEF ChunkFits
<1> QED
    BY <1>3, <1>4

LEMMA CopyStep ==
    ASSUME Inv, Copy
    PROVE  Inv'
<1> USE ChunkAssumption
<1>1. /\ Looping /\ pc = "loop" /\ pc' = "loop"
      /\ call.cidx + 1 # NextLen + AuthBytes
      /\ taken' = taken /\ buf' = buf /\ sent' = sent
    BY DEF Copy, Looping, Complete
<1>2. call' = [call EXCEPT !.i = call.i + 1, !.k = call.k + 1, !.cidx = call.cidx + 1]
    BY DEF Copy
<1>3. /\ chunk'.len = NextLen /\ chunk'.cap = NextCap
      /\ chunk'.idx = chunk.idx /\ chunk'.counter = chunk.counter
      /\ DOMAIN chunk' = DOMAIN chunk
    BY DEF Copy, Inv, Shape
<1>4. call \in [i : Nat, j : Nat, k : Nat, blen : Nat, cidx : Nat]
    BY DEF Inv, TypeOK
<1>5. /\ call'.i = call.i + 1 /\ call'.j = call.j /\ call'.k = call.k + 1
      /\ call'.blen = call.blen /\ call'.cidx = call.cidx + 1
      /\ call' \in [i : Nat, j : Nat, k : Nat, blen : Nat, cidx : Nat]
    <2>1. call.i + 1 \in Nat /\ call.k + 1 \in Nat /\ call.cidx + 1 \in Nat /\ call.j \in Nat
        BY <1>4
    <2>2. call' = [call EXCEPT !.i = call.i + 1, !.j = call.j, !.k = call.k + 1,
                               !.cidx = call.cidx + 1]
        BY <1>2, <1>4
    <2> QED
        BY <1>4, <2>1, <2>2, CallUpdate
<1>6. /\ NextLen \in Nat /\ NextCap \in Nat
      /\ BufSize <= NextCap
      /\ call.cidx + 1 >= ClenBytes => NextLen + AuthBytes <= NextCap
      /\ call.cidx + 1 > ClenBytes => NextLen = chunk.len
      /\ call.i < call.blen
      /\ InChunk(call.cidx, chunk.len)
    BY <1>1, CopiedStep
<1>7. InChunk(call.cidx, chunk.len)'
    <2>1. /\ call.cidx \in Nat /\ chunk.len \in Nat
        BY <1>4 DEF Inv, TypeOK
    <2>2. CASE call.cidx + 1 < ClenBytes
        BY <2>2, <1>5 DEF InChunk
    <2>3. CASE call.cidx + 1 >= ClenBytes
        <3>1. call.cidx + 1 < NextLen + AuthBytes
            BY <1>1, <1>6, <2>1, <2>3 DEF InChunk
        <3> QED
            BY <1>3, <1>5, <3>1 DEF InChunk
    <2> QED
        BY <2>1, <2>2, <2>3
<1>8. TypeOK'
    BY <1>1, <1>3, <1>4, <1>5, <1>6, <1>7 DEF Inv, TypeOK
<1>9. Shape'
    BY <1>1, <1>3 DEF Inv, Shape
<1>10. ChunkFits(call.cidx)'
    BY <1>3, <1>4, <1>5, <1>6 DEF ChunkFits
<1>11. buf.cap \in Nat /\ Room
    BY <1>1 DEF Inv, TypeOK
<1>12. Room'
    <2>1. /\ call.i \in Nat /\ call.j \in Nat /\ call.k \in Nat
          /\ call.blen \in Nat /\ call.cidx \in Nat
        BY <1>4
    <2>2. /\ (call.k + 1) + (call.blen - (call.i + 1)) <= buf.cap
          /\ call.j + (call.blen - (call.i + 1)) <= buf.cap
          /\ call.j + ((call.cidx + 1) - AuthBytes) + (call.blen - (call.i + 1)) <= buf.cap
        BY <1>11, <2>1, RoomAfterByte DEF Room
    <2> QED
        BY <1>1, <1>5, <2>2 DEF Room
<1> QED
    BY <1>1, <1>8, <1>9, <1>10, <1>12 DEF Inv

LEMMA ReleaseStep ==
    ASSUME Inv, Release
    PROVE  Inv'
<1> USE ChunkAssumption
<1>1. /\ Looping /\ pc = "loop" /\ pc' = "loop"
      /\ call.cidx + 1 = NextLen + AuthBytes
      /\ taken' = taken /\ sent' = sent
    BY DEF Release, Looping, Complete
<1>2. call' = [call EXCEPT !.i = call.i + 1, !.j = call.j + NextLen,
                           !.k = call.j + NextLen, !.cidx = 0]
    BY DEF Release, IdxReset
<1>3. /\ chunk'.len = NextLen /\ chunk'.cap = NextCap
      /\ chunk'.idx = chunk.idx /\ chunk'.counter = chunk.counter + 1
      /\ DOMAIN chunk' = DOMAIN chunk
    BY DEF Release, Inv, Shape
<1>4. buf'.cap = buf.cap /\ DOMAIN buf' = DOMAIN buf
    BY DEF Release, Inv, Shape
<1>5. call \in [i : Nat, j : Nat, k : Nat, blen : Nat, cidx : Nat]
    BY DEF Inv, TypeOK
<1>6. /\ NextLen \in Nat /\ NextCap \in Nat
      /\ BufSize <= NextCap
      /\ call.i < call.blen
    BY <1>1, CopiedStep
<1>7. /\ call'.i = call.i + 1 /\ call'.j = call.j + NextLen
      /\ call'.k = call.j + NextLen
      /\ call'.blen = call.blen /\ call'.cidx = 0
      /\ call' \in [i : Nat, j : Nat, k : Nat, blen : Nat, cidx : Nat]
    <2>1. call.i + 1 \in Nat /\ call.j + NextLen \in Nat
        BY <1>5, <1>6
    <2> QED
        BY <1>2, <1>5, <2>1, CallUpdate
<1>8. TypeOK'
    <2>1. /\ call'.i <= call'.blen
          /\ InChunk(call.cidx, chunk.len)'
        BY <1>5, <1>6, <1>7 DEF InChunk
    <2>2. /\ taken' \in Nat /\ buf'.cap \in Nat /\ chunk'.cap \in Nat
          /\ chunk'.idx \in Nat /\ chunk'.len \in Nat /\ chunk'.counter \in Nat
        <3>1. /\ taken \in Nat /\ buf.cap \in Nat
              /\ chunk.idx \in Nat /\ chunk.counter \in Nat
            BY DEF Inv, TypeOK
        <3> QED
            BY <1>1, <1>3, <1>4, <1>6, <3>1
    <2> QED
        BY <1>1, <1>7, <2>1, <2>2 DEF TypeOK
<1>9. Shape'
    BY <1>1, <1>3, <1>4 DEF Inv, Shape
<1>10. ChunkFits(call.cidx)'
    BY <1>3, <1>6, <1>7 DEF ChunkFits
<1>11. buf.cap \in Nat /\ Room
    BY <1>1 DEF Inv, TypeOK
<1>12. Room'
    <2>1. /\ call.i \in Nat /\ call.j \in Nat
          /\ call.blen \in Nat /\ call.cidx \in Nat
        BY <1>5
    <2>2. /\ (call.j + NextLen) + (call.blen - (call.i + 1)) <= buf.cap
          /\ (call.j + NextLen) + (0 - AuthBytes) + (call.blen - (call.i + 1)) <= buf.cap
        BY <1>1, <1>6, <1>11, <2>1, RoomAfterChunk DEF Room
    <2> QED
        BY <1>4, <1>7, <2>2 DEF Room
<1> QED
    BY <1>1, <1>8, <1>9, <1>10, <1>12 DEF Inv

LEMMA ReturnStep ==
    ASSUME Inv, Return
    PROVE  Inv'
<1> USE ChunkAssumption
<1>1. /\ pc = "loop" /\ pc' = "wait" /\ call' = NoCall
      /\ taken' = taken /\ buf' = buf /\ sent' = sent
    BY DEF Return
<1>2. /\ chunk'.idx = call.cidx /\ chunk'.len = chunk.len
      /\ chunk'.cap = chunk.cap /\ chunk'.counter = chunk.counter
      /\ DOMAIN chunk' = DOMAIN chunk
    BY DEF Return, Inv, Shape
<1>3. call.cidx \in Nat /\ InChunk(call.cidx, chunk.len) /\ ChunkFits(call.cidx)
    BY <1>1 DEF Inv, TypeOK
<1>4. TypeOK'
    BY <1>1, <1>2, <1>3 DEF Inv, TypeOK, NoCall
<1>5. Shape'
    BY <1>1, <1>2 DEF Inv, Shape
<1>6. (chunk.idx >= ClenBytes => chunk.len + AuthBytes <= chunk.cap)'
    BY <1>2, <1>3 DEF ChunkFits
<1> QED
    BY <1>1, <1>4, <1>5, <1>6 DEF Inv

LEMMA NextInv == Inv /\ [Next]_vars => Inv'
<1> SUFFICES ASSUME Inv, [Next]_vars PROVE Inv'
    OBVIOUS
<1>1. CASE \E n \in 1..BufSize : Recv(n)
    BY <1>1, RecvStep
<1>2. CASE Copy
    BY <1>2, CopyStep
<1>3. CASE Release
    BY <1>3, ReleaseStep
<1>4. CASE Mismatch
    BY <1>4 DEF Mismatch, Inv, TypeOK, Shape
<1>5. CASE Return
    BY <1>5, ReturnStep
<1>6. CASE Done \/ UNCHANGED vars
    BY <1>6 DEF Done, vars, Inv, TypeOK, Shape, ChunkFits, Room
<1> QED
    BY <1>1, <1>2, <1>3, <1>4, <1>5, <1>6 DEF Next

LEMMA InvHolds == Spec => []Inv
BY InitInv, NextInv, PTL DEF Spec

-----------------------------------------------------------------------------
\* The locals and the chunk_t are what ss_check_hash takes them to be: the
\* place in the chunk never passes its end, so every chunk is compared.
THEOREM TypesHold == Spec => []TypeOK
<1>1. Inv => TypeOK
    BY DEF Inv
<1> QED
    BY <1>1, InvHolds, PTL

\* Neither buffer is ever read or written past its capacity, for every size
\* of the pieces and of the chunks (the two brealloc calls of ss_check_hash).
THEOREM StaysInside == Spec => []WithinCapacity
<1>1. ASSUME Inv, pc = "loop"
      PROVE  /\ call.i < call.blen => call.cidx < chunk.cap
             /\ call.k + (call.blen - call.i) <= buf.cap
    <2>1. /\ ChunkFits(call.cidx) /\ Room
          /\ InChunk(call.cidx, chunk.len)
          /\ call.cidx \in Nat /\ chunk.cap \in Nat /\ chunk.len \in Nat
        BY <1>1 DEF Inv, TypeOK
    <2>2. call.cidx < chunk.cap
        BY <2>1, ChunkAssumption DEF ChunkFits, InChunk
    <2> QED
        BY <2>1, <2>2 DEF Room
<1>2. Inv => WithinCapacity
    BY <1>1 DEF WithinCapacity
<1> QED
    BY <1>2, InvHolds, PTL

-----------------------------------------------------------------------------
(* Flattened sequences.  The client's stream and its payload are chunks    *)
(* laid end to end, and what FlattenSeq makes of them is defined by        *)
(* recursion: its unfolding is proved here, by induction on the number of  *)
(* chunks.                                                                 *)

\* The natural numbers are well founded: a set of them has a least one.
LEMMA Least ==
    ASSUME NEW T \in SUBSET Nat, T # {}
    PROVE  \E m \in T : \A k \in T : m <= k
<1> DEFINE R == OpToRel(<, Nat)
<1>1. IsWellFoundedOn(R, Nat)
    BY NatLessThanWellFounded
<1>2. R = {p \in Nat \X Nat : p[1] < p[2]}
    BY DEF OpToRel
<1> HIDE DEF R
<1>3. PICK m \in T : \A k \in T : <<k, m>> \notin R
    BY <1>1, WFMin
<1>4. ASSUME NEW k \in T PROVE m <= k
    <2>1. k \in Nat /\ m \in Nat
        OBVIOUS
    <2>2. <<k, m>> \notin R
        BY <1>3
    <2>3. ~(k < m)
        BY <2>1, <2>2, <1>2
    <2> QED
        BY <2>1, <2>3
<1> QED
    BY <1>4

\* Induction, for the set of the numbers with a property.
LEMMA Induct ==
    ASSUME NEW T \in SUBSET Nat, 0 \in T, \A n \in T : n + 1 \in T
    PROVE  T = Nat
<1> SUFFICES ASSUME Nat \ T # {} PROVE FALSE
    OBVIOUS
<1>1. PICK m \in Nat \ T : \A k \in Nat \ T : m <= k
    BY Least
<1>2. m # 0 /\ m - 1 \in Nat
    BY <1>1
<1>3. m - 1 \in T
    BY <1>1, <1>2
<1> QED
    BY <1>1, <1>2, <1>3

\* the recursive function that FlattenSeq is defined by, for n sequences
IsFlat(f, n, g) ==
    f = [i \in 1..n |-> IF i = 1 THEN g[i] ELSE f[i-1] \o g[i]]

LEMMA FlatExists == \A g : \A n \in Nat : \E f : IsFlat(f, n, g)
<1> TAKE g
<1> DEFINE T == {n \in Nat : \E f : IsFlat(f, n, g)}
<1>1. 0 \in T
    <2>1. IsFlat(<<>>, 0, g)
        BY DEF IsFlat
    <2> QED
        BY <2>1
<1>2. ASSUME NEW n \in T PROVE n + 1 \in T
    <2>1. PICK f : IsFlat(f, n, g)
        BY <1>2
    <2>2. n \in Nat /\ f = [i \in 1..n |-> IF i = 1 THEN g[i] ELSE f[i-1] \o g[i]]
        BY <1>2, <2>1 DEF IsFlat
    <2> DEFINE h == [i \in 1..n + 1 |->
                        IF i <= n THEN f[i] ELSE IF i = 1 THEN g[i] ELSE f[i-1] \o g[i]]
    <2>3. ASSUME NEW i \in 1..n + 1
          PROVE  h[i] = IF i = 1 THEN g[i] ELSE h[i-1] \o g[i]
        <3>1. i = 1 => h[i] = g[i]
            BY <2>2
        <3>2. i # 1 => h[i] = f[i-1] \o g[i] /\ h[i-1] = f[i-1]
            <4>1. ASSUME i # 1 PROVE h[i-1] = f[i-1]
                BY <2>2, <4>1
            <4>2. CASE i <= n
                <5>1. i \in 1..n /\ h[i] = f[i]
                    BY <2>2, <4>2
                <5> QED
                    BY <2>2, <4>1, <5>1
            <4>3. CASE i = n + 1
                <5>1. h[i] = IF i = 1 THEN g[i] ELSE f[i-1] \o g[i]
                    BY <2>2, <4>3
                <5> QED
                    BY <4>1, <5>1
            <4>4. i <= n \/ i = n + 1
                BY <2>2
            <4> QED
                BY <4>2, <4>3, <4>4
        <3> QED
            BY <3>1, <3>2
    <2>4. IsFlat(h, n + 1, g)
        BY <2>3 DEF IsFlat
    <2> QED
        BY <2>2, <2>4
<1> HIDE DEF T
<1>3. T = Nat
    BY <1>1, <1>2, Induct DEF T
<1> QED
    BY <1>3 DEF T

LEMMA FlatAgrees ==
    ASSUME NEW f, NEW n \in Nat, NEW g, IsFlat(f, n, g),
           NEW h, NEW m \in Nat, NEW e, IsFlat(h, m, e),
           n <= m, \A i \in 1..n : g[i] = e[i]
    PROVE  \A i \in 1..n : f[i] = h[i]
<1> SUFFICES ASSUME {i \in 1..n : f[i] # h[i]} # {} PROVE FALSE
    OBVIOUS
<1> DEFINE T == {i \in 1..n : f[i] # h[i]}
<1>1. T \in SUBSET Nat /\ T # {}
    OBVIOUS
<1> HIDE DEF T
<1>2. PICK i \in T : \A k \in T : i <= k
    BY <1>1, Least
<1>3. i \in 1..n /\ f[i] # h[i]
    BY <1>2 DEF T
<1>4. f[i] = IF i = 1 THEN g[i] ELSE f[i-1] \o g[i]
    BY <1>3 DEF IsFlat
<1>5. h[i] = IF i = 1 THEN e[i] ELSE h[i-1] \o e[i]
    <2>1. i \in 1..m
        BY <1>3
    <2> QED
        BY <2>1 DEF IsFlat
<1>6. i # 1 => i - 1 \in 1..n /\ i - 1 \notin T
    BY <1>2, <1>3
<1> QED
    BY <1>3, <1>4, <1>5, <1>6 DEF T

\* FlattenSeq is what its recursive function says.
LEMMA FlattenIsFlat ==
    ASSUME NEW S, NEW s \in Seq(S), Len(s) # 0
    PROVE  \E f : IsFlat(f, Len(s), s) /\ FlattenSeq(s) = f[Len(s)]
<1> DEFINE f == CHOOSE flatten : flatten = [i \in 1..Len(s) |->
                    IF i = 1 THEN s[i] ELSE flatten[i-1] \o s[i]]
<1>1. \E h : h = [i \in 1..Len(s) |-> IF i = 1 THEN s[i] ELSE h[i-1] \o s[i]]
    <2>1. Len(s) \in Nat
        OBVIOUS
    <2>2. PICK h : IsFlat(h, Len(s), s)
        BY <2>1, FlatExists
    <2> QED
        BY <2>2 DEF IsFlat
<1>2. f = [i \in 1..Len(s) |-> IF i = 1 THEN s[i] ELSE f[i-1] \o s[i]]
    BY <1>1
<1>3. FlattenSeq(s) = f[Len(s)]
    BY DEF FlattenSeq
<1> QED
    BY <1>2, <1>3 DEF IsFlat

\* A sequence of sequences, flattened up to one more of them.
LEMMA FlattenMore ==
    ASSUME NEW S, NEW s \in Seq(Seq(S)), NEW n \in 0..Len(s) - 1
    PROVE  /\ FlattenSeq([i \in 1..0 |-> s[i]]) = <<>>
           /\ FlattenSeq([i \in 1..n + 1 |-> s[i]])
                 = FlattenSeq([i \in 1..n |-> s[i]]) \o s[n + 1]
<1> DEFINE p(m) == [i \in 1..m |-> s[i]]
<1>1. ASSUME NEW m \in 0..Len(s)
      PROVE  p(m) \in Seq(Seq(S)) /\ Len(p(m)) = m /\ \A i \in 1..m : p(m)[i] = s[i]
    <2>1. m \in Nat /\ \A i \in 1..m : s[i] \in Seq(S)
        BY LenProperties, ElementOfSeq
    <2> QED
        BY <2>1
<1>2. p(0) = <<>>
    BY <1>1, EmptySeq
<1>3. FlattenSeq(p(0)) = <<>>
    BY <1>1, <1>2 DEF FlattenSeq
<1>4. n \in Nat /\ n \in 0..Len(s) /\ n + 1 \in 0..Len(s)
    BY LenProperties
<1>5. PICK f : IsFlat(f, n + 1, p(n + 1)) /\ FlattenSeq(p(n + 1)) = f[n + 1]
    <2>1. p(n + 1) \in Seq(Seq(S)) /\ Len(p(n + 1)) = n + 1
        BY <1>1, <1>4
    <2>2. n + 1 # 0
        BY <1>4
    <2> HIDE DEF p
    <2> QED
        BY <2>1, <2>2, FlattenIsFlat
<1>6. CASE n = 0
    <2>1. FlattenSeq(p(1)) = f[1] /\ f[1] = p(1)[1]
        BY <1>5, <1>6 DEF IsFlat
    <2>2. p(1)[1] = s[1] /\ s[1] \in Seq(S)
        BY <1>1, <1>4, <1>6, ElementOfSeq
    <2>3. <<>> \o s[1] = s[1]
        BY <2>2, ConcatEmptySeq
    <2> HIDE DEF p
    <2>4. FlattenSeq(p(n + 1)) = FlattenSeq(p(n)) \o s[n + 1]
        BY <1>3, <1>6, <2>1, <2>2, <2>3
    <2> QED
        BY <1>3, <2>4 DEF p
<1>7. CASE n # 0
    <2>1. PICK h : IsFlat(h, n, p(n)) /\ FlattenSeq(p(n)) = h[n]
        <3>1. p(n) \in Seq(Seq(S)) /\ Len(p(n)) = n
            BY <1>1, <1>4
        <3> HIDE DEF p
        <3> QED
            BY <1>7, <3>1, FlattenIsFlat
    <2>2. \A i \in 1..n : p(n)[i] = p(n + 1)[i]
        BY <1>4
    <2>3. p(n + 1)[n + 1] = s[n + 1]
        BY <1>4
    <2> HIDE DEF p
    <2>4. n <= n + 1 /\ n + 1 \in Nat /\ n \in 1..n /\ n + 1 \in 1..n + 1 /\ n + 1 # 1 /\ (n + 1) - 1 = n
        BY <1>4, <1>7
    <2>5. h[n] = f[n]
        <3>1. \A i \in 1..n : h[i] = f[i]
            BY <1>4, <1>5, <2>1, <2>2, <2>4, FlatAgrees
        <3> QED
            BY <2>4, <3>1
    <2>6. f[n + 1] = f[n] \o p(n + 1)[n + 1]
        BY <1>5, <2>4 DEF IsFlat
    <2>7. FlattenSeq(p(n + 1)) = FlattenSeq(p(n)) \o s[n + 1]
        BY <1>5, <2>1, <2>3, <2>5, <2>6
    <2> QED
        BY <1>3, <2>7 DEF p
<1> QED
    BY <1>6, <1>7

FlatTo(s, n) == FlattenSeq([i \in 1..n |-> s[i]])

\* The first n sequences flatten to a sequence, and those of fewer to a
\* beginning of it.
LEMMA FlatToIsSeq ==
    ASSUME NEW S, NEW s \in Seq(Seq(S))
    PROVE  \A n \in 0..Len(s) : FlatTo(s, n) \in Seq(S)
<1> DEFINE T == {n \in Nat : n <= Len(s) => FlatTo(s, n) \in Seq(S)}
<1>1. Len(s) \in Nat
    OBVIOUS
<1>2. ASSUME NEW n \in Nat, n < Len(s)
      PROVE  FlatTo(s, 0) = <<>> /\ FlatTo(s, n + 1) = FlatTo(s, n) \o s[n + 1]
    <2>1. n \in 0..Len(s) - 1
        BY <1>1, <1>2
    <2> QED
        BY <2>1, FlattenMore DEF FlatTo
<1>3. 0 \in T
    <2>1. [i \in 1..0 |-> s[i]] = <<>>
        OBVIOUS
    <2>2. FlatTo(s, 0) = <<>>
        BY <2>1 DEF FlatTo, FlattenSeq
    <2> QED
        BY <2>2, EmptySeq
<1>4. ASSUME NEW n \in T PROVE n + 1 \in T
    <2>1. SUFFICES ASSUME n + 1 <= Len(s) PROVE FlatTo(s, n + 1) \in Seq(S)
        OBVIOUS
    <2>2. n \in Nat /\ n < Len(s) /\ n + 1 \in 1..Len(s)
        BY <1>1, <2>1
    <2>3. FlatTo(s, n) \in Seq(S) /\ s[n + 1] \in Seq(S)
        BY <2>2, ElementOfSeq
    <2> QED
        BY <1>2, <2>2, <2>3, ConcatProperties
<1> HIDE DEF T
<1>5. T = Nat
    BY <1>3, <1>4, Induct DEF T
<1> QED
    BY <1>1, <1>5 DEF T

LEMMA FlatToGrows ==
    ASSUME NEW S, NEW s \in Seq(Seq(S)), NEW m \in 0..Len(s)
    PROVE  \A n \in m..Len(s) :
               /\ Len(FlatTo(s, m)) <= Len(FlatTo(s, n))
               /\ \A x \in 1..Len(FlatTo(s, m)) : FlatTo(s, n)[x] = FlatTo(s, m)[x]
<1> DEFINE Begins(n) ==
               /\ Len(FlatTo(s, m)) <= Len(FlatTo(s, n))
               /\ \A x \in 1..Len(FlatTo(s, m)) : FlatTo(s, n)[x] = FlatTo(s, m)[x]
           T == {d \in Nat : m + d <= Len(s) => Begins(m + d)}
<1>1. Len(s) \in Nat /\ m \in Nat
    OBVIOUS
<1>2. \A n \in 0..Len(s) : FlatTo(s, n) \in Seq(S)
    BY FlatToIsSeq
<1>3. 0 \in T
    <2>1. Len(FlatTo(s, m)) \in Nat /\ m + 0 = m
        BY <1>1, <1>2
    <2> QED
        BY <2>1
<1>4. ASSUME NEW d \in T PROVE d + 1 \in T
    <2>1. SUFFICES ASSUME m + (d + 1) <= Len(s) PROVE Begins(m + (d + 1))
        OBVIOUS
    <2> DEFINE n == m + d
    <2>2. n \in 0..Len(s) - 1 /\ n \in 0..Len(s) /\ n + 1 \in 1..Len(s) /\ n <= Len(s)
          /\ m + (d + 1) = n + 1 /\ d \in Nat
        BY <1>1, <2>1
    <2>3. Begins(n)
        BY <2>2
    <2> HIDE DEF n
    <2>4. FlatTo(s, n + 1) = FlatTo(s, n) \o s[n + 1]
        BY <2>2, FlattenMore DEF FlatTo
    <2>5. FlatTo(s, n) \in Seq(S) /\ s[n + 1] \in Seq(S) /\ FlatTo(s, m) \in Seq(S)
        BY <1>1, <1>2, <2>2, ElementOfSeq
    <2>6. /\ Len(FlatTo(s, n + 1)) = Len(FlatTo(s, n)) + Len(s[n + 1])
          /\ \A x \in 1..Len(FlatTo(s, n)) : FlatTo(s, n + 1)[x] = FlatTo(s, n)[x]
        BY <2>4, <2>5
    <2>7. /\ Len(FlatTo(s, n)) \in Nat /\ Len(FlatTo(s, m)) \in Nat /\ Len(s[n + 1]) \in Nat
        BY <2>5
    <2>8. Begins(n + 1)
        BY <2>3, <2>6, <2>7
    <2> QED
        BY <2>2, <2>8
<1> HIDE DEF T
<1>5. T = Nat
    BY <1>3, <1>4, Induct DEF T
<1>6. ASSUME NEW n \in m..Len(s) PROVE Begins(n)
    <2>1. n - m \in Nat /\ m + (n - m) = n /\ n <= Len(s)
        BY <1>1
    <2>2. n - m \in T
        BY <1>5, <2>1
    <2> HIDE DEF Begins
    <2> QED
        BY <2>1, <2>2 DEF T
<1> QED
    BY <1>6

-----------------------------------------------------------------------------
(* The client's chunks, laid end to end.                                   *)

Byte == [chunk : Nat, pos : Nat]

WireOf(lens, m) == FlattenSeq([n \in 1..m |-> ChunkBytes(n, lens[n])])
DataOf(lens, m) == FlattenSeq([n \in 1..m |-> ChunkData(n, lens[n])])

LEMMA ChunkBytesSeq ==
    ASSUME NEW n \in Nat, NEW len \in Nat
    PROVE  /\ ChunkBytes(n, len) \in Seq(Byte)
           /\ Len(ChunkBytes(n, len)) = AuthBytes + len
           /\ ChunkData(n, len) \in Seq(Byte)
           /\ Len(ChunkData(n, len)) = len
BY ChunkAssumption DEF ChunkBytes, ChunkData, Byte

LEMMA ConcatAt ==
    ASSUME NEW S, NEW a \in Seq(S), NEW b \in Seq(S), NEW l \in Nat, Len(a) = l
    PROVE  /\ a \o b \in Seq(S) /\ Len(a \o b) = l + Len(b)
           /\ \A i \in 1..l : (a \o b)[i] = a[i]
           /\ \A i \in 1..Len(b) : (a \o b)[l + i] = b[i]
OBVIOUS

\* Chunk m + 1 begins where the first m end, and the stream has its bytes
\* there, each at its place (ss_gen_hash).
LEMMA WireFacts ==
    ASSUME NEW lens \in Seq(Nat)
    PROVE  /\ WireOf(lens, 0) = <<>>
           /\ \A m \in 0..Len(lens) : WireOf(lens, m) \in Seq(Byte)
           /\ \A m \in 0..Len(lens) - 1 :
                  Len(WireOf(lens, m + 1)) = Len(WireOf(lens, m)) + AuthBytes + lens[m + 1]
           /\ \A m \in 0..Len(lens) : \A n \in m..Len(lens) :
                  Len(WireOf(lens, m)) <= Len(WireOf(lens, n))
           /\ \A m \in 0..Len(lens) - 1 : \A p \in 0..AuthBytes + lens[m + 1] - 1 :
                  WireOf(lens, Len(lens))[Len(WireOf(lens, m)) + p + 1]
                      = [chunk |-> m + 1, pos |-> p]
<1> DEFINE N == Len(lens)
           s == [n \in 1..N |-> ChunkBytes(n, lens[n])]
<1> USE ChunkAssumption
<1>1. N \in Nat /\ \A n \in 1..N : n \in Nat /\ lens[n] \in Nat
    BY ElementOfSeq
<1>2. /\ s \in Seq(Seq(Byte)) /\ Len(s) = N
      /\ \A n \in 1..N : s[n] = ChunkBytes(n, lens[n])
    <2>1. \A n \in 1..N : ChunkBytes(n, lens[n]) \in Seq(Byte)
        BY <1>1, ChunkBytesSeq
    <2> QED
        BY <1>1, <2>1, IsASeq
<1>3. ASSUME NEW m \in 0..N PROVE WireOf(lens, m) = FlatTo(s, m)
    <2>1. [n \in 1..m |-> ChunkBytes(n, lens[n])] = [n \in 1..m |-> s[n]]
        BY <1>1
    <2> QED
        BY <2>1 DEF WireOf, FlatTo
<1> HIDE DEF s, N
<1>4. /\ \A m \in 0..N : FlatTo(s, m) \in Seq(Byte)
      /\ \A m \in 0..N : \A n \in m..N :
             /\ Len(FlatTo(s, m)) <= Len(FlatTo(s, n))
             /\ \A x \in 1..Len(FlatTo(s, m)) : FlatTo(s, n)[x] = FlatTo(s, m)[x]
    BY <1>2, FlatToIsSeq, FlatToGrows
<1>5. ASSUME NEW m \in 0..N - 1
      PROVE  /\ m \in 0..N /\ m + 1 \in 0..N /\ m + 1 \in 1..N /\ m + 1 \in Nat /\ N \in m + 1..N
             /\ FlatTo(s, m + 1) = FlatTo(s, m) \o s[m + 1]
             /\ s[m + 1] = ChunkBytes(m + 1, lens[m + 1])
             /\ lens[m + 1] \in Nat
    <2>1. /\ m \in 0..N /\ m + 1 \in 0..N /\ m + 1 \in 1..N /\ m + 1 \in Nat /\ N \in m + 1..N
        BY <1>1
    <2>2. m \in 0..Len(s) - 1
        BY <1>2
    <2> QED
        BY <1>1, <1>2, <2>1, <2>2, FlattenMore DEF FlatTo
<1>6. WireOf(lens, 0) = <<>>
    <2>1. [n \in 1..0 |-> ChunkBytes(n, lens[n])] = <<>>
        OBVIOUS
    <2> QED
        BY <2>1 DEF WireOf, FlattenSeq
<1>7. ASSUME NEW m \in 0..N - 1
      PROVE  /\ Len(FlatTo(s, m + 1)) = Len(FlatTo(s, m)) + AuthBytes + lens[m + 1]
             /\ \A p \in 0..AuthBytes + lens[m + 1] - 1 :
                    FlatTo(s, N)[Len(FlatTo(s, m)) + p + 1] = [chunk |-> m + 1, pos |-> p]
    <2>1. PICK len \in Nat : lens[m + 1] = len
        BY <1>5
    <2> DEFINE c == ChunkBytes(m + 1, len)
    <2>2. /\ c \in Seq(Byte) /\ Len(c) = AuthBytes + len
          /\ FlatTo(s, m) \in Seq(Byte) /\ FlatTo(s, m + 1) \in Seq(Byte)
          /\ FlatTo(s, m + 1) = FlatTo(s, m) \o c
        BY <1>4, <1>5, <2>1, ChunkBytesSeq
    <2>3. \A p \in 0..AuthBytes + len - 1 : p + 1 \in 1..AuthBytes + len /\ (p + 1) - 1 = p
        OBVIOUS
    <2>4. \A p \in 0..AuthBytes + len - 1 : c[p + 1] = [chunk |-> m + 1, pos |-> p]
        BY <2>3 DEF ChunkBytes
    <2> HIDE DEF c
    <2>5. PICK l \in Nat : Len(FlatTo(s, m)) = l
        BY <2>2
    <2> DEFINE a == FlatTo(s, m)
    <2>6. a \in Seq(Byte) /\ Len(a) = l /\ c \in Seq(Byte)
        BY <2>2, <2>5
    <2> HIDE DEF a
    <2>7. Len(a \o c) = l + Len(c) /\ \A i \in 1..Len(c) : (a \o c)[l + i] = c[i]
        BY <2>6, ConcatAt
    <2>8. Len(FlatTo(s, m + 1)) = l + (AuthBytes + len)
        BY <2>2, <2>7 DEF a
    <2>9. ASSUME NEW p \in 0..AuthBytes + len - 1
          PROVE  FlatTo(s, N)[l + p + 1] = [chunk |-> m + 1, pos |-> p]
        <3>1. FlatTo(s, m + 1)[l + (p + 1)] = c[p + 1]
            BY <2>2, <2>3, <2>7 DEF a
        <3>2. l + p + 1 \in 1..(l + (AuthBytes + len)) /\ l + (p + 1) = l + p + 1
            BY <2>3
        <3>3. FlatTo(s, N)[l + p + 1] = FlatTo(s, m + 1)[l + p + 1]
            BY <1>4, <1>5, <2>8, <3>2
        <3> QED
            BY <2>4, <3>1, <3>2, <3>3
    <2>10. l + AuthBytes + len = l + (AuthBytes + len)
        OBVIOUS
    <2> QED
        BY <2>1, <2>5, <2>8, <2>9, <2>10
<1>8. N \in 0..N
    BY <1>1
<1>9. \A m \in 0..N : WireOf(lens, m) \in Seq(Byte)
    BY <1>3, <1>4
<1>10. \A m \in 0..N : \A n \in m..N : Len(WireOf(lens, m)) <= Len(WireOf(lens, n))
    <2>1. \A m \in 0..N : \A n \in m..N : n \in 0..N
        BY <1>1
    <2> QED
        BY <1>3, <1>4, <2>1
<1>11. ASSUME NEW m \in 0..N - 1
       PROVE  /\ Len(WireOf(lens, m + 1)) = Len(WireOf(lens, m)) + AuthBytes + lens[m + 1]
              /\ \A p \in 0..AuthBytes + lens[m + 1] - 1 :
                     WireOf(lens, N)[Len(WireOf(lens, m)) + p + 1] = [chunk |-> m + 1, pos |-> p]
    <2>1. /\ WireOf(lens, m) = FlatTo(s, m) /\ WireOf(lens, m + 1) = FlatTo(s, m + 1)
          /\ WireOf(lens, N) = FlatTo(s, N)
        BY <1>3, <1>5, <1>8
    <2> QED
        BY <1>7, <2>1
<1> QED
    BY <1>6, <1>9, <1>10, <1>11 DEF N

LEMMA DataFacts ==
    ASSUME NEW lens \in Seq(Nat)
    PROVE  /\ DataOf(lens, 0) = <<>>
           /\ \A m \in 0..Len(lens) : DataOf(lens, m) \in Seq(Byte)
           /\ \A m \in 0..Len(lens) - 1 :
                  DataOf(lens, m + 1) = DataOf(lens, m) \o ChunkData(m + 1, lens[m + 1])
<1> DEFINE N == Len(lens)
           s == [n \in 1..N |-> ChunkData(n, lens[n])]
<1>1. N \in Nat /\ \A n \in 1..N : n \in Nat /\ lens[n] \in Nat
    BY ElementOfSeq
<1>2. /\ s \in Seq(Seq(Byte)) /\ Len(s) = N
      /\ \A n \in 1..N : s[n] = ChunkData(n, lens[n])
    <2>1. \A n \in 1..N : ChunkData(n, lens[n]) \in Seq(Byte)
        BY <1>1, ChunkBytesSeq
    <2> QED
        BY <1>1, <2>1, IsASeq
<1>3. ASSUME NEW m \in 0..N PROVE DataOf(lens, m) = FlatTo(s, m)
    <2>1. [n \in 1..m |-> ChunkData(n, lens[n])] = [n \in 1..m |-> s[n]]
        BY <1>1
    <2> QED
        BY <2>1 DEF DataOf, FlatTo
<1> HIDE DEF s, N
<1>4. \A m \in 0..N : FlatTo(s, m) \in Seq(Byte)
    BY <1>2, FlatToIsSeq
<1>5. ASSUME NEW m \in 0..N - 1
      PROVE  /\ m \in 0..N /\ m + 1 \in 0..N
             /\ FlatTo(s, m + 1) = FlatTo(s, m) \o ChunkData(m + 1, lens[m + 1])
    <2>1. m \in 0..N /\ m + 1 \in 0..N /\ m + 1 \in 1..N
        BY <1>1
    <2>2. m \in 0..Len(s) - 1
        BY <1>2
    <2> QED
        BY <1>2, <2>1, <2>2, FlattenMore DEF FlatTo
<1>6. DataOf(lens, 0) = <<>>
    <2>1. [n \in 1..0 |-> ChunkData(n, lens[n])] = <<>>
        OBVIOUS
    <2> QED
        BY <2>1 DEF DataOf, FlattenSeq
<1> QED
    BY <1>3, <1>4, <1>5, <1>6 DEF N

-----------------------------------------------------------------------------
(* What ss_check_hash has done with the stream so far.                     *)

Chunks == Len(sent.lens)
Wire(m) == WireOf(sent.lens, m)

\* chunk->buf holds the beginning of the next chunk, up to idx
Known(idx) ==
    /\ \A p \in 0..idx - 1 :
           p \in DOMAIN chunk.array /\ chunk.array[p] = [chunk |-> chunk.counter + 1, pos |-> p]
    /\ idx >= ClenBytes =>
           chunk.counter < Chunks /\ chunk.len = sent.lens[chunk.counter + 1]

\* a byte of a chunk whose hash has matched
Vouched(b) == b \in Byte /\ b.chunk <= chunk.counter

\* the payload that buf begins with
Found == [x \in 1..call.j |-> buf.array[x - 1]]

Waiting ==
    /\ taken = Len(Wire(chunk.counter)) + chunk.idx
    /\ Known(chunk.idx)
    /\ released = DataOf(sent.lens, chunk.counter)

\* the bytes of the stream that the loop has read
Read == taken - call.blen + call.i

Looped ==
    /\ call.blen <= taken
    /\ Read = Len(Wire(chunk.counter)) + call.cidx
    /\ Known(call.cidx)
    /\ \A x \in 0..call.blen - call.i - 1 :
           buf.array[call.k + x] = Wire(Chunks)[Read + x + 1]
    /\ \A x \in 0..call.j - 1 : x \in DOMAIN buf.array /\ Vouched(buf.array[x])
    /\ released \o Found = DataOf(sent.lens, chunk.counter)

Track ==
    /\ chunk.counter \in 0..Chunks
    /\ taken <= Len(Wire(Chunks))
    /\ sent.bad \in 0..Chunks
    /\ sent.bad # 0 => chunk.counter < sent.bad
    /\ released \in Seq(Byte)
    /\ \A x \in DOMAIN released : Vouched(released[x])
    /\ pc = "wait" => Waiting
    /\ pc = "loop" => Looped
    /\ pc = "failed" => chunk.counter + 1 = sent.bad

\* The definitions of the specification in those terms.
LEMMA StreamIsWire ==
    ASSUME sent.lens \in Seq(Nat)
    PROVE  /\ Stream = Wire(Chunks)
           /\ \A m : Payload(m) = DataOf(sent.lens, m)
           /\ Chunks \in Nat
<1>1. DOMAIN sent.lens = 1..Chunks /\ Chunks \in Nat
    BY DEF Chunks
<1> QED
    BY <1>1 DEF Stream, Payload, Wire, WireOf, DataOf

LEMMA InitTrack == ASSUME Init PROVE Track
<1>1. sent.lens \in Seq(Nat) /\ sent.bad \in 0..Chunks
    <2>1. PICK lens \in Plans : \E bad \in 0..Len(lens) : sent = [lens |-> lens, bad |-> bad]
        BY DEF Init
    <2> QED
        BY <2>1, ChunkAssumption DEF Chunks
<1>2. /\ taken = 0 /\ released = <<>> /\ pc = "wait"
      /\ chunk.idx = 0 /\ chunk.counter = 0
    BY DEF Init
<1>3. Chunks \in Nat /\ Len(Wire(Chunks)) \in Nat /\ Len(Wire(0)) = 0
    <2>1. WireOf(sent.lens, 0) = <<>> /\ WireOf(sent.lens, Chunks) \in Seq(Byte)
        BY <1>1, WireFacts, StreamIsWire DEF Chunks
    <2> QED
        BY <1>1, <2>1, StreamIsWire DEF Wire
<1>4. DataOf(sent.lens, 0) = <<>>
    BY <1>1, DataFacts
<1>5. Known(0)
    BY ChunkAssumption DEF Known
<1> QED
    BY <1>1, <1>2, <1>3, <1>4, <1>5 DEF Track, Waiting, Vouched

\* The next byte of the piece is the next byte of the chunk.
LEMMA NextByte ==
    ASSUME Inv, Track, Looping
    PROVE  /\ chunk.counter \in Nat /\ chunk.counter < Chunks /\ Chunks \in Nat
           /\ chunk.counter + 1 \in DOMAIN sent.lens
           /\ sent.lens[chunk.counter + 1] \in Nat
           /\ call.cidx \in Nat
           /\ call.cidx < AuthBytes + sent.lens[chunk.counter + 1]
           /\ \A p \in 0..call.cidx :
                  /\ p \in DOMAIN Copied
                  /\ Copied[p] = [chunk |-> chunk.counter + 1, pos |-> p]
           /\ call.cidx + 1 >= ClenBytes => NextLen = sent.lens[chunk.counter + 1]
<1> USE ChunkAssumption
<1> DEFINE c == chunk.counter
           len == sent.lens[c + 1]
<1>1. /\ sent.lens \in Seq(Nat)
      /\ taken \in Nat /\ call.blen \in Nat /\ call.i \in Nat /\ call.cidx \in Nat
      /\ call.i < call.blen /\ call.blen <= taken
      /\ chunk.len \in Nat /\ InChunk(call.cidx, chunk.len)
    BY DEF Inv, TypeOK, Shape, Looping, Track, Looped
<1>2. /\ c \in 0..Chunks /\ Chunks \in Nat
      /\ taken <= Len(Wire(Chunks))
      /\ Looped
    BY <1>1, StreamIsWire DEF Track, Looping
<1>3. PICK w \in Nat : Len(Wire(c)) = w
    <2>1. Wire(c) \in Seq(Byte)
        BY <1>1, <1>2, WireFacts DEF Wire, Chunks
    <2> QED
        BY <2>1
<1>4. Read = w + call.cidx /\ Read = taken - call.blen + call.i
    BY <1>2, <1>3 DEF Looped, Read
<1>5. c # Chunks
    BY <1>1, <1>2, <1>3, <1>4
<1>6. c \in Nat /\ c < Chunks /\ c \in 0..Chunks - 1 /\ c + 1 \in 1..Chunks
    BY <1>2, <1>5
<1>7. c + 1 \in DOMAIN sent.lens /\ len \in Nat
    <2>1. c + 1 \in 1..Len(sent.lens)
        BY <1>6 DEF Chunks
    <2> QED
        BY <1>1, <2>1, ElementOfSeq, LenProperties
<1>8. call.cidx < AuthBytes + len
    <2>1. CASE call.cidx < ClenBytes
        BY <1>1, <1>7, <2>1
    <2>2. CASE call.cidx >= ClenBytes
        <3>1. chunk.len = len /\ call.cidx < chunk.len + AuthBytes
            BY <1>1, <1>2, <2>2 DEF Looped, Known, InChunk
        <3> QED
            BY <1>1, <1>7, <3>1
    <2> QED
        BY <1>1, <2>1, <2>2
<1>9. buf.array[call.k] = [chunk |-> c + 1, pos |-> call.cidx]
    <2>1. 0 \in 0..call.blen - call.i - 1
        BY <1>1
    <2>2. buf.array[call.k + 0] = Wire(Chunks)[Read + 0 + 1]
        BY <1>2, <2>1 DEF Looped
    <2>3. call.k + 0 = call.k /\ Read + 0 + 1 = w + call.cidx + 1
        BY <1>1, <1>3, <1>4 DEF Inv, TypeOK
    <2>4. call.cidx \in 0..AuthBytes + len - 1
        BY <1>1, <1>7, <1>8
    <2>5. Wire(Chunks)[Len(Wire(c)) + call.cidx + 1] = [chunk |-> c + 1, pos |-> call.cidx]
        BY <1>1, <1>6, <2>4, WireFacts DEF Wire, Chunks
    <2> QED
        BY <1>3, <2>2, <2>3, <2>5
<1>10. ASSUME NEW p \in 0..call.cidx
       PROVE  p \in DOMAIN Copied /\ Copied[p] = [chunk |-> c + 1, pos |-> p]
    <2>1. Copied = [q \in {call.cidx} \cup DOMAIN chunk.array |->
                       IF q = call.cidx THEN buf.array[call.k] ELSE chunk.array[q]]
        BY DEF Copied, Overwritten
    <2>2. CASE p = call.cidx
        BY <1>9, <2>1, <2>2
    <2>3. CASE p # call.cidx
        <3>1. p \in 0..call.cidx - 1
            BY <1>1, <2>3
        <3>2. p \in DOMAIN chunk.array /\ chunk.array[p] = [chunk |-> c + 1, pos |-> p]
            BY <1>2, <3>1 DEF Looped, Known
        <3> QED
            BY <2>1, <2>3, <3>2
    <2> QED
        BY <2>2, <2>3
<1>11. ASSUME call.cidx + 1 >= ClenBytes PROVE NextLen = len
    <2>1. CASE call.cidx + 1 = ClenBytes
        <3>1. \A p \in 0..ClenBytes - 1 : p \in 0..call.cidx
            BY <1>1, <2>1
        <3>2. 0 \in 0..ClenBytes - 1
            OBVIOUS
        <3>3. \A p \in 0..ClenBytes - 1 : Copied[p] = [chunk |-> c + 1, pos |-> p]
            BY <1>10, <3>1
        <3>4. Copied[0].chunk = c + 1
            <4>1. Copied[0] = [chunk |-> c + 1, pos |-> 0]
                BY <3>2, <3>3
            <4> QED
                BY <4>1
        <3>5. Claimed(Copied) = len
            BY <1>7, <3>3, <3>4 DEF Claimed
        <3> QED
            BY <2>1, <3>5 DEF NextLen
    <2>2. CASE call.cidx + 1 # ClenBytes
        <3>1. call.cidx >= ClenBytes
            BY <1>1, <1>11, <2>2
        <3>2. chunk.len = len
            BY <1>2, <3>1 DEF Looped, Known
        <3> QED
            BY <2>2, <3>2 DEF NextLen
    <2> QED
        BY <2>1, <2>2
<1> QED
    BY <1>1, <1>2, <1>6, <1>7, <1>8, <1>10, <1>11

LEMMA RecvTrack ==
    ASSUME Inv, Track, NEW n \in 1..BufSize, Recv(n)
    PROVE  Track'
<1> USE ChunkAssumption
<1>1. /\ pc = "wait" /\ pc' = "loop" /\ sent' = sent /\ released' = released
      /\ taken \in Nat /\ taken' = taken + n
      /\ n \in Nat /\ chunk.idx \in Nat
      /\ sent.lens \in Seq(Nat)
    BY DEF Inv, TypeOK, Shape, Recv
<1>2. call' = [i |-> 0, j |-> 0, k |-> 0, blen |-> n, cidx |-> chunk.idx]
    BY DEF Recv, NoCall
<1>3. /\ chunk'.array = chunk.array /\ chunk'.len = chunk.len /\ chunk'.counter = chunk.counter
    BY DEF Inv, Shape, Recv
<1>4. /\ Stream = Wire(Chunks) /\ Chunks \in Nat
    BY <1>1, StreamIsWire
<1>5. /\ buf'.array = [x \in 0..n - 1 |-> Wire(Chunks)[taken + x + 1]]
      /\ taken + n <= Len(Wire(Chunks))
    BY <1>4 DEF Recv
<1>6. Chunks' = Chunks /\ (\A m : Wire(m)' = Wire(m))
    BY <1>1 DEF Chunks, Wire
<1>7. Waiting
    BY <1>1 DEF Track
<1>8. Known(call.cidx)'
    BY <1>1, <1>2, <1>3, <1>7 DEF Waiting, Known, Chunks
<1>9. Read' = taken
    <2>1. Read' = (taken + n) - n + 0
        BY <1>1, <1>2 DEF Read
    <2> QED
        BY <1>1, <2>1
<1>10. Read' = Len(WireOf(sent.lens, chunk.counter)) + chunk.idx
    BY <1>7, <1>9 DEF Waiting, Wire
<1>11. ASSUME NEW x \in 0..n - 0 - 1
       PROVE  buf'.array[0 + x] = Wire(Chunks)[taken + x + 1]
    BY <1>1, <1>5
<1>12. (released \o Found)' = DataOf(sent.lens, chunk.counter)
    <2>1. Found' = <<>>
        BY <1>2 DEF Found
    <2>2. released \in Seq(Byte)
        BY DEF Track
    <2> QED
        BY <1>1, <1>7, <2>1, <2>2, ConcatEmptySeq DEF Waiting
<1>13. Looped'
    <2>1. call'.blen <= taken'
        BY <1>1, <1>2
    <2>2. \A x \in 0..call'.blen - call'.i - 1 :
              buf'.array[call'.k + x] = WireOf(sent.lens, Len(sent.lens))[Read' + x + 1]
        BY <1>2, <1>9, <1>11 DEF Wire, Chunks
    <2>3. \A x \in 0..call'.j - 1 : FALSE
        BY <1>2
    <2> QED
        BY <1>1, <1>2, <1>3, <1>8, <1>10, <1>12, <2>1, <2>2, <2>3 DEF Looped, Wire, Chunks
<1> QED
    BY <1>1, <1>3, <1>5, <1>13 DEF Track, Vouched, Wire, Chunks

LEMMA CopyTrack ==
    ASSUME Inv, Track, Copy
    PROVE  Track'
<1> USE ChunkAssumption
<1>1. /\ Looping /\ pc = "loop" /\ pc' = "loop" /\ sent' = sent /\ released' = released
      /\ taken' = taken /\ buf' = buf
      /\ sent.lens \in Seq(Nat)
    BY DEF Inv, Shape, Copy, Looping
<1>2. call \in [i : Nat, j : Nat, k : Nat, blen : Nat, cidx : Nat] /\ taken \in Nat
    BY DEF Inv, TypeOK
<1>3. /\ call'.i = call.i + 1 /\ call'.j = call.j /\ call'.k = call.k + 1
      /\ call'.blen = call.blen /\ call'.cidx = call.cidx + 1
    BY <1>2 DEF Copy
<1>4. /\ chunk'.array = Copied /\ chunk'.len = NextLen /\ chunk'.counter = chunk.counter
    BY DEF Inv, Shape, Copy
<1>5. Looped
    BY <1>1 DEF Track
<1>6. Known(call.cidx)'
    <2>1. /\ \A p \in 0..call.cidx :
                 p \in DOMAIN Copied /\ Copied[p] = [chunk |-> chunk.counter + 1, pos |-> p]
          /\ call.cidx + 1 >= ClenBytes => NextLen = sent.lens[chunk.counter + 1]
          /\ chunk.counter < Chunks
        BY <1>1, NextByte
    <2>2. (call.cidx + 1) - 1 = call.cidx
        BY <1>2
    <2> QED
        BY <1>1, <1>3, <1>4, <2>1, <2>2 DEF Known, Chunks
<1>7. Read' = Read + 1 /\ Read \in Int
    <2>1. call.blen \in Nat /\ call.i \in Nat
        BY <1>2
    <2>2. Read' = taken - call.blen + (call.i + 1)
        BY <1>1, <1>3 DEF Read
    <2> QED
        BY <1>2, <2>1, <2>2 DEF Read
<1>8. Read' = Len(WireOf(sent.lens, chunk.counter)) + call'.cidx
    <2>1. chunk.counter \in 0..Len(sent.lens)
        BY DEF Track, Chunks
    <2>2. WireOf(sent.lens, chunk.counter) \in Seq(Byte)
        BY <1>1, <2>1, WireFacts
    <2>3. Len(WireOf(sent.lens, chunk.counter)) \in Nat
        BY <2>2
    <2>4. Read = Len(WireOf(sent.lens, chunk.counter)) + call.cidx
        BY <1>5 DEF Looped, Wire
    <2> QED
        BY <1>2, <1>3, <1>7, <2>3, <2>4
<1>9. ASSUME NEW x \in 0..call'.blen - call'.i - 1
      PROVE  buf'.array[call'.k + x] = Wire(Chunks)[Read' + x + 1]
    <2>1. /\ x + 1 \in 0..call.blen - call.i - 1
          /\ call.k + (x + 1) = call'.k + x
          /\ Read + (x + 1) + 1 = Read' + x + 1
        BY <1>2, <1>3, <1>7
    <2>2. buf.array[call.k + (x + 1)] = Wire(Chunks)[Read + (x + 1) + 1]
        BY <1>5, <2>1 DEF Looped
    <2> QED
        BY <1>1, <2>1, <2>2
<1>10. Looped'
    <2>1. /\ call'.blen <= taken'
          /\ \A x \in 0..call.j - 1 : x \in DOMAIN buf.array /\ Vouched(buf.array[x])
          /\ released \o Found = DataOf(sent.lens, chunk.counter)
        BY <1>1, <1>3, <1>5 DEF Looped
    <2>2. Found' = Found
        BY <1>1, <1>3 DEF Found
    <2> QED
        BY <1>1, <1>3, <1>4, <1>6, <1>8, <1>9, <2>1, <2>2 DEF Looped, Wire, Chunks, Vouched
<1> QED
    BY <1>1, <1>4, <1>10 DEF Track, Vouched, Wire, Chunks

\* An array keeps its beginning, has data behind it, has a part of another.
Begins(new, old, j) == \A x \in 0..j - 1 : x \in DOMAIN new /\ new[x] = old[x]
Follows(new, data, j, l) == \A x \in 0..l - 1 : j + x \in DOMAIN new /\ new[j + x] = data[x + 1]
Behind(new, old, at, from, rest) == \A x \in 0..rest - 1 : new[at + x] = old[from + x]

\* Placed leaves what was found, adds the data, and keeps the rest of the piece.
LEMMA PlacedAt ==
    ASSUME NEW array, NEW data, NEW j \in Nat, NEW k \in Int, NEW rest \in Nat,
           NEW l \in Nat, Len(data) = l, Begins(array, array, j)
    PROVE  /\ Begins(Placed(array, data, j, k, rest), array, j)
           /\ Follows(Placed(array, data, j, k, rest), data, j, l)
           /\ Behind(Placed(array, data, j, k, rest), array, j + l, k, rest)
<1> DEFINE to == j + l
           tail == Slice(array, k, rest, to)
           moved == Overwritten(array, tail)
           put == Slice(data, 1, l, j)
           placed == Placed(array, data, j, k, rest)
<1>1. to \in Nat /\ to = j + l
    OBVIOUS
<1>2. /\ DOMAIN tail = to..to + rest - 1
      /\ \A y \in to..to + rest - 1 : tail[y] = array[k + y - to]
    BY DEF Slice
<1>3. /\ DOMAIN put = j..j + l - 1
      /\ \A y \in j..j + l - 1 : put[y] = data[1 + y - j]
    BY DEF Slice
<1>4. placed = Overwritten(moved, put)
    BY DEF Placed
<1> HIDE DEF tail, put, placed
<1>5. /\ DOMAIN moved = DOMAIN tail \cup DOMAIN array
      /\ \A y \in DOMAIN moved : moved[y] = IF y \in DOMAIN tail THEN tail[y] ELSE array[y]
    BY DEF Overwritten
<1> HIDE DEF moved
<1>6. /\ DOMAIN placed = DOMAIN put \cup DOMAIN moved
      /\ \A y \in DOMAIN placed : placed[y] = IF y \in DOMAIN put THEN put[y] ELSE moved[y]
    BY <1>4 DEF Overwritten
<1> HIDE DEF to
<1>0. \A x \in 0..j - 1 : x \in DOMAIN array
    BY DEF Begins
<1>7. ASSUME NEW x \in 0..j - 1
      PROVE  x \in DOMAIN placed /\ placed[x] = array[x]
    <2>1. x \notin to..to + rest - 1 /\ x \notin j..j + l - 1
        BY <1>1
    <2> QED
        BY <1>0, <1>2, <1>3, <1>5, <1>6, <2>1
<1>8. ASSUME NEW x \in 0..l - 1
      PROVE  j + x \in DOMAIN placed /\ placed[j + x] = data[x + 1]
    <2>1. j + x \in j..j + l - 1
        OBVIOUS
    <2>2. 1 + (j + x) - j = x + 1
        OBVIOUS
    <2>3. put[j + x] = data[1 + (j + x) - j]
        BY <1>3, <2>1
    <2>4. put[j + x] = data[x + 1]
        BY <2>2, <2>3
    <2> QED
        BY <1>3, <1>6, <2>1, <2>4
<1>9. ASSUME NEW x \in 0..rest - 1
      PROVE  placed[j + l + x] = array[k + x]
    <2>1. to + x \in to..to + rest - 1
        BY <1>1
    <2>2. to + x \notin j..j + l - 1
        BY <1>1
    <2>3. k + (to + x) - to = k + x
        BY <1>1
    <2>4. tail[to + x] = array[k + x]
        BY <1>2, <2>1, <2>3
    <2>5. placed[to + x] = array[k + x]
        BY <1>2, <1>3, <1>5, <1>6, <2>1, <2>2, <2>4
    <2> QED
        BY <1>1, <2>5
<1> QED
    BY <1>7, <1>8, <1>9 DEF placed, Begins, Follows, Behind

\* Two sequences laid end to end.
Joins(ab, a, b, j, l) ==
    /\ \A x \in 1..j : ab[x] = a[x]
    /\ \A x \in 1..l : ab[j + x] = b[x]

LEMMA JoinAt ==
    ASSUME NEW S, NEW a \in Seq(S), NEW b \in Seq(S), NEW j \in Nat, NEW l \in Nat,
           Len(a) = j, Len(b) = l
    PROVE  a \o b \in Seq(S) /\ Len(a \o b) = j + l /\ Joins(a \o b, a, b, j, l)
<1>1. Len(a \o b) = j + l
    OBVIOUS
<1>2. \A x \in 1..j : (a \o b)[x] = a[x]
    OBVIOUS
<1>3. \A x \in 1..Len(b) : (a \o b)[j + x] = b[x]
    OBVIOUS
<1> QED
    BY <1>1, <1>2, <1>3 DEF Joins

\* the first n places of an array
Prefix(array, n) == [x \in 1..n |-> array[x - 1]]

\* The first j places of an array are in S.
Filled(array, j, S) == \A x \in 0..j - 1 : array[x] \in S

LEMMA FilledSeq ==
    ASSUME NEW S, NEW a, NEW j \in Nat, Filled(a, j, S)
    PROVE  Prefix(a, j) \in Seq(S)
<1>1. \A x \in 1..j : x - 1 \in 0..j - 1
    OBVIOUS
<1>2. \A x \in 1..j : a[x - 1] \in S
    BY <1>1 DEF Filled
<1> QED
    BY <1>2 DEF Prefix

LEMMA SameSeq ==
    ASSUME NEW S, NEW s \in Seq(S), NEW n \in Nat, Len(s) = n
    PROVE  s = [x \in 1..n |-> s[x]]
OBVIOUS

\* The beginning of an array, when data follows it.
Longer(b, a, data, j, l) == Prefix(b, j + l) = Prefix(a, j) \o data

LEMMA BeginsWith ==
    ASSUME NEW a, NEW b, NEW data, data \in Seq(Byte), NEW j \in Nat, NEW l \in Nat,
           Len(data) = l, Filled(a, j, Byte), Begins(b, a, j), Follows(b, data, j, l)
    PROVE  Longer(b, a, data, j, l)
<1> DEFINE f == Prefix(a, j)
<1>1. f \in Seq(Byte) /\ Len(f) = j /\ \A x \in 1..j : f[x] = a[x - 1]
    BY FilledSeq DEF Prefix
<1> HIDE DEF f
<1>2. PICK both \in Seq(Byte) :
          both = f \o data /\ Len(both) = j + l /\ Joins(both, f, data, j, l)
    <2>1. f \in Seq(Byte)
        BY <1>1
    <2>2. Len(f) = j
        BY <1>1
    <2> QED
        <3>1. /\ f \o data \in Seq(Byte) /\ Len(f \o data) = j + l
              /\ Joins(f \o data, f, data, j, l)
            BY <2>1, <2>2, JoinAt
        <3> QED
            BY <3>1
<1>3. PICK n \in Nat : n = j + l
    OBVIOUS
<1>4. both = [x \in 1..n |-> both[x]]
    BY <1>2, <1>3, SameSeq
<1>5. ASSUME NEW x \in 1..n PROVE b[x - 1] = both[x]
    <2>1. CASE x <= j
        <3>1. x \in 1..j
            BY <2>1
        <3>2. x - 1 \in 0..j - 1
            BY <2>1
        <3>3. b[x - 1] = a[x - 1]
            BY <3>2 DEF Begins
        <3> QED
            BY <1>1, <1>2, <3>1, <3>3 DEF Joins
    <2>2. CASE ~(x <= j)
        <3>1. PICK y \in 0..l - 1 : x = j + y + 1
            <4>1. x - j - 1 \in 0..l - 1
                BY <1>3, <2>2
            <4>2. x = j + (x - j - 1) + 1
                OBVIOUS
            <4> QED
                BY <4>1, <4>2
        <3>2. x - 1 = j + y
            BY <3>1
        <3>3. y + 1 \in 1..l
            OBVIOUS
        <3>4. x = j + (y + 1)
            BY <3>1
        <3>5. b[j + y] = data[y + 1]
            BY DEF Follows
        <3>6. both[j + (y + 1)] = data[y + 1]
            BY <1>2, <3>3 DEF Joins
        <3> QED
            BY <3>2, <3>4, <3>5, <3>6
    <2> QED
        BY <2>1, <2>2
<1>6. Prefix(b, n) = both
    BY <1>4, <1>5 DEF Prefix
<1> QED
    BY <1>2, <1>3, <1>6 DEF f, Longer

LEMMA ReleaseTrack ==
    ASSUME Inv, Track, Release
    PROVE  Track'
<1> USE ChunkAssumption
<1>1. /\ Looping /\ Complete /\ HashMatches
      /\ pc = "loop" /\ pc' = "loop" /\ sent' = sent /\ released' = released
      /\ taken' = taken
      /\ sent.lens \in Seq(Nat)
    BY DEF Inv, Shape, Release, Looping
<1>2. call \in [i : Nat, j : Nat, k : Nat, blen : Nat, cidx : Nat]
    BY DEF Inv, TypeOK
<1>3. PICK i \in Nat, j \in Nat, k \in Nat, b \in Nat, idx \in Nat :
          call.i = i /\ call.j = j /\ call.k = k /\ call.blen = b /\ call.cidx = idx
    BY <1>2
<1>4. i < b /\ taken \in Nat /\ b - i - 1 \in Nat
    <2>1. i < b /\ taken \in Nat
        BY <1>1, <1>3 DEF Looping, Inv, TypeOK
    <2> QED
        BY <2>1
<1>5. PICK c \in Nat : chunk.counter = c
    BY <1>1, NextByte
<1>6. PICK len \in Nat : sent.lens[c + 1] = len
    BY <1>1, <1>5, NextByte
<1>7. /\ c < Chunks /\ Chunks \in Nat /\ c + 1 \in DOMAIN sent.lens
      /\ \A p \in 0..idx : Copied[p] = [chunk |-> c + 1, pos |-> p]
      /\ idx + 1 >= ClenBytes => NextLen = len
    BY <1>1, <1>3, <1>5, <1>6, NextByte
<1>8. NextLen = len /\ idx + 1 = len + AuthBytes
    <2>1. PICK next \in Nat : NextLen = next
        BY <1>1, CopiedStep
    <2>2. idx + 1 = next + AuthBytes
        BY <1>1, <1>3, <2>1 DEF Complete
    <2>3. idx + 1 >= ClenBytes
        BY <2>2
    <2> QED
        BY <1>7, <2>1, <2>2, <2>3
<1>9. PICK rest \in Nat : rest = b - i - 1
    BY <1>4
<1> DEFINE data == [p \in 1..len |-> Copied[AuthBytes + p - 1]]
<1>10. data = ChunkData(c + 1, len)
    <2>1. ASSUME NEW p \in 1..len
          PROVE  Copied[AuthBytes + p - 1] = [chunk |-> c + 1, pos |-> AuthBytes + p - 1]
        <3>1. AuthBytes + p - 1 \in 0..idx
            BY <1>8
        <3> QED
            BY <1>7, <3>1
    <2> QED
        BY <2>1 DEF ChunkData
<1>11. buf'.array = Placed(buf.array, data, j, k + 1, rest)
    <2>1. buf'.array = Placed(buf.array, [p \in 1..NextLen |-> Copied[AuthBytes + p - 1]],
                              call.j, call.k + 1, call.blen - call.i - 1)
        BY DEF Release, Inv, Shape
    <2> QED
        BY <1>3, <1>8, <1>9, <2>1
<1> HIDE DEF data
<1>12. c + 1 \in Nat
    OBVIOUS
<1>13. data \in Seq(Byte) /\ Len(data) = len
    BY <1>10, <1>12, ChunkBytesSeq
<1>14. /\ call'.i = i + 1 /\ call'.j = j + len /\ call'.k = j + len
       /\ call'.blen = b /\ call'.cidx = 0
    BY <1>2, <1>3, <1>8 DEF Release, IdxReset
<1>15. /\ chunk'.array = Copied /\ chunk'.len = len /\ chunk'.counter = c + 1
    BY <1>5, <1>8 DEF Inv, Shape, Release
<1>16. Looped
    BY <1>1 DEF Track
<1>17. /\ \A x \in 0..j - 1 : /\ x \in DOMAIN buf.array /\ buf.array[x] \in Byte
                              /\ buf.array[x].chunk <= c
       /\ \A x \in 0..b - i - 1 : buf.array[k + x] = Wire(Chunks)[Read + x + 1]
       /\ released \o Found = DataOf(sent.lens, c)
       /\ Read = Len(WireOf(sent.lens, c)) + idx
       /\ b <= taken
    BY <1>3, <1>5, <1>16 DEF Looped, Vouched, Wire
<1>18. /\ Begins(buf'.array, buf.array, j) /\ Follows(buf'.array, data, j, len)
       /\ Behind(buf'.array, buf.array, j + len, k + 1, rest)
    <2>1. PICK from \in Int : from = k + 1
        OBVIOUS
    <2>2. Begins(buf.array, buf.array, j)
        BY <1>17 DEF Begins
    <2>3. Len(data) = len
        BY <1>13
    <2>4. /\ Begins(Placed(buf.array, data, j, from, rest), buf.array, j)
          /\ Follows(Placed(buf.array, data, j, from, rest), data, j, len)
          /\ Behind(Placed(buf.array, data, j, from, rest), buf.array, j + len, from, rest)
        BY <2>2, <2>3, PlacedAt
    <2> QED
        BY <1>11, <2>1, <2>4
<1>19. \A x \in 0..len - 1 : data[x + 1] \in Byte /\ data[x + 1].chunk = c + 1
    <2>1. \A x \in 0..len - 1 : x + 1 \in 1..len
        OBVIOUS
    <2>2. \A x \in 0..len - 1 : AuthBytes + (x + 1) - 1 \in Nat
        OBVIOUS
    <2>3. \A x \in 0..len - 1 : data[x + 1] = [chunk |-> c + 1, pos |-> AuthBytes + (x + 1) - 1]
        BY <1>10, <2>1 DEF ChunkData
    <2>4. ASSUME NEW d \in Nat, NEW p \in Nat
          PROVE  [chunk |-> d, pos |-> p] \in Byte /\ [chunk |-> d, pos |-> p].chunk = d
        BY DEF Byte
    <2>5. ASSUME NEW x \in 0..len - 1
          PROVE  data[x + 1] \in Byte /\ data[x + 1].chunk = c + 1
        <3>1. PICK p \in Nat : AuthBytes + (x + 1) - 1 = p
            BY <2>2
        <3>2. PICK d \in Nat : c + 1 = d
            BY <1>12
        <3>3. data[x + 1] = [chunk |-> d, pos |-> p]
            BY <2>3, <3>1, <3>2
        <3> QED
            BY <2>4, <3>2, <3>3
    <2> QED
        BY <2>5
\* what buf begins with
<1>20. ASSUME NEW x \in 0..j + len - 1
       PROVE  x \in DOMAIN buf'.array /\ buf'.array[x] \in Byte /\ buf'.array[x].chunk <= c + 1
    <2>1. CASE x < j
        <3>1. x \in 0..j - 1
            BY <2>1
        <3>2. /\ x \in DOMAIN buf'.array /\ buf'.array[x] \in Byte
              /\ buf'.array[x].chunk <= c
            BY <1>17, <1>18, <3>1 DEF Begins
        <3>3. buf'.array[x].chunk \in Nat
            BY <3>2 DEF Byte
        <3> QED
            BY <3>2, <3>3
    <2>2. CASE ~(x < j)
        <3>1. PICK y \in 0..len - 1 : x = j + y
            <4>1. x - j \in 0..len - 1
                BY <2>2
            <4>2. x = j + (x - j)
                OBVIOUS
            <4> QED
                BY <4>1, <4>2
        <3>2. x \in DOMAIN buf'.array /\ buf'.array[x] = data[y + 1]
            BY <1>18, <3>1 DEF Follows
        <3>3. buf'.array[x] \in Byte /\ buf'.array[x].chunk = c + 1
            BY <1>19, <3>2
        <3> QED
            BY <3>2, <3>3
    <2> QED
        BY <2>1, <2>2
<1>21. (released \o Found)' = DataOf(sent.lens, c + 1)
    <2> DEFINE found == Found
               more == Found'
    <2>1. found = Prefix(buf.array, j) /\ more = Prefix(buf'.array, j + len)
        BY <1>3, <1>14 DEF Found, Prefix
    <2> HIDE DEF found, more
    <2>2. found \in Seq(Byte) /\ more = found \o data
        <3>1. Filled(buf.array, j, Byte)
            BY <1>17 DEF Filled
        <3>2. data \in Seq(Byte)
            BY <1>13
        <3>3. Len(data) = len
            BY <1>13
        <3>4. Prefix(buf.array, j) \in Seq(Byte)
            BY <3>1, FilledSeq
        <3>5. Prefix(buf'.array, j + len) = Prefix(buf.array, j) \o data
            <4> DEFINE a1 == buf.array
                       a2 == buf'.array
            <4>1. Begins(a2, a1, j)
                BY <1>18
            <4>2. Follows(a2, data, j, len)
                BY <1>18
            <4>3. Filled(a1, j, Byte)
                BY <3>1
            <4> HIDE DEF a1, a2
            <4>4. Longer(a2, a1, data, j, len)
                BY <3>2, <3>3, <4>1, <4>2, <4>3, BeginsWith
            <4> QED
                BY <4>4 DEF a1, a2, Longer
        <3> QED
            BY <2>1, <3>4, <3>5
    <2>3. released \in Seq(Byte) /\ released \o found = DataOf(sent.lens, c)
        BY <1>17 DEF Track, found
    <2>4. released \o (found \o data) = (released \o found) \o data
        <3>1. data \in Seq(Byte)
            BY <1>13
        <3>2. found \in Seq(Byte)
            BY <2>2
        <3>3. released \in Seq(Byte)
            BY <2>3
        <3> QED
            BY <3>1, <3>2, <3>3, ConcatAssociative
    <2>5. DataOf(sent.lens, c + 1) = DataOf(sent.lens, c) \o data
        <3>1. c \in 0..Len(sent.lens) - 1
            BY <1>7 DEF Chunks
        <3> QED
            BY <1>1, <1>6, <1>10, <3>1, DataFacts
    <2> QED
        BY <1>1, <2>2, <2>3, <2>4, <2>5 DEF more
<1>22. Known(call.cidx)'
    BY <1>14 DEF Known
<1>23. Read' = Read + 1 /\ Read \in Int
    <2>1. Read = taken - b + i
        BY <1>3 DEF Read
    <2>2. Read' = taken - b + (i + 1)
        BY <1>1, <1>14 DEF Read
    <2> QED
        BY <1>4, <2>1, <2>2
<1>24. Read' = Len(WireOf(sent.lens, c + 1)) + 0
    <2>1. c \in 0..Len(sent.lens) - 1 /\ c \in 0..Len(sent.lens)
        BY <1>7 DEF Chunks
    <2>2. WireOf(sent.lens, c) \in Seq(Byte)
        BY <1>1, <2>1, WireFacts
    <2>3. PICK w \in Nat : Len(WireOf(sent.lens, c)) = w
        BY <2>2
    <2>4. Len(WireOf(sent.lens, c + 1)) = w + AuthBytes + len
        BY <1>1, <1>6, <2>1, <2>3, WireFacts
    <2>5. Read = w + idx
        BY <1>17, <2>3
    <2>6. Read' = w + idx + 1
        BY <1>23, <2>5
    <2>7. w + idx + 1 = w + AuthBytes + len + 0
        BY <1>8
    <2> QED
        BY <2>4, <2>6, <2>7
<1>25. ASSUME NEW x \in 0..b - (i + 1) - 1
       PROVE  buf'.array[j + len + x] = Wire(Chunks)[Read' + x + 1]
    <2>1. x \in 0..rest - 1
        BY <1>9
    <2>2. x + 1 \in 0..b - i - 1
        OBVIOUS
    <2>3. k + (x + 1) = k + 1 + x
        OBVIOUS
    <2>4. Read + (x + 1) + 1 = Read' + x + 1
        BY <1>23
    <2>5. buf.array[k + (x + 1)] = Wire(Chunks)[Read + (x + 1) + 1]
        BY <1>17, <2>2
    <2> QED
        BY <1>18, <2>1, <2>3, <2>4, <2>5 DEF Behind
<1>26. Looped'
    BY <1>1, <1>14, <1>15, <1>17, <1>20, <1>21, <1>22, <1>24, <1>25
       DEF Looped, Wire, Chunks, Vouched
<1>27. \A x \in DOMAIN released : released[x] \in Byte /\ released[x].chunk <= c + 1
    <2>1. \A x \in DOMAIN released :
              released[x] \in Byte /\ released[x].chunk <= c /\ released[x].chunk \in Nat
        BY <1>5 DEF Track, Vouched, Byte
    <2> QED
        BY <2>1
<1>28. sent.bad # 0 => c + 1 < sent.bad
    <2>1. c + 1 # sent.bad /\ sent.bad \in Nat /\ (sent.bad # 0 => c < sent.bad)
        BY <1>1, <1>5, <1>7 DEF HashMatches, Track
    <2> QED
        BY <2>1
<1>29. c + 1 \in 0..Chunks
    BY <1>7
<1> QED
    BY <1>1, <1>15, <1>26, <1>27, <1>28, <1>29 DEF Track, Vouched, Wire, Chunks

\* A hash that does not match is that of the chunk the client spoiled.
LEMMA MismatchTrack ==
    ASSUME Inv, Track, Mismatch
    PROVE  Track'
<1> USE ChunkAssumption
<1>1. /\ Looping /\ Complete /\ ~HashMatches /\ pc' = "failed"
      /\ sent' = sent /\ taken' = taken /\ chunk' = chunk /\ released' = released
    BY DEF Mismatch
<1>2. PICK c \in Nat : chunk.counter = c
    BY <1>1, NextByte
<1>3. PICK len \in Nat : sent.lens[c + 1] = len
    BY <1>1, <1>2, NextByte
<1>4. PICK idx \in Nat : call.cidx = idx
    BY <1>1, NextByte
<1>5. /\ c + 1 \in DOMAIN sent.lens
      /\ \A p \in 0..idx : Copied[p] = [chunk |-> c + 1, pos |-> p]
      /\ idx + 1 >= ClenBytes => NextLen = len
    BY <1>1, <1>2, <1>3, <1>4, NextByte
<1>6. NextLen = len /\ NextLen + AuthBytes - 1 = idx
    <2>1. PICK next \in Nat : NextLen = next
        BY <1>1, CopiedStep
    <2>2. idx + 1 = next + AuthBytes
        BY <1>1, <1>4, <2>1 DEF Complete
    <2>3. idx + 1 >= ClenBytes
        BY <2>2
    <2>4. next + AuthBytes - 1 = idx
        BY <2>2
    <2> QED
        BY <1>5, <2>1, <2>3, <2>4
<1>7. c + 1 = sent.bad
    BY <1>1, <1>2, <1>3, <1>5, <1>6 DEF HashMatches
<1> QED
    BY <1>1, <1>2, <1>7 DEF Track, Vouched, Wire, Chunks

LEMMA ReturnTrack ==
    ASSUME Inv, Track, Return
    PROVE  Track'
<1>1. /\ pc = "loop" /\ pc' = "wait" /\ sent' = sent /\ taken' = taken
      /\ call.i = call.blen
      /\ released' = released \o Found
    BY DEF Return, Found
<1>2. /\ chunk'.idx = call.cidx /\ chunk'.array = chunk.array /\ chunk'.len = chunk.len
      /\ chunk'.counter = chunk.counter
    BY DEF Inv, Shape, Return
<1>3. call.j \in Nat /\ call.i \in Nat /\ call.blen \in Nat /\ taken \in Nat
    BY DEF Inv, TypeOK
<1>4. Looped
    BY <1>1 DEF Track
<1>5. Read = taken
    BY <1>1, <1>3 DEF Read
<1>6. Known(call.cidx)
    BY <1>4 DEF Looped
<1>7. Known(chunk.idx)'
    BY <1>1, <1>2, <1>6 DEF Known, Chunks
<1>8. Waiting'
    BY <1>1, <1>2, <1>4, <1>5, <1>7 DEF Waiting, Looped, Wire
<1> DEFINE S == {b \in Byte : b.chunk <= chunk.counter}
<1>9. released \in Seq(S)
    <2>1. released \in Seq(Byte) /\ \A x \in DOMAIN released : released[x] \in S
        BY DEF Track, Vouched
    <2> HIDE DEF S
    <2>2. Len(released) \in Nat /\ DOMAIN released = 1..Len(released)
          /\ released = [x \in 1..Len(released) |-> released[x]]
        BY <2>1
    <2> QED
        BY <2>1, <2>2, IsASeq
<1>10. Found \in Seq(S)
    <2>1. \A x \in 0..call.j - 1 : buf.array[x] \in S
        BY <1>4 DEF Looped, Vouched
    <2> HIDE DEF S
    <2>2. Filled(buf.array, call.j, S)
        BY <2>1 DEF Filled
    <2>3. Prefix(buf.array, call.j) \in Seq(S)
        BY <1>3, <2>2, FilledSeq
    <2> QED
        BY <2>3 DEF Prefix, Found
<1>11. released' \in Seq(S)
    <2> HIDE DEF S
    <2> QED
        BY <1>1, <1>9, <1>10
<1>12. \A x \in DOMAIN released' : released'[x] \in S
    <2> HIDE DEF S
    <2> QED
        BY <1>11
<1>13. released' \in Seq(Byte)
    <2>1. \A x \in DOMAIN released' : released'[x] \in Byte
        BY <1>12
    <2> HIDE DEF S
    <2>2. Len(released') \in Nat /\ DOMAIN released' = 1..Len(released')
          /\ released' = [x \in 1..Len(released') |-> released'[x]]
        BY <1>11
    <2> QED
        BY <2>1, <2>2, IsASeq
<1> QED
    BY <1>1, <1>2, <1>8, <1>12, <1>13 DEF Track, Vouched, Wire, Chunks

LEMMA NextTrack == Inv /\ Track /\ [Next]_vars => Track'
<1> SUFFICES ASSUME Inv, Track, [Next]_vars PROVE Track'
    OBVIOUS
<1>1. CASE \E n \in 1..BufSize : Recv(n)
    BY <1>1, RecvTrack
<1>2. CASE Copy
    BY <1>2, CopyTrack
<1>3. CASE Release
    BY <1>3, ReleaseTrack
<1>4. CASE Mismatch
    BY <1>4, MismatchTrack
<1>5. CASE Return
    BY <1>5, ReturnTrack
<1>6. CASE Done \/ UNCHANGED vars
    BY <1>6 DEF Done, vars, Track, Vouched, Wire, Chunks, Waiting, Looped, Known, Found, Read
<1> QED
    BY <1>1, <1>2, <1>3, <1>4, <1>5, <1>6 DEF Next

LEMMA TrackHolds == Spec => [](Inv /\ Track)
BY InitInv, InitTrack, NextInv, NextTrack, PTL DEF Spec

\* Between two calls the chunks that have come whole are those released.
LEMMA WholeIsCounter ==
    ASSUME Inv, Track, pc = "wait"
    PROVE  Whole = chunk.counter
<1> USE ChunkAssumption
<1>1. sent.lens \in Seq(Nat) /\ Waiting /\ InChunk(chunk.idx, chunk.len)
    BY DEF Inv, TypeOK, Shape, Track
<1>2. PICK N \in Nat : Len(sent.lens) = N
    BY <1>1
<1>3. PICK c \in 0..N : chunk.counter = c
    BY <1>2 DEF Track, Chunks
<1>4. PICK idx \in Nat : chunk.idx = idx
    BY DEF Inv, TypeOK
<1>5. ASSUME NEW m \in 0..N PROVE Len(WireOf(sent.lens, m)) \in Nat
    <2>1. WireOf(sent.lens, m) \in Seq(Byte)
        BY <1>1, <1>2, WireFacts
    <2> QED
        BY <2>1
<1>6. taken = Len(WireOf(sent.lens, c)) + idx
    BY <1>1, <1>3, <1>4 DEF Waiting, Wire
<1>7. ASSUME NEW m \in 0..N, NEW n \in m..N
      PROVE  Len(WireOf(sent.lens, m)) <= Len(WireOf(sent.lens, n))
    BY <1>1, <1>2, WireFacts
<1>8. ASSUME NEW m \in 1..N, m <= c
      PROVE  taken >= Len(WireOf(sent.lens, m))
    <2>1. m \in 0..N /\ c \in m..N
        BY <1>8
    <2>2. PICK a \in Nat, b \in Nat :
              a = Len(WireOf(sent.lens, m)) /\ b = Len(WireOf(sent.lens, c))
        BY <1>5, <2>1
    <2>3. a <= b
        BY <1>7, <2>1, <2>2
    <2>4. taken = b + idx
        BY <1>6, <2>2
    <2> QED
        BY <2>2, <2>3, <2>4
<1>9. ASSUME NEW m \in 1..N, ~(m <= c)
      PROVE  ~(taken >= Len(WireOf(sent.lens, m)))
    <2>1. c \in 0..N - 1 /\ c \in 0..N /\ c + 1 \in 0..N /\ m \in c + 1..N /\ m \in 0..N
        BY <1>9
    <2>2. PICK len \in Nat : sent.lens[c + 1] = len
        <3>1. c + 1 \in 1..Len(sent.lens)
            BY <1>2, <2>1
        <3> QED
            BY <1>1, <3>1, ElementOfSeq
    <2>3. PICK a \in Nat, b \in Nat, d \in Nat :
              /\ a = Len(WireOf(sent.lens, m)) /\ b = Len(WireOf(sent.lens, c))
              /\ d = Len(WireOf(sent.lens, c + 1))
        BY <1>5, <2>1
    <2>4. d <= a
        BY <1>7, <2>1, <2>3
    <2>5. d = b + AuthBytes + len
        BY <1>1, <1>2, <2>1, <2>2, <2>3, WireFacts
    <2>6. idx < AuthBytes + len
        <3>1. CASE idx < ClenBytes
            BY <3>1
        <3>2. CASE ~(idx < ClenBytes)
            <4>1. chunk.len = len
                BY <1>1, <1>3, <1>4, <2>2, <3>2 DEF Waiting, Known
            <4> QED
                BY <1>1, <1>4, <3>2, <4>1 DEF InChunk
        <3> QED
            BY <3>1, <3>2
    <2>7. taken = b + idx
        BY <1>6, <2>3
    <2> QED
        BY <2>3, <2>4, <2>5, <2>6, <2>7
<1>10. {m \in DOMAIN sent.lens : taken >= Len(WireOf(sent.lens, m))} = 1..c
    <2>1. DOMAIN sent.lens = 1..N
        BY <1>1, <1>2
    <2>2. \A m : m \in 1..c <=> m \in 1..N /\ m <= c
        BY <1>3
    <2> QED
        BY <1>8, <1>9, <2>1, <2>2
<1>11. Cardinality(1..c) = c
    <2>1. c \in Nat
        BY <1>3
    <2>2. Cardinality(1..c) = IF 1 > c THEN 0 ELSE c - 1 + 1
        BY <2>1, FS_Interval
    <2> QED
        BY <2>1, <2>2
<1> QED
    BY <1>3, <1>10, <1>11 DEF Whole, WireOf

-----------------------------------------------------------------------------
\* A client is refused for a chunk whose hash is wrong, and for no other
\* reason: however the stream is cut, every other chunk's hash matches
\* (the comparison in ss_check_hash).
THEOREM RefusedOnlyForCause == Spec => []RefusedForCause
<1>1. Track => RefusedForCause
    BY DEF Track, RefusedForCause
<1> QED
    BY <1>1, TrackHolds, PTL

\* Whatever the sizes of the chunks and of the pieces they come in, each call
\* of ss_check_hash hands on the payload of the chunks that have come whole,
\* once, in order and with nothing else; nothing of a chunk whose hash is
\* wrong, or of a later one, ever goes to the target.
THEOREM PayloadExact == Spec => []ReleasedExactly
<1>1. ASSUME Inv, Track, pc = "wait"
      PROVE  released = Payload(Whole) /\ chunk.counter = Whole
    <2>1. Whole = chunk.counter
        BY <1>1, WholeIsCounter
    <2>2. released = DataOf(sent.lens, chunk.counter)
        BY <1>1 DEF Track, Waiting
    <2>3. sent.lens \in Seq(Nat)
        BY <1>1 DEF Inv, Shape
    <2>4. Payload(chunk.counter) = DataOf(sent.lens, chunk.counter)
        BY <2>3, StreamIsWire
    <2> QED
        BY <2>1, <2>2, <2>4
<1>2. ASSUME Inv, Track, sent.bad # 0, NEW x \in DOMAIN released
      PROVE  released[x].chunk < sent.bad
    <2>1. released[x] \in Byte /\ released[x].chunk <= chunk.counter
        BY <1>2 DEF Track, Vouched
    <2>2. released[x].chunk \in Nat
        BY <2>1 DEF Byte
    <2>3. chunk.counter < sent.bad /\ sent.bad \in 0..Chunks
        BY <1>2 DEF Track
    <2>4. chunk.counter \in Nat /\ sent.lens \in Seq(Nat)
        BY <1>2 DEF Inv, TypeOK, Shape
    <2>5. sent.bad \in Int
        BY <2>3, <2>4, StreamIsWire
    <2> QED
        BY <2>1, <2>2, <2>3, <2>4, <2>5
<1>3. Inv /\ Track => ReleasedExactly
    BY <1>1, <1>2 DEF ReleasedExactly
<1> QED
    BY <1>3, TrackHolds, PTL
=============================================================================
