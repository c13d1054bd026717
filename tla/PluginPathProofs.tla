--------------------------- MODULE PluginPathProofs ---------------------------
(***************************************************************************)
(* Proofs about PluginPath, for any connections, clients, IVs, lengths of  *)
(* flights and of writes, and any capacity of iv_cache:                    *)
(*   - what the cache of used IVs has forgotten, enough other keys have    *)
(*     been presented since to make it forget (IvFresh);                   *)
(*   - the units of each side come out at the other once each and in       *)
(*     order, through whichever plug-in and however the stream is cut      *)
(*     (Intact), and the state has its shapes (TypeOK);                    *)
(*   - an end closes a connection only for what came to it: a stray byte,  *)
(*     bytes that no key is known for, or a close (RefusedForCause).       *)
(* For the second, PathInv says for each connection what lies between what *)
(* was written and what was handed over: a stretch of the plaintext as it  *)
(* stands, behind a head of HTTP, or in whole records behind what the      *)
(* handshake still has on its way. For the third, CauseInv adds what the   *)
(* two halves of the handshake have still to say to each other.            *)
(***************************************************************************)
EXTENDS PluginPath, CacheProofs, SequenceTheorems, NaturalsInduction,
        WellFoundedInduction, TLAPS

\* the keys presented after q
Since(q) == {presented[r].iv : r \in (q + 1)..Len(presented)}

CacheOK == Sound(ivCache) /\ Cardinality(CacheKeys(ivCache)) < IvCapacity

HistoryOK == \E S : presented \in Seq(S)

\* The order of the cache is that of the last presentation.
InOrder ==
    \A j, k \in CacheKeys(ivCache) : <<j, k>> \in ivCache.older =>
        \A q \in 1..Len(presented) : presented[q].iv = j => k \in Since(q)

\* What was presented and is not in the cache was forgotten.
Forgotten ==
    \A q \in 1..Len(presented) :
        presented[q].iv \in CacheKeys(ivCache) \/ Cardinality(Since(q)) >= IvCapacity - 1

IvInv == CacheOK /\ HistoryOK /\ InOrder /\ Forgotten /\ IvFresh

-----------------------------------------------------------------------------
(* A key is presented. *)

LEMMA Presented ==
    ASSUME HistoryOK, NEW e, presented' = Append(presented, e)
    PROVE  /\ HistoryOK'
           /\ Len(presented) \in Nat /\ Len(presented') = Len(presented) + 1
           /\ \A q \in 1..Len(presented) : presented'[q] = presented[q]
           /\ presented'[Len(presented) + 1] = e
<1>1. PICK S : presented \in Seq(S)
    BY DEF HistoryOK
<1>2. presented \in Seq(S \cup {e})
    BY <1>1
<1>3. e \in S \cup {e}
    OBVIOUS
<1>4. presented' \in Seq(S \cup {e})
    BY <1>2, <1>3
<1>5. HistoryOK'
    BY <1>4 DEF HistoryOK
<1> QED
    BY <1>2, <1>3, <1>5

LEMMA SinceMore ==
    ASSUME HistoryOK, NEW e, presented' = Append(presented, e)
    PROVE  \A q \in 1..Len(presented) :
               /\ Since(q)' = Since(q) \cup {e.iv}
               /\ IsFiniteSet(Since(q)) /\ IsFiniteSet(Since(q)')
               /\ Cardinality(Since(q)) \in Nat
               /\ Cardinality(Since(q)) <= Cardinality(Since(q)')
<1>1. PICK n \in Nat : Len(presented) = n
    BY Presented
<1>2. /\ Len(presented') = n + 1
      /\ \A q \in 1..n : presented'[q] = presented[q]
      /\ presented'[n + 1] = e
    BY <1>1, Presented
<1>3. ASSUME NEW q \in 1..n
      PROVE  /\ Since(q)' = Since(q) \cup {e.iv}
             /\ IsFiniteSet(Since(q)) /\ IsFiniteSet(Since(q)')
             /\ Cardinality(Since(q)) \in Nat
             /\ Cardinality(Since(q)) <= Cardinality(Since(q)')
    <2>1. Since(q) = {presented[r].iv : r \in q + 1..n}
        BY <1>1 DEF Since
    <2>2. Since(q)' = {presented'[r].iv : r \in q + 1..n + 1}
        BY <1>2 DEF Since
    <2>3. q + 1..n + 1 = (q + 1..n) \cup {n + 1}
        OBVIOUS
    <2>4. \A r \in q + 1..n : r \in 1..n
        OBVIOUS
    <2>5. Since(q)' = Since(q) \cup {e.iv}
        BY <1>2, <2>1, <2>2, <2>3, <2>4
    <2>6. IsFiniteSet(q + 1..n)
        BY FS_Interval
    <2>7. IsFiniteSet(Since(q))
        <3> DEFINE f == [r \in q + 1..n |-> presented[r].iv]
        <3>1. f \in Surjection(q + 1..n, Since(q))
            BY <2>1 DEF Surjection
        <3> QED
            BY <2>6, <3>1, FS_Surjection
    <2>8. IsFiniteSet(Since(q)')
        BY <2>5, <2>7, FS_AddElement
    <2>9. Since(q) \subseteq Since(q)'
        BY <2>5
    <2> QED
        BY <2>5, <2>7, <2>8, <2>9, FS_Subset, FS_CardinalityType
<1> QED
    BY <1>1, <1>3

\* What IvFresh says of the keys presented before holds as long as they are the
\* beginning of the history; of the new one it says what Forgotten says of those
\* before it.
LEMMA FreshMore ==
    ASSUME IvInv, NEW key, Checked(key)
    PROVE  IvFresh'
<1>1. PICK n \in Nat : Len(presented) = n
    BY Presented DEF IvInv, Checked
<1> DEFINE e == [iv |-> key, ok |-> ~IvSeen(key)]
<1>2. /\ Len(presented') = n + 1
      /\ \A q \in 1..n : presented'[q] = presented[q]
      /\ presented'[n + 1] = e
    BY <1>1, Presented DEF IvInv, Checked
<1>3. ASSUME NEW p \in 1..Len(presented'), presented'[p].ok,
             NEW q \in 1..(p - 1), presented'[q].iv = presented'[p].iv
      PROVE  Cardinality({presented'[r].iv : r \in (q + 1)..(p - 1)}) >= IvCapacity - 1
    <2>1. q \in 1..n /\ p \in 1..n + 1 /\ \A r \in (q + 1)..(p - 1) : r \in 1..n
        BY <1>2
    <2>2. {presented'[r].iv : r \in (q + 1)..(p - 1)} = {presented[r].iv : r \in (q + 1)..(p - 1)}
        BY <1>2, <2>1
    <2>3. presented'[q] = presented[q]
        BY <1>2, <2>1
    <2>4. CASE p \in 1..n
        <3>1. presented'[p] = presented[p]
            BY <1>2, <2>4
        <3>2. Cardinality({presented[r].iv : r \in (q + 1)..(p - 1)}) >= IvCapacity - 1
            BY <1>1, <1>3, <2>3, <2>4, <3>1 DEF IvInv, IvFresh
        <3> QED
            BY <2>2, <3>2
    <2>5. CASE p = n + 1
        <3>0. presented'[p] = e
            BY <1>2, <2>5
        <3>1. presented[q].iv = key /\ key \notin CacheKeys(ivCache)
            <4>1. presented'[p].iv = key
                BY <3>0
            <4>2. presented'[p].ok = (~IvSeen(key))
                BY <3>0
            <4>3. ~IvSeen(key)
                BY <1>3, <4>2
            <4> QED
                BY <1>3, <2>3, <4>1, <4>3 DEF IvSeen
        <3>2. Cardinality(Since(q)) >= IvCapacity - 1
            BY <1>1, <2>1, <3>1 DEF IvInv, Forgotten
        <3>3. p - 1 = n
            BY <2>5
        <3>4. Since(q) = {presented[r].iv : r \in (q + 1)..(p - 1)}
            BY <1>1, <3>3 DEF Since
        <3> QED
            BY <2>2, <3>2, <3>4
    <2>6. p \in 1..n \/ p = n + 1
        BY <2>1
    <2> QED
        BY <2>4, <2>5, <2>6
<1> QED
    BY <1>3 DEF IvFresh

\* A key that is in the cache is moved to the end of its order.
LEMMA PresentedAgain ==
    ASSUME IvInv, NEW key, Checked(key), IvSeen(key)
    PROVE  CacheOK' /\ InOrder' /\ Forgotten'
<1> DEFINE e == [iv |-> key, ok |-> ~IvSeen(key)]
<1>1. /\ presented' = Append(presented, e) /\ ivCache' = Touched(ivCache, key)
      /\ key \in CacheKeys(ivCache) /\ e.iv = key
    BY DEF Checked, IvSeen
<1>2. PICK n \in Nat : Len(presented) = n
    BY <1>1, Presented DEF IvInv
<1>3. /\ Len(presented') = n + 1
      /\ \A q \in 1..n : presented'[q] = presented[q]
      /\ presented'[n + 1].iv = key
    BY <1>1, <1>2, Presented DEF IvInv
<1>4. \A q \in 1..n : /\ Since(q)' = Since(q) \cup {key}
                      /\ Cardinality(Since(q)) \in Nat
                      /\ Cardinality(Since(q)') \in Nat
                      /\ Cardinality(Since(q)) <= Cardinality(Since(q)')
    BY <1>1, <1>2, SinceMore, FS_CardinalityType DEF IvInv
<1>5. /\ Sound(ivCache') /\ CacheKeys(ivCache') = CacheKeys(ivCache)
      /\ \A i, j \in CacheKeys(ivCache) :
             (<<i, j>> \in ivCache'.older) => i # key /\ (j = key \/ <<i, j>> \in ivCache.older)
    BY <1>1, TouchedSound DEF IvInv, CacheOK, Sound
<1>6. CacheOK'
    BY <1>5 DEF IvInv, CacheOK
<1>7. ASSUME NEW i \in CacheKeys(ivCache'), NEW j \in CacheKeys(ivCache'),
             <<i, j>> \in ivCache'.older,
             NEW q \in 1..n + 1, presented'[q].iv = i
      PROVE  j \in Since(q)'
    <2>1. i # key /\ (j = key \/ <<i, j>> \in ivCache.older)
        BY <1>5, <1>7
    <2>2. q \in 1..n
        BY <1>3, <1>7, <2>1
    <2>3. CASE j = key
        BY <1>4, <2>2, <2>3
    <2>4. CASE <<i, j>> \in ivCache.older
        BY <1>2, <1>3, <1>4, <1>5, <1>7, <2>2, <2>4 DEF IvInv, InOrder
    <2> QED
        BY <2>1, <2>3, <2>4
<1>8. ASSUME NEW q \in 1..n + 1
      PROVE  presented'[q].iv \in CacheKeys(ivCache') \/ Cardinality(Since(q)') >= IvCapacity - 1
    <2>1. CASE q \in 1..n
        BY <1>2, <1>3, <1>4, <1>5, <2>1, PathAssumption DEF IvInv, Forgotten
    <2>2. CASE q = n + 1
        BY <1>1, <1>3, <1>5, <2>2
    <2> QED
        BY <2>1, <2>2
<1> QED
    BY <1>3, <1>6, <1>7, <1>8 DEF InOrder, Forgotten

\* A key that is not in it is added, and the one that goes for it has had all
\* that stay presented after it.
LEMMA PresentedAnew ==
    ASSUME IvInv, NEW key, Checked(key), ~IvSeen(key)
    PROVE  CacheOK' /\ InOrder' /\ Forgotten'
<1> DEFINE e == [iv |-> key, ok |-> ~IvSeen(key)]
           out == Evicted(ivCache, key, "used", IvCapacity)
<1>1. /\ presented' = Append(presented, e)
      /\ ivCache' = Inserted(ivCache, key, "used", IvCapacity)
      /\ key \notin CacheKeys(ivCache) /\ e.iv = key
    BY DEF Checked, IvSeen
<1>2. PICK n \in Nat : Len(presented) = n
    BY <1>1, Presented DEF IvInv
<1>3. /\ Len(presented') = n + 1
      /\ \A q \in 1..n : presented'[q] = presented[q]
      /\ presented'[n + 1].iv = key
    BY <1>1, <1>2, Presented DEF IvInv
<1>4. \A q \in 1..n : /\ Since(q)' = Since(q) \cup {key}
                      /\ IsFiniteSet(Since(q)')
                      /\ Cardinality(Since(q)) \in Nat
                      /\ Cardinality(Since(q)') \in Nat
                      /\ Cardinality(Since(q)) <= Cardinality(Since(q)')
    BY <1>1, <1>2, SinceMore, FS_CardinalityType DEF IvInv
<1>5. /\ Sound(ivCache') /\ CacheKeys(ivCache') = (CacheKeys(ivCache) \cup {key}) \ out
      /\ Cardinality(CacheKeys(ivCache')) < IvCapacity
      /\ out \subseteq CacheKeys(ivCache)
      /\ \A i, j \in CacheKeys(ivCache') :
             (<<i, j>> \in ivCache'.older) => i # key /\ (j = key \/ <<i, j>> \in ivCache.older)
    BY <1>1, InsertedSound, PathAssumption DEF IvInv, CacheOK
<1>6. CacheOK'
    BY <1>5 DEF CacheOK
<1>7. ASSUME NEW i \in CacheKeys(ivCache'), NEW j \in CacheKeys(ivCache'),
             <<i, j>> \in ivCache'.older,
             NEW q \in 1..n + 1, presented'[q].iv = i
      PROVE  j \in Since(q)'
    <2>1. i # key /\ (j = key \/ <<i, j>> \in ivCache.older)
        BY <1>5, <1>7
    <2>2. q \in 1..n
        BY <1>3, <1>7, <2>1
    <2>3. CASE j = key
        BY <1>4, <2>2, <2>3
    <2>4. CASE j # key
        <3>1. i \in CacheKeys(ivCache) /\ j \in CacheKeys(ivCache)
            BY <1>5, <2>1, <2>4
        <3> QED
            BY <1>2, <1>3, <1>4, <1>7, <2>1, <2>2, <2>4, <3>1 DEF IvInv, InOrder
    <2> QED
        BY <2>3, <2>4
<1>8. ASSUME NEW o \in out, NEW q \in 1..n, presented[q].iv = o
      PROVE  Cardinality(Since(q)') >= IvCapacity - 1
    <2>1. /\ out = {o}
          /\ Cardinality(CacheKeys(ivCache')) >= IvCapacity - 1
          /\ \A j \in CacheKeys(ivCache) \ {o} : <<o, j>> \in ivCache.older
        BY <1>1, EvictedOldest, PathAssumption DEF IvInv, CacheOK
    <2>2. ASSUME NEW j \in CacheKeys(ivCache') PROVE j \in Since(q)'
        <3>1. CASE j = key
            BY <1>4, <3>1
        <3>2. CASE j # key
            <4>1. j \in CacheKeys(ivCache) \ {o} /\ o \in CacheKeys(ivCache)
                BY <1>5, <2>1, <3>2
            <4>2. j \in Since(q)
                BY <1>2, <1>8, <2>1, <4>1 DEF IvInv, InOrder
            <4> QED
                BY <1>4, <4>2
        <3> QED
            BY <3>1, <3>2
    <2>3. CacheKeys(ivCache') \subseteq Since(q)'
        BY <2>2
    <2>4. /\ Cardinality(CacheKeys(ivCache')) \in Nat
          /\ Cardinality(CacheKeys(ivCache')) <= Cardinality(Since(q)')
        <3>1. IsFiniteSet(Since(q)')
            BY <1>4
        <3> QED
            BY <2>3, <3>1, FS_Subset, FS_CardinalityType
    <2> QED
        BY <1>4, <2>1, <2>4, PathAssumption
<1>9. ASSUME NEW q \in 1..n + 1
      PROVE  presented'[q].iv \in CacheKeys(ivCache') \/ Cardinality(Since(q)') >= IvCapacity - 1
    <2>1. CASE q \in 1..n
        <3>1. presented'[q].iv = presented[q].iv
            BY <1>3, <2>1
        <3>2. CASE presented[q].iv \in out
            BY <1>8, <2>1, <3>2
        <3>3. CASE presented[q].iv \in CacheKeys(ivCache) \ out
            BY <1>5, <3>1, <3>3
        <3>4. CASE presented[q].iv \notin CacheKeys(ivCache)
            <4>1. Cardinality(Since(q)) >= IvCapacity - 1
                BY <1>2, <2>1, <3>4 DEF IvInv, Forgotten
            <4> QED
                BY <1>4, <2>1, <4>1, PathAssumption
        <3> QED
            BY <3>2, <3>3, <3>4
    <2>2. CASE q = n + 1
        BY <1>1, <1>3, <1>5, <2>2
    <2> QED
        BY <2>1, <2>2
<1> QED
    BY <1>3, <1>6, <1>7, <1>9 DEF InOrder, Forgotten

LEMMA CheckedIv ==
    ASSUME IvInv, NEW key, Checked(key)
    PROVE  IvInv'
<1>1. HistoryOK'
    BY Presented DEF IvInv, Checked
<1> QED
    BY <1>1, FreshMore, PresentedAgain, PresentedAnew DEF IvInv

-----------------------------------------------------------------------------
(* Every other step leaves the cache alone. *)

LEMMA SameIv ==
    ASSUME IvInv, UNCHANGED crypto
    PROVE  IvInv'
BY DEF IvInv, crypto, CacheOK, HistoryOK, InOrder, Forgotten, IvFresh, Since

LEMMA ServerRecvIv ==
    ASSUME IvInv, NEW c, NEW k, ServerRecv(c, k)
    PROVE  IvInv'
<1>1. UNCHANGED crypto \/ \E key : Checked(key)
    BY DEF ServerRecv, DecryptFirst, DecryptMore
<1> QED
    BY <1>1, CheckedIv, SameIv

LEMMA InitIv == Init => IvInv
<1> SUFFICES ASSUME Init PROVE IvInv
    OBVIOUS
<1>1. presented = <<>> /\ ivCache = EmptyCache
    BY DEF Init
<1>2. presented \in Seq({})
    BY <1>1
<1>3. CacheOK
    BY <1>1, EmptyCacheSound, FS_EmptySet, PathAssumption DEF CacheOK
<1>4. CacheKeys(ivCache) = {}
    BY <1>1, EmptyCacheSound
<1> QED
    BY <1>1, <1>2, <1>3, <1>4 DEF IvInv, HistoryOK, InOrder, Forgotten, IvFresh

LEMMA NextIv == IvInv /\ [Next]_vars => IvInv'
<1> SUFFICES ASSUME IvInv, [Next]_vars PROVE IvInv'
    OBVIOUS
<1>1. ASSUME NEW c \in Conns, Writes(c) PROVE UNCHANGED crypto
    BY <1>1 DEF Writes, ClientWrite
<1>2. ASSUME NEW c \in Conns, ServerReads(c) PROVE \E k : ServerRecv(c, k)
    BY <1>2 DEF ServerReads, Read
<1>3. ASSUME NEW c \in Conns, ClientReads(c) PROVE UNCHANGED crypto
    <2>1. \E k : ClientRecv(c, k)
        BY <1>3 DEF ClientReads, Read
    <2> QED
        BY <2>1 DEF ClientRecv
<1>4. ASSUME NEW c \in Conns, Replies(c) PROVE UNCHANGED crypto
    BY <1>4 DEF Replies, RemoteRecv
<1>5. CASE UNCHANGED vars
    BY <1>5, SameIv DEF vars
<1> QED
    BY <1>1, <1>2, <1>3, <1>4, <1>5, SameIv, ServerRecvIv DEF Next

\* An IV that was presented is not accepted again before as many other keys
\* were presented as the cache has room for, whatever its capacity and however
\* many connections present them (cache_key_exist and cache_insert in
\* ss_decrypt).
THEOREM ReplaysRefused == Spec => []IvFresh
<1>1. IvInv => IvFresh
    BY DEF IvInv
<1> QED
    BY <1>1, InitIv, NextIv, PTL DEF Spec

-----------------------------------------------------------------------------
(* Sequences of atoms, and how a read cuts them.                           *)

Stream == Seq(AtomType)

LEMMA Joined ==
    ASSUME NEW x \in Stream, NEW y \in Stream
    PROVE  /\ x \o y \in Stream
           /\ Len(x) \in Nat /\ Len(y) \in Nat
           /\ Len(x \o y) = Len(x) + Len(y)
           /\ \A i \in 1..Len(x) : (x \o y)[i] = x[i]
           /\ \A i \in 1..Len(y) : (x \o y)[Len(x) + i] = y[i]
<1>1. /\ x \o y \in Stream
      /\ Len(x \o y) = Len(x) + Len(y)
      /\ \A i \in 1 .. Len(x) + Len(y) :
             (x \o y)[i] = IF i <= Len(x) THEN x[i] ELSE y[i - Len(x)]
    BY ConcatProperties DEF Stream
<1>2. PICK m \in Nat : Len(x) = m
    BY LenProperties DEF Stream
<1>3. PICK n \in Nat : Len(y) = n
    BY LenProperties DEF Stream
<1>4. ASSUME NEW i \in 1..m PROVE (x \o y)[i] = x[i]
    BY <1>1, <1>2, <1>3
<1>5. ASSUME NEW i \in 1..n PROVE (x \o y)[m + i] = y[i]
    <2>1. m + i \in 1..m + n /\ ~(m + i <= m) /\ m + i - m = i
        OBVIOUS
    <2> QED
        BY <1>1, <1>2, <1>3, <2>1
<1> QED
    BY <1>1, <1>2, <1>3, <1>4, <1>5

LEMMA Assoc ==
    ASSUME NEW x \in Stream, NEW y \in Stream, NEW z \in Stream
    PROVE  (x \o y) \o z = x \o (y \o z)
BY ConcatAssociative DEF Stream

LEMMA Nothing ==
    /\ <<>> \in Stream /\ Len(<<>>) = 0
    /\ \A x \in Stream : /\ x \o <<>> = x /\ <<>> \o x = x
                         /\ Len(x) \in Nat
                         /\ x = <<>> <=> Len(x) = 0
                         /\ \A i \in 1..Len(x) : x[i] \in AtomType
<1>1. ASSUME NEW x \in Stream
      PROVE  /\ x \o <<>> = x /\ <<>> \o x = x
             /\ Len(x) \in Nat
             /\ x = <<>> <=> Len(x) = 0
             /\ \A i \in 1..Len(x) : x[i] \in AtomType
    BY ConcatEmptySeq, LenProperties, EmptySeq, ElementOfSeq DEF Stream
<1> QED
    BY <1>1, EmptySeq DEF Stream

LEMMA Same ==
    ASSUME NEW x \in Stream, NEW y \in Stream, Len(x) = Len(y),
           \A i \in 1..Len(x) : x[i] = y[i]
    PROVE  x = y
BY SeqEqual DEF Stream

\* What a read takes and what it leaves.
LEMMA Cut ==
    ASSUME NEW x \in Stream, NEW k \in 0..Len(x)
    PROVE  /\ SubSeq(x, 1, k) \in Stream /\ SubSeq(x, k + 1, Len(x)) \in Stream
           /\ x = SubSeq(x, 1, k) \o SubSeq(x, k + 1, Len(x))
           /\ Len(SubSeq(x, 1, k)) = k /\ Len(SubSeq(x, k + 1, Len(x))) = Len(x) - k
           /\ \A i \in 1..k : SubSeq(x, 1, k)[i] = x[i]
           /\ \A i \in 1..(Len(x) - k) : SubSeq(x, k + 1, Len(x))[i] = x[k + i]
<1>1. PICK n \in Nat : Len(x) = n
    BY LenProperties DEF Stream
<1>2. k \in Nat /\ k \in Int /\ k <= n /\ k + 1 \in Int /\ n \in Int /\ 1 \in Int
    BY <1>1
<1>3. \A i \in 1..n : x[i] \in AtomType
    BY <1>1, ElementOfSeq DEF Stream
<1>4. /\ SubSeq(x, 1, k) \in Stream
      /\ Len(SubSeq(x, 1, k)) = IF 1 <= k THEN k - 1 + 1 ELSE 0
      /\ \A i \in 1..k - 1 + 1 : SubSeq(x, 1, k)[i] = x[1 + i - 1]
    <2>1. \A i \in 1..k : x[i] \in AtomType
        BY <1>2, <1>3
    <2> QED
        BY <1>2, <2>1, SubSeqProperties DEF Stream
<1>5. /\ SubSeq(x, k + 1, n) \in Stream
      /\ Len(SubSeq(x, k + 1, n)) = IF k + 1 <= n THEN n - (k + 1) + 1 ELSE 0
      /\ \A i \in 1..n - (k + 1) + 1 : SubSeq(x, k + 1, n)[i] = x[k + 1 + i - 1]
    <2>1. \A i \in k + 1..n : x[i] \in AtomType
        BY <1>2, <1>3
    <2> QED
        BY <1>2, <2>1, SubSeqProperties DEF Stream
<1>6. x = SubSeq(x, 1, k) \o SubSeq(x, k + 1, n)
    <2>1. 1 \in 1..n + 1 /\ k \in 1 - 1..n /\ n \in k..n
        BY <1>2
    <2>2. SubSeq(x, 1, k) \o SubSeq(x, k + 1, n) = SubSeq(x, 1, n)
        BY <1>1, <2>1, ConcatAdjacentSubSeq DEF Stream
    <2> QED
        BY <1>1, <2>2, SubSeqFull DEF Stream
<1>7. /\ \A i \in 1..k : SubSeq(x, 1, k)[i] = x[i]
      /\ Len(SubSeq(x, 1, k)) = k
    BY <1>2, <1>4
<1>8. /\ Len(SubSeq(x, k + 1, n)) = n - k
      /\ \A i \in 1..n - k : SubSeq(x, k + 1, n)[i] = x[k + i]
    <2>1. \A i \in 1..n - k : i \in 1..n - (k + 1) + 1 /\ k + 1 + i - 1 = k + i
        BY <1>2
    <2> QED
        BY <1>2, <1>5, <2>1
<1> QED
    BY <1>1, <1>4, <1>5, <1>6, <1>7, <1>8

\* Equal beginnings leave equal ends.
LEMMA SameEnds ==
    ASSUME NEW p \in Stream, NEW q \in Stream, NEW x \in Stream, NEW y \in Stream,
           p \o q = x \o y, Len(x) = Len(p)
    PROVE  p = x /\ q = y
<1>0. PICK m \in Nat : Len(x) = m
    BY Nothing
<1>1. Len(x) = m /\ Len(p) = m
    BY <1>0
<1>2. \A i \in 1..m : p[i] = x[i]
    <2> TAKE i \in 1..m
    <2>1. (p \o q)[i] = p[i]
        BY <1>1, Joined
    <2>2. (x \o y)[i] = x[i]
        BY <1>1, Joined
    <2> QED
        BY <2>1, <2>2
<1>3. p = x
    BY <1>1, <1>2, Same
<1>4. q = y
    BY <1>3, ConcatSimplifications DEF Stream
<1> QED
    BY <1>3, <1>4

\* What is laid end to end in two ways: the longer of the beginnings has the
\* shorter in front.
Within(x, p) == Len(x) <= Len(p)
Overlap(p, q, x, y) ==
    \E z \in Stream : p = x \o z /\ y = z \o q /\ z = SubSeq(p, Len(x) + 1, Len(p))

LEMMA Levi ==
    ASSUME NEW p \in Stream, NEW q \in Stream, NEW x \in Stream, NEW y \in Stream,
           p \o q = x \o y, Within(x, p)
    PROVE  Overlap(p, q, x, y)
<1>1. PICK m \in Nat : Len(x) = m
    BY Nothing
<1>2. PICK n \in Nat : Len(p) = n
    BY Nothing
<1>3. m \in 0..n
    BY <1>1, <1>2 DEF Within
<1>4. PICK h \in Stream, z \in Stream :
          p = h \o z /\ Len(h) = m /\ z = SubSeq(p, m + 1, n)
    BY <1>2, <1>3, Cut
<1>5. h \o (z \o q) = x \o y
    <2>1. (h \o z) \o q = h \o (z \o q)
        BY <1>4, Assoc
    <2> QED
        BY <1>4, <2>1
<1>6. h = x /\ z \o q = y
    <2>1. z \o q \in Stream
        BY <1>4, Joined
    <2> QED
        BY <1>1, <1>4, <1>5, <2>1, SameEnds
<1> QED
    BY <1>1, <1>2, <1>4, <1>6 DEF Overlap

-----------------------------------------------------------------------------
(* The plaintext of a connection: its IV and its units, numbered from 1.   *)

PlainAtom(v, i) == IF i = 1 THEN Mark("iv", v) ELSE Mark("data", i - 1)
Span(v, a, b) == [i \in 1..(b - a) |-> PlainAtom(v, a + i)]

LEMMA PlainType ==
    ASSUME NEW v \in Nat, NEW i \in Nat \ {0}
    PROVE  /\ PlainAtom(v, i) \in AtomType
           /\ PlainAtom(v, i).t = IF i = 1 THEN "iv" ELSE "data"
           /\ PlainAtom(v, i).t \in {"iv", "data"}
           /\ PlainAtom(v, i).v \in Nat
<1>1. CASE i = 1
    <2>1. PlainAtom(v, i) = [t |-> "iv", v |-> v]
        BY <1>1 DEF PlainAtom, Mark
    <2>2. PlainAtom(v, i) \in AtomType
        BY <2>1 DEF AtomType
    <2>3. PlainAtom(v, i).t = "iv"
        BY <2>1
    <2>4. PlainAtom(v, i).v = v
        BY <2>1
    <2> QED
        BY <1>1, <2>2, <2>3, <2>4 DEF AtomType
<1>2. CASE i # 1
    <2>0. PICK n \in Nat : n = i - 1
        BY <1>2
    <2>1. PlainAtom(v, i) = [t |-> "data", v |-> n]
        BY <1>2, <2>0 DEF PlainAtom, Mark
    <2>2. PlainAtom(v, i) \in AtomType
        BY <2>1 DEF AtomType
    <2>3. PlainAtom(v, i).t = "data"
        BY <2>1
    <2>4. PlainAtom(v, i).v = n
        BY <2>1
    <2> QED
        BY <1>2, <2>2, <2>3, <2>4 DEF AtomType
<1> QED
    BY <1>1, <1>2

LEMMA SpanType ==
    ASSUME NEW v \in Nat, NEW a \in Nat, NEW b \in Nat, a <= b
    PROVE  /\ Span(v, a, b) \in Stream /\ Len(Span(v, a, b)) = b - a
           /\ \A i \in 1..(b - a) : Span(v, a, b)[i] = PlainAtom(v, a + i)
<1>1. PICK n \in Nat : n = b - a
    OBVIOUS
<1>2. \A i \in 1..n : PlainAtom(v, a + i) \in AtomType
    <2>1. \A i \in 1..n : a + i \in Nat \ {0}
        OBVIOUS
    <2> QED
        BY <2>1, PlainType
<1> DEFINE s == [i \in 1..n |-> PlainAtom(v, a + i)]
<1>3. s \in Seq(AtomType) /\ Len(s) = n /\ \A i \in 1..n : s[i] = PlainAtom(v, a + i)
    BY <1>2
<1> QED
    BY <1>1, <1>3 DEF Span, Stream

LEMMA SpanNil == \A v, a : a \in Nat => Span(v, a, a) = <<>>
BY DEF Span

ReadsAs(x, v, a) == \A i \in 1..Len(x) : x[i] = PlainAtom(v, a + i)

LEMMA SpanIs ==
    ASSUME NEW v \in Nat, NEW a \in Nat, NEW b \in Nat, a <= b,
           NEW x \in Stream, Len(x) = b - a, ReadsAs(x, v, a)
    PROVE  x = Span(v, a, b)
<1>1. /\ Span(v, a, b) \in Stream /\ Len(Span(v, a, b)) = b - a
      /\ \A i \in 1..(b - a) : Span(v, a, b)[i] = PlainAtom(v, a + i)
    BY SpanType
<1>2. \A i \in 1..Len(x) : x[i] = Span(v, a, b)[i]
    BY <1>1 DEF ReadsAs
<1> QED
    BY <1>1, <1>2, Same

\* A stretch read in two.
SpanParts(v, a, b, p, q) ==
    \E e \in Nat : /\ a <= e /\ e <= b /\ Len(p) = e - a
                   /\ p = Span(v, a, e) /\ q = Span(v, e, b)

LEMMA SpanSplit ==
    ASSUME NEW v \in Nat, NEW a \in Nat, NEW b \in Nat, a <= b,
           NEW p \in Stream, NEW q \in Stream, p \o q = Span(v, a, b)
    PROVE  SpanParts(v, a, b, p, q)
<1>1. PICK m \in Nat : Len(p) = m
    BY Nothing
<1>2. PICK n \in Nat : Len(q) = n
    BY Nothing
<1>3. /\ Len(Span(v, a, b)) = b - a
      /\ \A i \in 1..(b - a) : Span(v, a, b)[i] = PlainAtom(v, a + i)
    BY SpanType
<1>4. b - a = m + n
    <2>1. Len(p \o q) = Len(p) + Len(q)
        BY Joined
    <2> QED
        BY <1>1, <1>2, <1>3, <2>1
<1>7. PICK e \in Nat : a <= e /\ e <= b /\ m = e - a /\ n = b - e
    <2>1. a + m \in Nat /\ a <= a + m /\ a + m <= b /\ m = (a + m) - a /\ n = b - (a + m)
        BY <1>4
    <2> QED
        BY <2>1
<1>5. ReadsAs(p, v, a)
    <2> SUFFICES ASSUME NEW i \in 1..m PROVE p[i] = PlainAtom(v, a + i)
        BY <1>1 DEF ReadsAs
    <2>1. (p \o q)[i] = p[i]
        BY <1>1, Joined
    <2>2. i \in 1..(b - a)
        BY <1>4
    <2> QED
        BY <1>3, <2>1, <2>2
<1>6. ReadsAs(q, v, e)
    <2> SUFFICES ASSUME NEW i \in 1..n PROVE q[i] = PlainAtom(v, e + i)
        BY <1>2 DEF ReadsAs
    <2>1. (p \o q)[m + i] = q[i]
        BY <1>1, <1>2, Joined
    <2>2. m + i \in 1..(b - a) /\ a + (m + i) = e + i
        BY <1>4, <1>7
    <2>3. Span(v, a, b)[m + i] = PlainAtom(v, a + (m + i))
        BY <1>3, <2>2
    <2> QED
        BY <2>1, <2>2, <2>3
<1>8. p = Span(v, a, e)
    <2>1. Len(p) = e - a
        BY <1>1, <1>7
    <2> QED
        BY <1>5, <1>7, <2>1, SpanIs
<1>9. q = Span(v, e, b)
    <2>1. Len(q) = b - e
        BY <1>2, <1>7
    <2> QED
        BY <1>6, <1>7, <2>1, SpanIs
<1> QED
    BY <1>1, <1>7, <1>8, <1>9 DEF SpanParts

LEMMA SpanJoin ==
    ASSUME NEW v \in Nat, NEW a \in Nat, NEW b \in Nat, NEW d \in Nat, a <= b, b <= d
    PROVE  Span(v, a, b) \o Span(v, b, d) = Span(v, a, d)
<1>1. a <= d
    OBVIOUS
<1>2. Span(v, a, d) \in Stream /\ Len(Span(v, a, d)) = d - a
    BY <1>1, SpanType
<1>3. PICK k \in 0..(d - a) : k = b - a
    <2>1. b - a \in 0..(d - a)
        OBVIOUS
    <2> QED
        BY <2>1
<1>4. PICK p \in Stream, q \in Stream : p \o q = Span(v, a, d) /\ Len(p) = k
    BY <1>2, Cut
<1>7. SpanParts(v, a, d, p, q)
    BY <1>1, <1>4, SpanSplit
<1>5. PICK e \in Nat : Len(p) = e - a /\ p = Span(v, a, e) /\ q = Span(v, e, d)
    BY <1>7 DEF SpanParts
<1>6. e = b
    BY <1>3, <1>4, <1>5
<1> QED
    BY <1>4, <1>5, <1>6

LEMMA UnitsAre ==
    ASSUME NEW v \in Nat, NEW m \in Nat, NEW n \in Nat
    PROVE  Units(m, n) = Span(v, m + 1, m + n + 1)
<1>1. (m + n + 1) - (m + 1) = n
    OBVIOUS
<1>2. \A i \in 1..n : PlainAtom(v, m + 1 + i) = Mark("data", m + i)
    <2>1. \A i \in 1..n : m + 1 + i # 1 /\ m + 1 + i - 1 = m + i
        OBVIOUS
    <2> QED
        BY <2>1 DEF PlainAtom
<1> QED
    BY <1>1, <1>2 DEF Units, Span

-----------------------------------------------------------------------------
(* Records laid end to end.                                                *)

HeadAtom(n) == [t |-> "head", v |-> n]

LEMMA One ==
    ASSUME NEW a \in AtomType
    PROVE  <<a>> \in Stream /\ Len(<<a>>) = 1 /\ <<a>>[1] = a
BY DEF Stream

LEMMA RecordType ==
    ASSUME NEW x \in Stream
    PROVE  /\ Record(x) \in Stream /\ Len(x) \in Nat /\ Len(Record(x)) = Len(x) + 1
           /\ Record(x)[1].t = "head" /\ Record(x)[1].v = Len(x)
           /\ Record(x) = <<HeadAtom(Len(x))>> \o x
           /\ <<HeadAtom(Len(x))>> \in Stream /\ Len(<<HeadAtom(Len(x))>>) = 1
<1>1. PICK n \in Nat : Len(x) = n
    BY Nothing
<1>2. HeadAtom(n) \in AtomType /\ HeadAtom(n).t = "head" /\ HeadAtom(n).v = n
    BY DEF HeadAtom, AtomType
<1>3. Record(x) = <<HeadAtom(n)>> \o x
    BY <1>1 DEF Record, HeadAtom
<1>4. <<HeadAtom(n)>> \in Stream /\ Len(<<HeadAtom(n)>>) = 1 /\ <<HeadAtom(n)>>[1] = HeadAtom(n)
    BY <1>2, One
<1>5. Record(x) \in Stream /\ Len(Record(x)) = 1 + n
    <2>1. /\ <<HeadAtom(n)>> \o x \in Stream
          /\ Len(<<HeadAtom(n)>> \o x) = Len(<<HeadAtom(n)>>) + Len(x)
        BY <1>4, Joined
    <2> QED
        BY <1>1, <1>3, <1>4, <2>1
<1>6. Record(x)[1] = HeadAtom(n)
    <2>1. 1 \in 1..Len(<<HeadAtom(n)>>)
        BY <1>4
    <2> QED
        BY <1>3, <1>4, <2>1, Joined
<1> QED
    BY <1>1, <1>2, <1>3, <1>4, <1>5, <1>6

\* A stretch of the plaintext as records of any lengths: x has what lies
\* between the places a and b.  It is the least relation that holds of nothing,
\* and of what it holds of with a record more in front.
Behind(v, x, m, a) == Record(Span(v, m, a)) \o x
Places == Stream \X Nat \X Nat
Closed(v, F) ==
    /\ F \subseteq Places
    /\ \A a \in Nat : <<<<>>, a, a>> \in F
    /\ \A x \in Stream, m, a, b \in Nat :
          m <= a /\ <<x, a, b>> \in F => <<Behind(v, x, m, a), m, b>> \in F
Framed(v, x, a, b) == \A F : Closed(v, F) => <<x, a, b>> \in F

LEMMA BehindType ==
    ASSUME NEW v \in Nat, NEW x \in Stream, NEW m \in Nat, NEW a \in Nat, m <= a
    PROVE  /\ Behind(v, x, m, a) \in Stream /\ Record(Span(v, m, a)) \in Stream
           /\ Len(Record(Span(v, m, a))) = a - m + 1
           /\ Behind(v, x, m, a) = Record(Span(v, m, a)) \o x
<1>1. Span(v, m, a) \in Stream /\ Len(Span(v, m, a)) = a - m
    BY SpanType
<1>2. Record(Span(v, m, a)) \in Stream /\ Len(Record(Span(v, m, a))) = Len(Span(v, m, a)) + 1
    BY <1>1, RecordType
<1> QED
    BY <1>1, <1>2, Joined DEF Behind

LEMMA FramedType ==
    ASSUME NEW v \in Nat, NEW x, NEW a, NEW b, Framed(v, x, a, b)
    PROVE  x \in Stream /\ a \in Nat /\ b \in Nat /\ a <= b
<1> DEFINE F == {p \in Places : p[2] <= p[3]}
<1>1. F \subseteq Places
    OBVIOUS
<1>2. ASSUME NEW n \in Nat PROVE <<<<>>, n, n>> \in F
    BY Nothing DEF Places
<1>3. ASSUME NEW y \in Stream, NEW m \in Nat, NEW n \in Nat, NEW d \in Nat,
             m <= n, <<y, n, d>> \in F
      PROVE  <<Behind(v, y, m, n), m, d>> \in F
    <2>1. n <= d
        BY <1>3
    <2>2. m <= d
        BY <1>3, <2>1
    <2>3. Behind(v, y, m, n) \in Stream
        BY <1>3, BehindType
    <2> QED
        BY <2>2, <2>3 DEF Places
<1>4. Closed(v, F)
    BY <1>1, <1>2, <1>3 DEF Closed
<1>5. <<x, a, b>> \in F
    BY <1>4 DEF Framed
<1> QED
    BY <1>5 DEF Places

LEMMA FramedNil ==
    ASSUME NEW v \in Nat, NEW a \in Nat
    PROVE  Framed(v, <<>>, a, a)
BY DEF Framed, Closed

LEMMA FramedMore ==
    ASSUME NEW v \in Nat, NEW m \in Nat, NEW a \in Nat, m <= a,
           NEW x, NEW b, Framed(v, x, a, b)
    PROVE  Framed(v, Behind(v, x, m, a), m, b)
<1>1. x \in Stream /\ b \in Nat
    BY FramedType
<1>2. ASSUME NEW F, Closed(v, F) PROVE <<Behind(v, x, m, a), m, b>> \in F
    <2>1. <<x, a, b>> \in F
        BY <1>2 DEF Framed
    <2> QED
        BY <1>1, <1>2, <2>1 DEF Closed
<1> QED
    BY <1>2 DEF Framed

LEMMA FramedRecord ==
    ASSUME NEW v \in Nat, NEW a \in Nat, NEW b \in Nat, a <= b
    PROVE  Framed(v, Record(Span(v, a, b)), a, b)
<1>1. Framed(v, <<>>, b, b)
    BY FramedNil
<1>2. Framed(v, Behind(v, <<>>, a, b), a, b)
    BY <1>1, FramedMore
<1>3. Behind(v, <<>>, a, b) = Record(Span(v, a, b))
    <2>1. Record(Span(v, a, b)) \in Stream
        BY Nothing, BehindType
    <2> QED
        BY <2>1, Nothing DEF Behind
<1> QED
    BY <1>2, <1>3

\* The first record, and what is behind it.
First(v, x, a, b) ==
    \/ x = <<>> /\ a = b
    \/ \E y \in Stream, m \in Nat :
          a <= m /\ m <= b /\ x = Behind(v, y, a, m) /\ Framed(v, y, m, b)

LEMMA FramedFirst ==
    ASSUME NEW v \in Nat, NEW x, NEW a, NEW b, Framed(v, x, a, b)
    PROVE  First(v, x, a, b)
<1> DEFINE F == {p \in Places : First(v, p[1], p[2], p[3]) /\ Framed(v, p[1], p[2], p[3])}
<1>0. \A y \in Stream, n, d \in Nat :
          <<y, n, d>> \in F <=> First(v, y, n, d) /\ Framed(v, y, n, d)
    BY DEF Places
<1>1. F \subseteq Places
    OBVIOUS
<1> HIDE DEF F
<1>2. ASSUME NEW n \in Nat PROVE <<<<>>, n, n>> \in F
    BY <1>0, Nothing, FramedNil DEF First
<1>3. ASSUME NEW y \in Stream, NEW m \in Nat, NEW n \in Nat, NEW d \in Nat,
             m <= n, <<y, n, d>> \in F
      PROVE  <<Behind(v, y, m, n), m, d>> \in F
    <2>1. Framed(v, y, n, d)
        BY <1>0, <1>3
    <2>2. Framed(v, Behind(v, y, m, n), m, d)
        BY <1>3, <2>1, FramedMore
    <2>3. Behind(v, y, m, n) \in Stream
        BY <1>3, BehindType
    <2>4. n <= d
        BY <2>1, FramedType
    <2>5. First(v, Behind(v, y, m, n), m, d)
        BY <1>3, <2>1, <2>4 DEF First
    <2> QED
        BY <1>0, <2>2, <2>3, <2>5
<1>4. Closed(v, F)
    BY <1>1, <1>2, <1>3 DEF Closed
<1>5. <<x, a, b>> \in F
    BY <1>4 DEF Framed
<1>6. x \in Stream /\ a \in Nat /\ b \in Nat
    BY FramedType
<1> QED
    BY <1>0, <1>5, <1>6

LEMMA FramedJoin ==
    ASSUME NEW v \in Nat, NEW x, NEW a, NEW b, Framed(v, x, a, b),
           NEW y, NEW d, Framed(v, y, b, d)
    PROVE  Framed(v, x \o y, a, d)
<1>0. x \in Stream /\ a \in Nat /\ b \in Nat /\ y \in Stream /\ d \in Nat
    BY FramedType
<1> DEFINE F == {p \in Places : p[3] = b => Framed(v, p[1] \o y, p[2], d)}
<1>1. F \subseteq Places
    OBVIOUS
<1>2. \A z \in Stream, n, e \in Nat :
          <<z, n, e>> \in F <=> (e = b => Framed(v, z \o y, n, d))
    BY DEF Places
<1> HIDE DEF F
<1>3. ASSUME NEW n \in Nat PROVE <<<<>>, n, n>> \in F
    <2>1. <<>> \o y = y
        BY <1>0, Nothing
    <2> QED
        BY <1>2, <2>1, Nothing
<1>4. ASSUME NEW z \in Stream, NEW m \in Nat, NEW n \in Nat, NEW e \in Nat,
             m <= n, <<z, n, e>> \in F
      PROVE  <<Behind(v, z, m, n), m, e>> \in F
    <2>1. Behind(v, z, m, n) \in Stream
        BY <1>4, BehindType
    <2>2. ASSUME e = b PROVE Framed(v, Behind(v, z, m, n) \o y, m, d)
        <3>1. Framed(v, z \o y, n, d)
            BY <1>2, <1>4, <2>2
        <3>2. Framed(v, Behind(v, z \o y, m, n), m, d)
            BY <1>4, <3>1, FramedMore
        <3>3. Record(Span(v, m, n)) \in Stream
            BY <1>4, BehindType
        <3>4. (Record(Span(v, m, n)) \o z) \o y = Record(Span(v, m, n)) \o (z \o y)
            BY <1>0, <3>3, Assoc
        <3> QED
            BY <3>2, <3>4 DEF Behind
    <2> QED
        BY <1>2, <2>1, <2>2
<1>5. Closed(v, F)
    BY <1>1, <1>3, <1>4 DEF Closed
<1>6. <<x, a, b>> \in F
    BY <1>5 DEF Framed
<1> QED
    BY <1>0, <1>2, <1>6

-----------------------------------------------------------------------------
(* The parser of records: the unfolding of its recursive function, by      *)
(* induction on the length of what is left of the buffer.                  *)

LEMMA AtomNumber == \A a \in AtomType : a.v \in Nat
BY DEF AtomType

\* The natural numbers are well founded.
LEMMA LeastNat ==
    ASSUME NEW T \in SUBSET Nat, T # {}
    PROVE  \E m \in T : \A k \in T : m <= k
<1> DEFINE R == OpToRel(<, Nat)
<1>1. IsWellFoundedOn(R, Nat)
    BY NatLessThanWellFounded
<1>2. R = {p \in Nat \X Nat : p[1] < p[2]}
    BY DEF OpToRel
<1> HIDE DEF R
<1>3. PICK m \in T : \A k \in T : <<k, m>> \notin R
    BY <1>1, WFMin
<1>4. ASSUME NEW k \in T PROVE m <= k
    <2>1. k \in Nat /\ m \in Nat
        OBVIOUS
    <2>2. <<k, m>> \notin R
        BY <1>3
    <2>3. ~(k < m)
        BY <2>1, <2>2, <1>2
    <2> QED
        BY <2>1, <2>3
<1> QED
    BY <1>4

LEMMA InductNat ==
    ASSUME NEW T \in SUBSET Nat, 0 \in T, \A n \in T : n + 1 \in T
    PROVE  T = Nat
<1> SUFFICES ASSUME Nat \ T # {} PROVE FALSE
    OBVIOUS
<1>1. PICK m \in Nat \ T : \A k \in Nat \ T : m <= k
    BY LeastNat
<1>2. m # 0 /\ m - 1 \in Nat
    BY <1>1
<1>3. m - 1 \in T
    BY <1>1, <1>2
<1> QED
    BY <1>1, <1>2, <1>3

\* the last n atoms
Suffix(buf, n) == SubSeq(buf, Len(buf) - n + 1, Len(buf))

LEMMA SuffixType ==
    ASSUME NEW x \in Stream, NEW n \in Nat, n <= Len(x)
    PROVE  /\ Suffix(x, n) \in Stream /\ Len(Suffix(x, n)) = n
           /\ \A i \in 1..n : Suffix(x, n)[i] = x[Len(x) - n + i]
           /\ n = Len(x) => Suffix(x, n) = x
<1>1. PICK l \in Nat : Len(x) = l
    BY Nothing
<1>2. PICK k \in 0..l : k = l - n
    <2>1. l - n \in 0..l
        BY <1>1
    <2> QED
        BY <2>1
<1>3. Suffix(x, n) = SubSeq(x, k + 1, l)
    BY <1>1, <1>2 DEF Suffix
<1>4. /\ SubSeq(x, k + 1, l) \in Stream /\ Len(SubSeq(x, k + 1, l)) = l - k
      /\ \A i \in 1..(l - k) : SubSeq(x, k + 1, l)[i] = x[k + i]
    BY <1>1, Cut
<1>5. l - k = n
    BY <1>2
<1>6. ASSUME n = l PROVE Suffix(x, n) = x
    <2>1. k = 0
        BY <1>2, <1>6
    <2>2. SubSeq(x, 1, l) = x
        BY <1>1, SubSeqFull DEF Stream
    <2> QED
        BY <1>3, <2>1, <2>2
<1> QED
    BY <1>1, <1>2, <1>3, <1>4, <1>5, <1>6

LEMMA SuffixOfJoined ==
    ASSUME NEW x \in Stream, NEW y \in Stream, NEW n \in Nat, n <= Len(y)
    PROVE  Suffix(x \o y, n) = Suffix(y, n)
<1>1. PICK l \in Nat : Len(x) = l
    BY Nothing
<1>2. PICK m \in Nat : Len(y) = m
    BY Nothing
<1>3. x \o y \in Stream /\ Len(x \o y) = l + m
    BY <1>1, <1>2, Joined
<1>4. PICK z \in Stream : z = x \o y /\ Len(z) = l + m
    BY <1>3
<1>5. /\ Suffix(x \o y, n) \in Stream /\ Len(Suffix(x \o y, n)) = n
      /\ \A i \in 1..n : Suffix(x \o y, n)[i] = (x \o y)[l + m - n + i]
    <2>1. n <= Len(z)
        BY <1>2, <1>4
    <2>2. /\ Suffix(z, n) \in Stream /\ Len(Suffix(z, n)) = n
          /\ \A i \in 1..n : Suffix(z, n)[i] = z[Len(z) - n + i]
        BY <2>1, SuffixType
    <2>3. \A i \in 1..n : Suffix(z, n)[i] = z[l + m - n + i]
        BY <1>4, <2>2
    <2> QED
        BY <1>4, <2>2, <2>3
<1>6. /\ Suffix(y, n) \in Stream /\ Len(Suffix(y, n)) = n
      /\ \A i \in 1..n : Suffix(y, n)[i] = y[m - n + i]
    BY <1>2, SuffixType
<1>7. ASSUME NEW i \in 1..n PROVE Suffix(x \o y, n)[i] = Suffix(y, n)[i]
    <2>1. PICK j \in 1..m : j = m - n + i
        <3>1. m - n + i \in 1..m
            BY <1>2
        <3> QED
            BY <3>1
    <2>2. l + m - n + i = l + j
        BY <2>1
    <2>3. (x \o y)[l + j] = y[j]
        BY <1>1, <1>2, Joined
    <2> QED
        BY <1>5, <1>6, <2>1, <2>2, <2>3
<1> QED
    BY <1>5, <1>6, <1>7, Same

\* what Unpack does with the last n atoms
Peeled(rest, n, from) ==
    IF n <= 1 THEN Unpacked(TRUE, rest, <<>>)
    ELSE IF rest[1].t # "head" THEN Unpacked(FALSE, rest, <<>>)
    ELSE IF rest[1].v + 1 > n THEN Unpacked(TRUE, rest, <<>>)
    ELSE [from[n - rest[1].v - 1] EXCEPT !.out = SubSeq(rest, 2, rest[1].v + 1) \o @]

IsUnpack(f, m, buf) == f = [n \in 0..m |-> Peeled(Suffix(buf, n), n, f)]

Agree(f, g, n) == \A j \in 0..n - 1 : f[j] = g[j]

LEMMA PeeledSame ==
    ASSUME NEW x \in Stream, NEW n \in Nat, Len(x) = n, NEW f, NEW g, Agree(f, g, n)
    PROVE  Peeled(x, n, f) = Peeled(x, n, g)
<1>1. CASE n <= 1
    BY <1>1 DEF Peeled
<1>2. CASE ~(n <= 1)
    <2>1. PICK k \in Nat : x[1].v = k
        <3>1. 1 \in 1..Len(x)
            BY <1>2
        <3> QED
            BY <3>1, Nothing, AtomNumber
    <2>2. CASE x[1].t = "head" /\ ~(k + 1 > n)
        <3>1. n - k - 1 \in 0..n - 1
            BY <2>2
        <3>2. f[n - k - 1] = g[n - k - 1]
            BY <3>1 DEF Agree
        <3> QED
            BY <2>1, <3>2 DEF Peeled
    <2>3. CASE ~(x[1].t = "head" /\ ~(k + 1 > n))
        BY <1>2, <2>1, <2>3 DEF Peeled
    <2> QED
        BY <2>2, <2>3
<1> QED
    BY <1>1, <1>2

LEMMA UnpackExists ==
    ASSUME NEW buf \in Stream, NEW m \in Nat, m <= Len(buf)
    PROVE  \E f : IsUnpack(f, m, buf)
<1>0. PICK l \in Nat : Len(buf) = l
    BY Nothing
<1> DEFINE T == {n \in Nat : n <= l => \E f : IsUnpack(f, n, buf)}
<1>1. 0 \in T
    <2> DEFINE f == [n \in 0..0 |-> Unpacked(TRUE, Suffix(buf, n), <<>>)]
    <2>1. \A n \in 0..0 : Peeled(Suffix(buf, n), n, f) = Unpacked(TRUE, Suffix(buf, n), <<>>)
        BY DEF Peeled
    <2>2. IsUnpack(f, 0, buf)
        BY <2>1 DEF IsUnpack
    <2> HIDE DEF f
    <2> QED
        BY <2>2
<1>2. ASSUME NEW n \in T PROVE n + 1 \in T
    <2> SUFFICES ASSUME n + 1 <= l PROVE \E f : IsUnpack(f, n + 1, buf)
        OBVIOUS
    <2>1. PICK f : IsUnpack(f, n, buf)
        BY <1>2
    <2>2. n \in Nat
        OBVIOUS
    <2> DEFINE h == [i \in 0..n + 1 |->
                        IF i <= n THEN f[i] ELSE Peeled(Suffix(buf, i), i, f)]
    <2>3. ASSUME NEW i \in 0..n + 1
          PROVE  h[i] = Peeled(Suffix(buf, i), i, h)
        <3>1. h[i] = Peeled(Suffix(buf, i), i, f)
            <4>1. CASE i <= n
                <5>1. i \in 0..n /\ h[i] = f[i]
                    BY <2>2, <4>1
                <5> QED
                    BY <2>1, <5>1 DEF IsUnpack
            <4>2. CASE ~(i <= n)
                BY <4>2
            <4> QED
                BY <4>1, <4>2
        <3>2. Agree(f, h, i)
            <4>1. \A j \in 0..i - 1 : j \in 0..n + 1 /\ j <= n
                BY <2>2
            <4> QED
                BY <4>1 DEF Agree
        <3>3. i \in Nat /\ i <= l
            BY <2>2
        <3>4. Suffix(buf, i) \in Stream /\ Len(Suffix(buf, i)) = i
            BY <1>0, <3>3, SuffixType
        <3> HIDE DEF h
        <3>5. Peeled(Suffix(buf, i), i, f) = Peeled(Suffix(buf, i), i, h)
            BY <3>2, <3>3, <3>4, PeeledSame
        <3> QED
            BY <3>1, <3>5
    <2>4. IsUnpack(h, n + 1, buf)
        BY <2>3 DEF IsUnpack
    <2> HIDE DEF h
    <2> QED
        BY <2>4
<1> HIDE DEF T
<1>3. T = Nat
    <2>1. T \in SUBSET Nat
        BY DEF T
    <2> QED
        BY <1>1, <1>2, <2>1, InductNat
<1> QED
    BY <1>0, <1>3 DEF T

LEMMA UnpackIs ==
    ASSUME NEW buf \in Stream
    PROVE  \E f : IsUnpack(f, Len(buf), buf) /\ Unpack(buf) = f[Len(buf)]
<1>1. PICK g : IsUnpack(g, Len(buf), buf)
    <2>1. Len(buf) \in Nat
        BY Nothing
    <2>2. Len(buf) <= Len(buf)
        BY <2>1
    <2> QED
        BY <2>1, <2>2, UnpackExists
<1> DEFINE f == CHOOSE from : from = [n \in 0..Len(buf) |->
                    LET rest == SubSeq(buf, Len(buf) - n + 1, Len(buf))
                    IN IF n <= 1 THEN Unpacked(TRUE, rest, <<>>)
                       ELSE IF rest[1].t # "head" THEN Unpacked(FALSE, rest, <<>>)
                       ELSE IF rest[1].v + 1 > n THEN Unpacked(TRUE, rest, <<>>)
                       ELSE [from[n - rest[1].v - 1] EXCEPT
                                !.out = SubSeq(rest, 2, rest[1].v + 1) \o @]]
<1>2. Unpack(buf) = f[Len(buf)]
    BY DEF Unpack
<1>3. f = CHOOSE from : from = [n \in 0..Len(buf) |-> Peeled(Suffix(buf, n), n, from)]
    BY DEF Peeled, Suffix
<1> HIDE DEF f
<1>4. g = [n \in 0..Len(buf) |-> Peeled(Suffix(buf, n), n, g)]
    BY <1>1 DEF IsUnpack
<1>5. f = [n \in 0..Len(buf) |-> Peeled(Suffix(buf, n), n, f)]
    BY <1>3, <1>4
<1> QED
    BY <1>2, <1>5 DEF IsUnpack

SameOn(f, g, n) == \A j \in 0..n : f[j] = g[j]

LEMMA UnpackAgrees ==
    ASSUME NEW x \in Stream, NEW y \in Stream,
           NEW f, IsUnpack(f, Len(x \o y), x \o y),
           NEW g, IsUnpack(g, Len(y), y)
    PROVE  SameOn(f, g, Len(y))
<1>1. PICK l \in Nat : Len(x) = l
    BY Nothing
<1>2. PICK m \in Nat : Len(y) = m
    BY Nothing
<1>3. x \o y \in Stream /\ Len(x \o y) = l + m
    BY <1>1, <1>2, Joined
<1> SUFFICES ASSUME {n \in 0..m : f[n] # g[n]} # {} PROVE FALSE
    BY <1>2 DEF SameOn
<1> DEFINE T == {n \in 0..m : f[n] # g[n]}
<1>4. T \in SUBSET Nat /\ T # {}
    OBVIOUS
<1> HIDE DEF T
<1>5. PICK n \in T : \A k \in T : n <= k
    BY <1>4, LeastNat
<1>6. n \in 0..m /\ f[n] # g[n]
    BY <1>5 DEF T
<1>7. Suffix(x \o y, n) = Suffix(y, n) /\ Suffix(y, n) \in Stream /\ Len(Suffix(y, n)) = n
    <2>1. n \in Nat /\ n <= Len(y)
        BY <1>2, <1>6
    <2> QED
        BY <2>1, SuffixType, SuffixOfJoined
<1>8. f[n] = Peeled(Suffix(y, n), n, f)
    <2>1. n \in 0..l + m
        BY <1>6
    <2> QED
        BY <1>3, <1>7, <2>1 DEF IsUnpack
<1>9. g[n] = Peeled(Suffix(y, n), n, g)
    BY <1>2, <1>6 DEF IsUnpack
<1>10. Agree(f, g, n)
    <2>1. ASSUME NEW j \in 0..n - 1 PROVE f[j] = g[j]
        <3>1. j \in 0..m /\ ~(n <= j)
            BY <1>6
        <3>2. j \notin T
            BY <1>5, <3>1
        <3> QED
            BY <3>1, <3>2 DEF T
    <2> QED
        BY <2>1 DEF Agree
<1> QED
    <2>1. n \in Nat
        BY <1>6
    <2> QED
        BY <1>6, <1>7, <1>8, <1>9, <1>10, <2>1, PeeledSame

\* It is a result whatever it has read.
Shaped(u) == \E ok \in BOOLEAN : \E rest, out : u = Unpacked(ok, rest, out)

LEMMA LongerOut ==
    ASSUME NEW ok, NEW rest, NEW out, NEW u, u = Unpacked(ok, rest, out), NEW y
    PROVE  [u EXCEPT !.out = y \o @] = Unpacked(ok, rest, y \o out)
<1>1. u = [ok |-> ok, rest |-> rest, out |-> out] /\ u.out = out
    BY DEF Unpacked
<1>2. PICK z : z = y \o out
    OBVIOUS
<1>3. [u EXCEPT !.out = y \o @] = [u EXCEPT !.out = z]
    BY <1>1, <1>2
<1>4. [u EXCEPT !.out = z] = [ok |-> ok, rest |-> rest, out |-> z]
    BY <1>1
<1> QED
    BY <1>2, <1>3, <1>4 DEF Unpacked

LEMMA PeeledShaped ==
    ASSUME NEW x \in Stream, NEW n \in Nat, Len(x) = n, NEW f, \A j \in 0..n - 1 : Shaped(f[j])
    PROVE  Shaped(Peeled(x, n, f))
<1>1. \A ok \in BOOLEAN : \A rest, out : Shaped(Unpacked(ok, rest, out))
    BY DEF Shaped
<1>2. CASE n <= 1
    BY <1>1, <1>2 DEF Peeled
<1>3. CASE ~(n <= 1)
    <2>1. PICK k \in Nat : x[1].v = k
        <3>1. 1 \in 1..Len(x)
            BY <1>3
        <3> QED
            BY <3>1, Nothing, AtomNumber
    <2>2. CASE x[1].t = "head" /\ ~(k + 1 > n)
        <3>1. n - k - 1 \in 0..n - 1
            BY <2>2
        <3>2. PICK ok, rest, out : /\ ok \in BOOLEAN
                                /\ f[n - k - 1] = Unpacked(ok, rest, out)
            BY <3>1 DEF Shaped
        <3>3. PICK y : y = SubSeq(x, 2, k + 1)
            OBVIOUS
        <3>4. PICK u : u = f[n - k - 1]
            OBVIOUS
        <3>5. Peeled(x, n, f) = [u EXCEPT !.out = y \o @]
            BY <1>3, <2>1, <2>2, <3>3, <3>4 DEF Peeled
        <3>6. Peeled(x, n, f) = Unpacked(ok, rest, y \o out)
            <4>1. u = Unpacked(ok, rest, out)
                BY <3>2, <3>4
            <4>2. [u EXCEPT !.out = y \o @] = Unpacked(ok, rest, y \o out)
                BY <4>1, LongerOut
            <4> QED
                BY <3>5, <4>2
        <3> QED
            BY <1>1, <3>2, <3>6
    <2>3. CASE ~(x[1].t = "head" /\ ~(k + 1 > n))
        BY <1>1, <1>3, <2>1, <2>3 DEF Peeled
    <2> QED
        BY <2>2, <2>3
<1> QED
    BY <1>2, <1>3

LEMMA UnpackShaped ==
    ASSUME NEW x \in Stream, NEW f, IsUnpack(f, Len(x), x)
    PROVE  \A n \in 0..Len(x) : Shaped(f[n])
<1>1. PICK m \in Nat : Len(x) = m
    BY Nothing
<1> SUFFICES ASSUME {n \in 0..m : ~Shaped(f[n])} # {} PROVE FALSE
    BY <1>1
<1> DEFINE T == {n \in 0..m : ~Shaped(f[n])}
<1>2. T \in SUBSET Nat /\ T # {}
    OBVIOUS
<1> HIDE DEF T
<1>3. PICK n \in T : \A k \in T : n <= k
    BY <1>2, LeastNat
<1>4. n \in 0..m /\ ~Shaped(f[n]) /\ n \in Nat
    BY <1>3 DEF T
<1>5. Suffix(x, n) \in Stream /\ Len(Suffix(x, n)) = n
    <2>1. n <= Len(x)
        BY <1>1, <1>4
    <2> QED
        BY <1>4, <2>1, SuffixType
<1>6. f[n] = Peeled(Suffix(x, n), n, f)
    BY <1>1, <1>4 DEF IsUnpack
<1>7. ASSUME NEW j \in 0..n - 1 PROVE Shaped(f[j])
    <2>1. j \in 0..m /\ ~(n <= j)
        BY <1>4
    <2>2. j \notin T
        BY <1>3, <2>1
    <2> QED
        BY <2>1, <2>2 DEF T
<1> QED
    BY <1>4, <1>5, <1>6, <1>7, PeeledShaped

LEMMA UnpackPeels ==
    ASSUME NEW buf \in Stream
    PROVE  \E f : IsUnpack(f, Len(buf), buf) /\ Unpack(buf) = Peeled(buf, Len(buf), f)
<1>1. PICK f : IsUnpack(f, Len(buf), buf) /\ Unpack(buf) = f[Len(buf)]
    BY UnpackIs
<1>2. PICK n \in Nat : Len(buf) = n
    BY Nothing
<1>3. n <= n /\ n \in 0..n
    OBVIOUS
<1>4. Suffix(buf, n) = buf
    BY <1>2, <1>3, SuffixType
<1>5. f[n] = Peeled(Suffix(buf, n), n, f)
    BY <1>1, <1>2, <1>3 DEF IsUnpack
<1> QED
    BY <1>1, <1>2, <1>4, <1>5

\* A head alone, or a record that is not all there, waits; anything else than
\* a head is refused.
LEMMA UnpackWaits ==
    ASSUME NEW buf \in Stream, NEW n \in Nat, n = Len(buf),
           n <= 1 \/ (buf[1].t = "head" /\ buf[1].v + 1 > n)
    PROVE  Unpack(buf) = Unpacked(TRUE, buf, <<>>)
<1>1. PICK f : Unpack(buf) = Peeled(buf, Len(buf), f)
    BY UnpackPeels
<1> QED
    BY <1>1 DEF Peeled

LEMMA UnpackOther ==
    ASSUME NEW buf \in Stream, NEW n \in Nat, n = Len(buf),
           n > 0, buf[1].t # "head"
    PROVE  Unpack(buf) = Unpacked(n = 1, buf, <<>>)
<1>1. PICK f : Unpack(buf) = Peeled(buf, Len(buf), f)
    BY UnpackPeels
<1>2. CASE n = 1
    <2>1. n <= 1 /\ (n = 1) = TRUE
        BY <1>2
    <2> QED
        BY <1>1, <2>1 DEF Peeled
<1>3. CASE n # 1
    <2>1. ~(n <= 1) /\ (n = 1) = FALSE
        BY <1>3
    <2> QED
        BY <1>1, <2>1 DEF Peeled
<1> QED
    BY <1>2, <1>3

IsMiddle(x, m, n, s) ==
    s \in Stream /\ Len(s) = n - m /\ \A i \in 1..(n - m) : s[i] = x[m + i]

LEMMA Middle ==
    ASSUME NEW x \in Stream, NEW m \in Nat, NEW n \in Nat, NEW e \in Nat,
           e = m + 1, m <= n, n <= Len(x)
    PROVE  IsMiddle(x, m, n, SubSeq(x, e, n))
<1>1. PICK l \in Nat : Len(x) = l
    BY Nothing
<1>2. \A i \in e..n : x[i] \in AtomType
    <2>1. \A i \in e..n : i \in 1..l
        BY <1>1
    <2> QED
        BY <1>1, <2>1, Nothing
<1>3. /\ SubSeq(x, e, n) \in Seq(AtomType)
      /\ Len(SubSeq(x, e, n)) = IF e <= n THEN n - e + 1 ELSE 0
      /\ \A i \in 1..n - e + 1 : SubSeq(x, e, n)[i] = x[e + i - 1]
    <2>1. e \in Int /\ n \in Int
        OBVIOUS
    <2> QED
        BY <1>2, <2>1, SubSeqProperties
<1>4. Len(SubSeq(x, e, n)) = n - m
    BY <1>3
<1>5. ASSUME NEW i \in 1..(n - m) PROVE SubSeq(x, e, n)[i] = x[m + i]
    <2>1. i \in 1..n - e + 1 /\ e + i - 1 = m + i
        OBVIOUS
    <2> QED
        BY <1>3, <2>1
<1> QED
    BY <1>3, <1>4, <1>5 DEF Stream, IsMiddle

\* A whole record is taken off.
LEMMA UnpackRecord ==
    ASSUME NEW d \in Stream, NEW y \in Stream, Len(Record(d) \o y) > 1, Unpack(y).ok
    PROVE  Unpack(Record(d) \o y) = Unpacked(TRUE, Unpack(y).rest, d \o Unpack(y).out)
<1>1. PICK k \in Nat : Len(d) = k
    BY Nothing
<1>2. PICK m \in Nat : Len(y) = m
    BY Nothing
<1>0. PICK h \in Stream : h = <<HeadAtom(k)>> /\ Len(h) = 1
    BY <1>1, RecordType
<1>3. PICK x \in Stream : /\ x = Record(d) /\ Len(x) = k + 1 /\ x[1].t = "head" /\ x[1].v = k
                          /\ x = h \o d
    BY <1>0, <1>1, RecordType
<1>4. PICK b \in Stream : b = x \o y /\ b = Record(d) \o y
    BY <1>3, Joined
<1>5. PICK l \in Nat : Len(b) = l /\ l = k + 1 + m /\ ~(l <= 1)
    <2>0. Len(x \o y) = Len(x) + Len(y)
        BY Joined
    <2>1. Len(b) = Len(x) + Len(y)
        BY <1>4, <2>0
    <2>2. Len(b) = k + 1 + m
        BY <1>2, <1>3, <2>1
    <2>3. Len(b) > 1
        BY <1>4
    <2> QED
        BY <2>2, <2>3
<1>6. b[1].t = "head" /\ b[1].v = k
    <2>1. 1 \in 1..Len(x)
        BY <1>3
    <2>3. (x \o y)[1] = x[1]
        BY <2>1, Joined
    <2>2. b[1] = x[1]
        BY <1>4, <2>3
    <2> QED
        BY <1>3, <2>2
<1>7. SubSeq(b, 2, k + 1) = d
    <2>1. PICK n \in Nat, e \in Nat, u \in Nat : n = k + 1 /\ e = 2 /\ u = 1 /\ e = u + 1
        OBVIOUS
    <2>2. n <= Len(b) /\ u <= n /\ n - u = k
        BY <1>5, <2>1
    <2>6. IsMiddle(b, u, n, SubSeq(b, e, n))
        BY <2>1, <2>2, Middle
    <2>3. /\ SubSeq(b, 2, n) \in Stream /\ Len(SubSeq(b, 2, n)) = k
          /\ \A i \in 1..k : SubSeq(b, 2, n)[i] = b[1 + i]
        BY <2>1, <2>2, <2>6 DEF IsMiddle
    <2>4. ASSUME NEW i \in 1..k PROVE SubSeq(b, 2, n)[i] = d[i]
        <3>1. SubSeq(b, 2, n)[i] = b[1 + i]
            BY <2>3
        <3>2. 1 + i \in 1..Len(x)
            BY <1>3
        <3>3. (x \o y)[1 + i] = x[1 + i]
            BY <3>2, Joined
        <3>4. (h \o d)[Len(h) + i] = d[i]
            BY <1>1, Joined
        <3> QED
            BY <1>0, <1>3, <1>4, <3>1, <3>3, <3>4
    <2>5. SubSeq(b, 2, n) = d
        BY <1>1, <2>3, <2>4, Same
    <2> QED
        BY <2>1, <2>5
<1>8. PICK f : IsUnpack(f, Len(b), b) /\ Unpack(b) = Peeled(b, Len(b), f)
    BY UnpackPeels
<1>9. PICK g : IsUnpack(g, Len(y), y) /\ Unpack(y) = g[Len(y)]
    BY UnpackIs
<1>10. f[m] = Unpack(y)
    <2>0. IsUnpack(f, Len(x \o y), x \o y)
        BY <1>4, <1>8
    <2>1. SameOn(f, g, Len(y))
        BY <1>9, <2>0, UnpackAgrees
    <2>2. m \in 0..Len(y)
        BY <1>2
    <2> QED
        BY <1>2, <1>9, <2>1, <2>2 DEF SameOn
<1>11. ~(b[1].v + 1 > l) /\ l - b[1].v - 1 = m
    BY <1>5, <1>6
<1>12. Peeled(b, l, f) = [f[m] EXCEPT !.out = SubSeq(b, 2, k + 1) \o @]
    BY <1>5, <1>6, <1>11 DEF Peeled
<1>13. Peeled(b, l, f) = Unpacked(TRUE, Unpack(y).rest, d \o Unpack(y).out)
    <2>1. Shaped(f[m])
        <3>1. m \in 0..Len(b)
            BY <1>5
        <3> QED
            BY <1>8, <3>1, UnpackShaped
    <2>2. PICK ok, rest, out : /\ ok \in BOOLEAN
                                /\ Unpack(y) = Unpacked(ok, rest, out)
        BY <1>10, <2>1 DEF Shaped
    <2>3. ok = TRUE /\ Unpack(y).rest = rest /\ Unpack(y).out = out
        BY <2>2 DEF Unpacked
    <2>4. PICK u : u = f[m] /\ u = Unpacked(ok, rest, out)
        BY <1>10, <2>2
    <2>5. Peeled(b, l, f) = [u EXCEPT !.out = d \o @]
        BY <1>7, <1>12, <2>4
    <2>6. Peeled(b, l, f) = Unpacked(ok, rest, d \o out)
        <3>1. u = Unpacked(ok, rest, out)
            BY <2>4
        <3>2. [u EXCEPT !.out = d \o @] = Unpacked(ok, rest, d \o out)
            BY <3>1, LongerOut
        <3> QED
            BY <2>5, <3>2
    <2> QED
        BY <2>3, <2>6
<1> QED
    BY <1>4, <1>5, <1>8, <1>13

\* What the parser makes of the beginning of a stream of records.
Peels(v, p, q, a, b) ==
    /\ Unpack(p).ok
    /\ \E m \in Nat : /\ a <= m /\ m <= b
                      /\ Unpack(p).out = Span(v, a, m)
                      /\ Unpack(p).rest \in Stream
                      /\ Framed(v, Unpack(p).rest \o q, m, b)

LEMMA PeelsNothing ==
    ASSUME NEW v \in Nat, NEW p \in Stream, NEW q \in Stream, NEW a \in Nat, NEW b \in Nat,
           a <= b, Framed(v, p \o q, a, b), Unpack(p) = Unpacked(TRUE, p, <<>>)
    PROVE  Peels(v, p, q, a, b)
<1>1. Unpack(p).ok /\ Unpack(p).rest = p /\ Unpack(p).out = <<>>
    BY DEF Unpacked
<1>2. Span(v, a, a) = <<>> /\ a <= a
    BY SpanNil
<1> QED
    BY <1>1, <1>2 DEF Peels

LEMMA PeelsRecord ==
    ASSUME NEW v \in Nat, NEW p \in Stream, NEW q \in Stream,
           NEW m \in Nat, NEW a \in Nat, NEW b \in Nat, m <= a, a <= b,
           NEW z \in Stream, p = Record(Span(v, m, a)) \o z, Len(p) > 1,
           Peels(v, z, q, a, b)
    PROVE  Peels(v, p, q, m, b)
<1>1. PICK e \in Nat : /\ a <= e /\ e <= b /\ Unpack(z).out = Span(v, a, e)
                       /\ Unpack(z).rest \in Stream
                       /\ Framed(v, Unpack(z).rest \o q, e, b)
    BY DEF Peels
<1>2. Unpack(z).ok
    BY DEF Peels
<1>3. Span(v, m, a) \in Stream
    BY SpanType
<1>4. Unpack(p) = Unpacked(TRUE, Unpack(z).rest, Span(v, m, a) \o Unpack(z).out)
    BY <1>2, <1>3, UnpackRecord
<1>8. a <= e
    BY <1>1
<1>5. Span(v, m, a) \o Span(v, a, e) = Span(v, m, e)
    BY <1>8, SpanJoin
<1>6. m <= e
    BY <1>8
<1>7. Unpack(p).ok /\ Unpack(p).rest = Unpack(z).rest /\ Unpack(p).out = Span(v, m, e)
    BY <1>1, <1>4, <1>5 DEF Unpacked
<1> QED
    BY <1>1, <1>6, <1>7 DEF Peels

LEMMA UnpackFramed ==
    ASSUME NEW v \in Nat, NEW p \in Stream, NEW q \in Stream, NEW a, NEW b,
           Framed(v, p \o q, a, b)
    PROVE  Peels(v, p, q, a, b)
<1> DEFINE AllPeel(x, m, n) == \A s, t \in Stream : s \o t = x => Peels(v, s, t, m, n)
           F == {w \in Places : Framed(v, w[1], w[2], w[3]) /\ AllPeel(w[1], w[2], w[3])}
<1>0. \A y \in Stream, n, d \in Nat :
          <<y, n, d>> \in F <=> Framed(v, y, n, d) /\ AllPeel(y, n, d)
    BY DEF Places
<1>1. F \subseteq Places
    OBVIOUS
<1> HIDE DEF F
<1>2. ASSUME NEW n \in Nat PROVE <<<<>>, n, n>> \in F
    <2>1. Framed(v, <<>>, n, n) /\ <<>> \in Stream
        BY FramedNil, Nothing
    <2>2. ASSUME NEW s \in Stream, NEW t \in Stream, s \o t = <<>>
          PROVE  Peels(v, s, t, n, n)
        <3>1. PICK k \in Nat : Len(s) = k
            BY Nothing
        <3>2. k = 0
            <4>1. Len(s \o t) = Len(s) + Len(t) /\ Len(t) \in Nat
                BY Joined
            <4>2. Len(s \o t) = 0
                BY <2>2, Nothing
            <4> QED
                BY <3>1, <4>1, <4>2
        <3>3. Unpack(s) = Unpacked(TRUE, s, <<>>)
            <4>1. k <= 1
                BY <3>2
            <4> QED
                BY <3>1, <4>1, UnpackWaits
        <3>4. Framed(v, s \o t, n, n) /\ n <= n
            BY <2>1, <2>2
        <3> QED
            BY <3>3, <3>4, PeelsNothing
    <2> QED
        BY <1>0, <2>1, <2>2
<1>3. ASSUME NEW y \in Stream, NEW m \in Nat, NEW n \in Nat, NEW d \in Nat,
             m <= n, <<y, n, d>> \in F
      PROVE  <<Behind(v, y, m, n), m, d>> \in F
    <2>1. Framed(v, y, n, d) /\ AllPeel(y, n, d)
        BY <1>0, <1>3
    <2>2. Framed(v, Behind(v, y, m, n), m, d)
        BY <1>3, <2>1, FramedMore
    <2>3. Behind(v, y, m, n) \in Stream
        BY <1>3, BehindType
    <2>4. n <= d
        BY <2>1, FramedType
    <2>5. ASSUME NEW s \in Stream, NEW t \in Stream, s \o t = Behind(v, y, m, n)
          PROVE  Peels(v, s, t, m, d)
        <3>0. PICK r \in Stream : /\ r = Record(Span(v, m, n)) /\ s \o t = r \o y
                                  /\ Len(r) = n - m + 1
            <4>1. /\ Record(Span(v, m, n)) \in Stream
                  /\ Len(Record(Span(v, m, n))) = n - m + 1
                  /\ Behind(v, y, m, n) = Record(Span(v, m, n)) \o y
                BY <1>3, BehindType
            <4> QED
                BY <2>5, <4>1
        <3>1. PICK k \in Nat : Len(s) = k
            BY Nothing
        <3>2. m <= d /\ Framed(v, s \o t, m, d)
            BY <1>3, <2>2, <2>4, <2>5
        <3>3. r[1].t = "head" /\ r[1].v = n - m
            <4>1. Span(v, m, n) \in Stream /\ Len(Span(v, m, n)) = n - m
                BY <1>3, SpanType
            <4> QED
                BY <3>0, <4>1, RecordType
        <3>4. CASE k <= 1
            <4>1. Unpack(s) = Unpacked(TRUE, s, <<>>)
                BY <3>1, <3>4, UnpackWaits
            <4> QED
                BY <3>2, <4>1, PeelsNothing
        <3>5. CASE ~(k <= 1)
            <4>1. s[1] = r[1]
                <5>1. 1 \in 1..Len(s) /\ 1 \in 1..Len(r)
                    BY <1>3, <3>0, <3>1, <3>5
                <5>2. (s \o t)[1] = s[1]
                    BY <5>1, Joined
                <5>3. (r \o y)[1] = r[1]
                    BY <5>1, Joined
                <5> QED
                    BY <3>0, <5>2, <5>3
            <4>2. CASE n - m + 1 > k
                <5>1. s[1].t = "head" /\ s[1].v + 1 > k
                    BY <3>3, <4>1, <4>2
                <5>2. Unpack(s) = Unpacked(TRUE, s, <<>>)
                    BY <3>1, <5>1, UnpackWaits
                <5> QED
                    BY <3>2, <5>2, PeelsNothing
            <4>3. CASE ~(n - m + 1 > k)
                <5>1. Within(r, s)
                    BY <3>0, <3>1, <4>3 DEF Within
                <5>2. Overlap(s, t, r, y)
                    BY <3>0, <5>1, Levi
                <5>3. PICK z \in Stream : s = r \o z /\ y = z \o t
                    BY <5>2 DEF Overlap
                <5>4. Peels(v, z, t, n, d)
                    BY <2>1, <5>3
                <5>5. Len(s) > 1
                    BY <3>1, <3>5
                <5> QED
                    BY <1>3, <2>4, <3>0, <5>3, <5>4, <5>5, PeelsRecord
            <4> QED
                BY <4>2, <4>3
        <3> QED
            BY <3>4, <3>5
    <2> QED
        BY <1>0, <2>2, <2>3, <2>5
<1>4. Closed(v, F)
    BY <1>1, <1>2, <1>3 DEF Closed
<1>5. <<p \o q, a, b>> \in F
    BY <1>4 DEF Framed
<1>6. p \o q \in Stream /\ a \in Nat /\ b \in Nat
    BY FramedType
<1>7. AllPeel(p \o q, a, b)
    BY <1>0, <1>5, <1>6
<1> QED
    BY <1>7

-----------------------------------------------------------------------------
(* The ways a write may be cut into records.                               *)

Ways(data, n, ways) ==
    {Record(Suffix(data, n))} \cup
    IF n <= SplitOver THEN {}
    ELSE UNION {{Record(SubSeq(Suffix(data, n), 1, m)) \o more : more \in ways[n - m]} :
                m \in 1..n - 1}

IsCut(f, k, data) == f = [n \in 0..k |-> Ways(data, n, f)]

LEMMA WaysSame ==
    ASSUME NEW data, NEW n \in Nat, NEW f, NEW g, Agree(f, g, n)
    PROVE  Ways(data, n, f) = Ways(data, n, g)
<1>1. \A m \in 1..n - 1 : f[n - m] = g[n - m]
    <2> TAKE m \in 1..n - 1
    <2>1. n - m \in 0..n - 1
        OBVIOUS
    <2> QED
        BY <2>1 DEF Agree
<1> DEFINE X(m) == {Record(SubSeq(Suffix(data, n), 1, m)) \o more : more \in f[n - m]}
           Y(m) == {Record(SubSeq(Suffix(data, n), 1, m)) \o more : more \in g[n - m]}
<1>2. \A m \in 1..n - 1 : X(m) = Y(m)
    BY <1>1
<1>3. /\ Ways(data, n, f) = {Record(Suffix(data, n))} \cup
                IF n <= SplitOver THEN {} ELSE UNION {X(m) : m \in 1..n - 1}
      /\ Ways(data, n, g) = {Record(Suffix(data, n))} \cup
                IF n <= SplitOver THEN {} ELSE UNION {Y(m) : m \in 1..n - 1}
    BY DEF Ways
<1> HIDE DEF X, Y
<1>4. {X(m) : m \in 1..n - 1} = {Y(m) : m \in 1..n - 1}
    BY <1>2
<1> QED
    BY <1>3, <1>4

LEMMA CutExists == \A data : \A n \in Nat : \E f : IsCut(f, n, data)
<1> TAKE data
<1> DEFINE T == {n \in Nat : \E f : IsCut(f, n, data)}
<1>1. 0 \in T
    <2> DEFINE f == [n \in 0..0 |-> Ways(data, n, <<>>)]
    <2>1. ASSUME NEW n \in 0..0 PROVE Ways(data, n, f) = Ways(data, n, <<>>)
        <3>1. n \in Nat /\ Agree(f, <<>>, n)
            BY DEF Agree
        <3> HIDE DEF f
        <3> QED
            BY <3>1, WaysSame
    <2>2. IsCut(f, 0, data)
        BY <2>1 DEF IsCut
    <2> HIDE DEF f
    <2> QED
        BY <2>2
<1>2. ASSUME NEW n \in T PROVE n + 1 \in T
    <2>1. PICK f : IsCut(f, n, data)
        BY <1>2
    <2>2. n \in Nat
        OBVIOUS
    <2> DEFINE h == [i \in 0..n + 1 |-> IF i <= n THEN f[i] ELSE Ways(data, i, f)]
    <2>3. ASSUME NEW i \in 0..n + 1
          PROVE  h[i] = Ways(data, i, h)
        <3>1. h[i] = Ways(data, i, f)
            <4>1. CASE i <= n
                <5>1. i \in 0..n /\ h[i] = f[i]
                    BY <2>2, <4>1
                <5> QED
                    BY <2>1, <5>1 DEF IsCut
            <4>2. CASE ~(i <= n)
                BY <4>2
            <4> QED
                BY <4>1, <4>2
        <3>2. Agree(f, h, i)
            <4>1. \A j \in 0..i - 1 : j \in 0..n + 1 /\ j <= n
                BY <2>2
            <4> QED
                BY <4>1 DEF Agree
        <3>3. i \in Nat
            BY <2>2
        <3> HIDE DEF h
        <3>5. Ways(data, i, f) = Ways(data, i, h)
            BY <3>2, <3>3, WaysSame
        <3> QED
            BY <3>1, <3>5
    <2>4. IsCut(h, n + 1, data)
        BY <2>3 DEF IsCut
    <2> HIDE DEF h
    <2> QED
        BY <2>2, <2>4
<1> HIDE DEF T
<1>3. T = Nat
    <2>1. T \in SUBSET Nat
        BY DEF T
    <2> QED
        BY <1>1, <1>2, <2>1, InductNat
<1> QED
    BY <1>3 DEF T

LEMMA RecordsIs ==
    ASSUME NEW data \in Stream
    PROVE  \E f : IsCut(f, Len(data), data) /\ Records(data) = f[Len(data)]
<1>1. PICK g : IsCut(g, Len(data), data)
    <2>1. Len(data) \in Nat
        BY Nothing
    <2> QED
        BY <2>1, CutExists
<1> DEFINE Last(n) == SubSeq(data, Len(data) - n + 1, Len(data))
           f == CHOOSE ways : ways = [n \in 0..Len(data) |->
                    {Record(Last(n))} \cup
                    IF n <= SplitOver THEN {}
                    ELSE UNION {{Record(SubSeq(Last(n), 1, m)) \o more : more \in ways[n - m]} :
                                m \in 1..n - 1}]
<1>2. Records(data) = f[Len(data)]
    BY DEF Records
<1>3. f = CHOOSE ways : ways = [n \in 0..Len(data) |-> Ways(data, n, ways)]
    BY DEF Ways, Suffix
<1> HIDE DEF f
<1>4. g = [n \in 0..Len(data) |-> Ways(data, n, g)]
    BY <1>1 DEF IsCut
<1>5. f = [n \in 0..Len(data) |-> Ways(data, n, f)]
    BY <1>3, <1>4
<1> QED
    BY <1>2, <1>5 DEF IsCut

\* Whichever way it is cut, what goes out are the records of the data.
LEMMA RecordsFramed ==
    ASSUME NEW v \in Nat, NEW a \in Nat, NEW b \in Nat, a <= b,
           NEW r \in Records(Span(v, a, b))
    PROVE  Framed(v, r, a, b)
<1>0. PICK data \in Stream : /\ data = Span(v, a, b) /\ Len(data) = b - a
                              /\ \A i \in 1..(b - a) : data[i] = PlainAtom(v, a + i)
    BY SpanType
<1>1. PICK l \in Nat : Len(data) = l /\ l = b - a
    BY <1>0
<1>2. PICK f : IsCut(f, l, data) /\ Records(data) = f[l]
    BY <1>1, RecordsIs
<1> DEFINE AllFramed(n, p) == \A x \in f[n] : Framed(v, x, p, b)
           T == {n \in 0..l : \E p \in Nat : p = b - n /\ ~AllFramed(n, p)}
<1>3. ASSUME T # {} PROVE FALSE
    <2>0. T \in SUBSET Nat
        OBVIOUS
    <2> HIDE DEF T
    <2>1. PICK n \in T : \A k \in T : n <= k
        BY <1>3, <2>0, LeastNat
    <2>2. n \in 0..l /\ n \in Nat
        BY DEF T
    <2> HIDE DEF AllFramed
    <2>10. PICK p \in Nat : p = b - n /\ ~AllFramed(n, p)
        BY <2>1 DEF T
    <2>3. p = b - n
        BY <2>10
    <2>4. p <= b /\ a <= p
        BY <1>1, <2>2, <2>3
    <2>5. Suffix(data, n) = Span(v, p, b)
        <3>1. n <= Len(data)
            BY <1>1, <2>2
        <3>2. PICK s \in Stream : /\ s = Suffix(data, n) /\ Len(s) = n
                                  /\ \A i \in 1..n : s[i] = data[Len(data) - n + i]
            BY <2>2, <3>1, SuffixType
        <3>3. ASSUME NEW i \in 1..n PROVE s[i] = PlainAtom(v, p + i)
            <4>1. PICK j \in 1..l : j = l - n + i
                <5>1. l - n + i \in 1..l
                    BY <2>2
                <5> QED
                    BY <5>1
            <4>2. data[j] = PlainAtom(v, a + j)
                BY <1>0, <1>1
            <4>3. a + j = p + i
                BY <1>1, <2>2, <2>3, <4>1
            <4> QED
                BY <1>1, <3>2, <4>1, <4>2, <4>3
        <3>4. ReadsAs(s, v, p)
            BY <3>2, <3>3 DEF ReadsAs
        <3>5. Len(s) = b - p
            BY <2>2, <2>3, <3>2
        <3> QED
            BY <2>4, <3>2, <3>4, <3>5, SpanIs
    <2>6. f[n] = Ways(data, n, f)
        BY <1>2, <2>2 DEF IsCut
    <2>7. ASSUME NEW m \in 1..n - 1, NEW more \in f[n - m]
          PROVE  Framed(v, Record(SubSeq(Span(v, p, b), 1, m)) \o more, p, b)
        <3>1. PICK e \in Nat, k \in Nat : e = p + m /\ k = n - m
            BY <2>2
        <3>2. k \in 0..l /\ ~(n <= k) /\ e = b - k /\ e <= b /\ p <= e
            BY <2>2, <2>3, <3>1
        <3>3. k \notin T
            BY <2>1, <3>2
        <3>4. AllFramed(k, e)
            BY <3>2, <3>3 DEF T
        <3>5. Framed(v, more, e, b)
            BY <2>7, <3>1, <3>4 DEF AllFramed
        <3>6. SubSeq(Span(v, p, b), 1, m) = Span(v, p, e)
            <4>1. Span(v, p, b) \in Stream /\ Len(Span(v, p, b)) = b - p
                BY <2>4, SpanType
            <4>2. m \in 0..Len(Span(v, p, b))
                BY <2>2, <2>3, <4>1
            <4>3. PICK x \in Stream, y \in Stream :
                      /\ x = SubSeq(Span(v, p, b), 1, m)
                      /\ x \o y = Span(v, p, b) /\ Len(x) = m
                BY <4>1, <4>2, Cut
            <4>4. SpanParts(v, p, b, x, y)
                BY <2>4, <4>3, SpanSplit
            <4>5. PICK d \in Nat : Len(x) = d - p /\ x = Span(v, p, d)
                BY <4>4 DEF SpanParts
            <4>6. d = e
                BY <3>1, <4>3, <4>5
            <4> QED
                BY <4>3, <4>5, <4>6
        <3>7. Framed(v, Behind(v, more, p, e), p, b)
            BY <3>2, <3>5, FramedMore
        <3> QED
            BY <3>6, <3>7 DEF Behind
    <2>8. Framed(v, Record(Span(v, p, b)), p, b)
        BY <2>4, FramedRecord
    <2>9. ASSUME NEW x \in f[n] PROVE Framed(v, x, p, b)
        <3> DEFINE X(m) == {Record(SubSeq(Span(v, p, b), 1, m)) \o more : more \in f[n - m]}
        <3>1. \/ x = Record(Span(v, p, b))
              \/ x \in UNION {X(m) : m \in 1..n - 1}
            BY <2>5, <2>6 DEF Ways
        <3>2. CASE x = Record(Span(v, p, b))
            BY <2>8, <3>2
        <3>3. CASE x \in UNION {X(m) : m \in 1..n - 1}
            <4>1. PICK m \in 1..n - 1 : x \in X(m)
                BY <3>3
            <4>2. PICK more \in f[n - m] : x = Record(SubSeq(Span(v, p, b), 1, m)) \o more
                BY <4>1
            <4> QED
                BY <2>7, <4>2
        <3> QED
            BY <3>1, <3>2, <3>3
    <2> QED
        BY <2>9, <2>10 DEF AllFramed
<1> HIDE DEF T
<1>4. l \notin T
    BY <1>3
<1>5. AllFramed(l, a)
    <2>1. l \in 0..l /\ a = b - l
        BY <1>1
    <2> HIDE DEF AllFramed
    <2> QED
        BY <1>4, <2>1 DEF T
<1> QED
    BY <1>0, <1>2, <1>5

-----------------------------------------------------------------------------
(* The head of a request.                                                  *)

\* The first w atoms of the plaintext as http_simple sends them, the first n of
\* them in the URL.
HeadedAtom(v, n, i) ==
    IF i = 1 THEN Mark("get", 0)
    ELSE IF i <= n + 1 THEN PlainAtom(v, i - 1)
    ELSE IF i = n + 2 THEN Mark("host", 0)
    ELSE IF i = n + 3 THEN Mark("end", 1)
    ELSE IF i = n + 4 THEN Mark("end", 2)
    ELSE PlainAtom(v, i - 4)
IsHeaded(v, n, w, x) ==
    x \in Stream /\ Len(x) = w + 4 /\ \A i \in 1..w + 4 : x[i] = HeadedAtom(v, n, i)

LEMMA HttpMarks ==
    /\ Mark("get", 0) \in AtomType /\ Mark("get", 0).t = "get"
    /\ Mark("host", 0) \in AtomType /\ Mark("host", 0).t = "host"
    /\ Mark("end", 1) \in AtomType /\ Mark("end", 1).t = "end" /\ Mark("end", 1).v = 1
    /\ Mark("end", 2) \in AtomType /\ Mark("end", 2).t = "end" /\ Mark("end", 2).v = 2
    /\ Mark("ok", 0) \in AtomType /\ Mark("ok", 0).t = "ok"
BY DEF Mark, AtomType

LEMMA EndMarkType ==
    /\ EndMark \in Stream /\ Len(EndMark) = 2
    /\ EndMark[1] = Mark("end", 1) /\ EndMark[2] = Mark("end", 2)
    /\ \A a, b : <<a, b>> = EndMark <=> a = Mark("end", 1) /\ b = Mark("end", 2)
<1>1. EndMark = <<Mark("end", 1), Mark("end", 2)>>
    BY DEF EndMark
<1> QED
    BY <1>1, HttpMarks DEF Stream

\* What stands where in a head.
LEMMA HeadedAtoms ==
    ASSUME NEW v \in Nat, NEW n \in Nat \ {0}, NEW i \in Nat \ {0}
    PROVE  /\ HeadedAtom(v, n, i).t = "get" <=> i = 1
           /\ HeadedAtom(v, n, i).t = "host" <=> i = n + 2
           /\ HeadedAtom(v, n, i) = Mark("end", 1) <=> i = n + 3
           /\ HeadedAtom(v, n, i) = Mark("end", 2) <=> i = n + 4
           /\ i > 1 /\ i <= n + 1 => HeadedAtom(v, n, i) = PlainAtom(v, i - 1)
           /\ i > n + 4 => HeadedAtom(v, n, i) = PlainAtom(v, i - 4)
           /\ HeadedAtom(v, n, i) \in AtomType
<1> DEFINE a == HeadedAtom(v, n, i)
<1>1. CASE i = 1
    <2>1. a = Mark("get", 0)
        BY <1>1 DEF HeadedAtom
    <2>2. i # n + 2 /\ i # n + 3 /\ i # n + 4 /\ ~(i > 1) /\ ~(i > n + 4)
        BY <1>1
    <2> HIDE DEF a
    <2>3. a.t = "get" /\ a \in AtomType /\ a # Mark("end", 1) /\ a # Mark("end", 2)
        BY <2>1, HttpMarks
    <2> QED
        BY <1>1, <2>2, <2>3 DEF a
<1>2. CASE i > 1 /\ i <= n + 1
    <2>1. a = PlainAtom(v, i - 1)
        BY <1>2 DEF HeadedAtom
    <2>2. i # 1 /\ i # n + 2 /\ i # n + 3 /\ i # n + 4 /\ ~(i > n + 4)
        BY <1>2
    <2>3. PlainAtom(v, i - 1) \in AtomType /\ PlainAtom(v, i - 1).t \in {"iv", "data"}
        <3>1. i - 1 \in Nat \ {0}
            BY <1>2
        <3> QED
            BY <3>1, PlainType
    <2> HIDE DEF a
    <2>4. /\ a.t # "get" /\ a.t # "host" /\ a # Mark("end", 1) /\ a # Mark("end", 2)
          /\ a \in AtomType
        BY <2>1, <2>3, HttpMarks
    <2> QED
        BY <1>2, <2>1, <2>2, <2>4 DEF a
<1>3. CASE i = n + 2
    <2>1. a = Mark("host", 0)
        BY <1>3 DEF HeadedAtom
    <2>2. i # 1 /\ i # n + 3 /\ i # n + 4 /\ ~(i <= n + 1) /\ ~(i > n + 4)
        BY <1>3
    <2> HIDE DEF a
    <2>3. a.t = "host" /\ a \in AtomType /\ a # Mark("end", 1) /\ a # Mark("end", 2)
        BY <2>1, HttpMarks
    <2> QED
        BY <1>3, <2>2, <2>3 DEF a
<1>4. CASE i = n + 3
    <2>1. a = Mark("end", 1)
        BY <1>4 DEF HeadedAtom
    <2>2. i # 1 /\ i # n + 2 /\ i # n + 4 /\ ~(i <= n + 1) /\ ~(i > n + 4)
        BY <1>4
    <2> HIDE DEF a
    <2>3. a.t = "end" /\ a \in AtomType /\ a # Mark("end", 2)
        BY <2>1, HttpMarks
    <2> QED
        BY <1>4, <2>1, <2>2, <2>3 DEF a
<1>5. CASE i = n + 4
    <2>1. a = Mark("end", 2)
        BY <1>5 DEF HeadedAtom
    <2>2. i # 1 /\ i # n + 2 /\ i # n + 3 /\ ~(i <= n + 1) /\ ~(i > n + 4)
        BY <1>5
    <2> HIDE DEF a
    <2>3. a.t = "end" /\ a \in AtomType /\ a # Mark("end", 1)
        BY <2>1, HttpMarks
    <2> QED
        BY <1>5, <2>1, <2>2, <2>3 DEF a
<1>6. CASE i > n + 4
    <2>1. a = PlainAtom(v, i - 4)
        BY <1>6 DEF HeadedAtom
    <2>2. i # 1 /\ i # n + 2 /\ i # n + 3 /\ i # n + 4 /\ ~(i <= n + 1)
        BY <1>6
    <2>3. PlainAtom(v, i - 4) \in AtomType /\ PlainAtom(v, i - 4).t \in {"iv", "data"}
        <3>1. i - 4 \in Nat \ {0}
            BY <1>6
        <3> QED
            BY <3>1, PlainType
    <2> HIDE DEF a
    <2>4. /\ a.t # "get" /\ a.t # "host" /\ a # Mark("end", 1) /\ a # Mark("end", 2)
          /\ a \in AtomType
        BY <2>1, <2>3, HttpMarks
    <2> QED
        BY <1>6, <2>1, <2>2, <2>4 DEF a
<1>7. i = 1 \/ (i > 1 /\ i <= n + 1) \/ i = n + 2 \/ i = n + 3 \/ i = n + 4 \/ i > n + 4
    OBVIOUS
<1> QED
    BY <1>1, <1>2, <1>3, <1>4, <1>5, <1>6, <1>7

\* what a head begins with
HeadStart(v, n, p) == \A i \in 1..Len(p) : p[i] = HeadedAtom(v, n, i)

LEMMA HeadedPrefix ==
    ASSUME NEW v \in Nat, NEW n \in Nat \ {0}, NEW w \in Nat, n <= w,
           NEW p \in Stream, NEW q \in Stream, IsHeaded(v, n, w, p \o q)
    PROVE  HeadStart(v, n, p) /\ Len(p) + Len(q) = w + 4
<1>1. PICK k \in Nat : Len(p) = k
    BY Nothing
<1>2. PICK l \in Nat : Len(q) = l
    BY Nothing
<1>3. k + l = w + 4
    <2>1. Len(p \o q) = Len(p) + Len(q)
        BY Joined
    <2>2. Len(p \o q) = w + 4
        BY DEF IsHeaded
    <2> QED
        BY <1>1, <1>2, <2>1, <2>2
<1>4. ASSUME NEW i \in 1..k PROVE p[i] = HeadedAtom(v, n, i)
    <2>1. (p \o q)[i] = p[i]
        BY <1>1, Joined
    <2>2. i \in 1..w + 4
        BY <1>3
    <2>3. (p \o q)[i] = HeadedAtom(v, n, i)
        BY <2>2 DEF IsHeaded
    <2> QED
        BY <2>1, <2>3
<1> QED
    BY <1>1, <1>2, <1>3, <1>4 DEF HeadStart

LEMMA HeadedMore ==
    ASSUME NEW v \in Nat, NEW n \in Nat \ {0}, NEW w \in Nat, n <= w,
           NEW x, IsHeaded(v, n, w, x), NEW u \in Nat, w <= u
    PROVE  IsHeaded(v, n, u, x \o Span(v, w, u))
<1>1. x \in Stream /\ Len(x) = w + 4 /\ \A i \in 1..w + 4 : x[i] = HeadedAtom(v, n, i)
    BY DEF IsHeaded
<1>2. PICK y \in Stream : /\ y = Span(v, w, u) /\ Len(y) = u - w
                          /\ \A i \in 1..(u - w) : y[i] = PlainAtom(v, w + i)
    <2>1. /\ Span(v, w, u) \in Stream /\ Len(Span(v, w, u)) = u - w
          /\ \A i \in 1..(u - w) : Span(v, w, u)[i] = PlainAtom(v, w + i)
        BY SpanType
    <2> QED
        BY <2>1
<1>3. x \o y \in Stream /\ Len(x \o y) = u + 4
    <2>1. x \o y \in Stream /\ Len(x \o y) = Len(x) + Len(y)
        BY <1>1, Joined
    <2> QED
        BY <1>1, <1>2, <2>1
<1>4. ASSUME NEW i \in 1..u + 4 PROVE (x \o y)[i] = HeadedAtom(v, n, i)
    <2>1. CASE i <= w + 4
        <3>1. i \in 1..Len(x) /\ i \in 1..w + 4
            BY <1>1, <2>1
        <3>2. (x \o y)[i] = x[i]
            BY <1>1, <3>1, Joined
        <3> QED
            BY <1>1, <3>1, <3>2
    <2>2. CASE ~(i <= w + 4)
        <3>1. PICK j \in 1..(u - w) : i = w + 4 + j
            <4>1. i - (w + 4) \in 1..(u - w) /\ i = w + 4 + (i - (w + 4))
                BY <2>2
            <4> QED
                BY <4>1
        <3>0. j \in 1..Len(y)
            BY <1>2
        <3>2. (x \o y)[Len(x) + j] = y[j]
            BY <1>1, <1>2, <3>0, Joined
        <3>3. (x \o y)[i] = PlainAtom(v, w + j)
            BY <1>1, <1>2, <3>1, <3>2
        <3>4. i > n + 4 /\ i - 4 = w + j /\ i \in Nat \ {0}
            BY <3>1
        <3>5. HeadedAtom(v, n, i) = PlainAtom(v, i - 4)
            BY <3>4, HeadedAtoms
        <3> QED
            BY <3>3, <3>4, <3>5
    <2> QED
        BY <2>1, <2>2
<1> QED
    BY <1>2, <1>3, <1>4 DEF IsHeaded

LEMMA EndAtHead ==
    ASSUME NEW v \in Nat, NEW n \in Nat \ {0}, NEW p \in Stream, HeadStart(v, n, p)
    PROVE  /\ Len(p) < n + 4 => EndAt(p) = 0
           /\ Len(p) >= n + 4 => EndAt(p) = n + 4
<1>1. PICK l \in Nat : Len(p) = l
    BY Nothing
<1> DEFINE at == {i \in 2..l : <<p[i - 1], p[i]>> = EndMark}
<1>2. \A i \in 2..l : <<p[i - 1], p[i]>> = EndMark <=> i = n + 4
    <2> TAKE i \in 2..l
    <2>1. i - 1 \in 1..l /\ i \in 1..l /\ i - 1 \in Nat \ {0} /\ i \in Nat \ {0}
        OBVIOUS
    <2>2. p[i] = HeadedAtom(v, n, i) /\ p[i - 1] = HeadedAtom(v, n, i - 1)
        BY <1>1, <2>1 DEF HeadStart
    <2>3. p[i] = Mark("end", 2) <=> i = n + 4
        <3>1. HeadedAtom(v, n, i) = Mark("end", 2) <=> i = n + 4
            BY <2>1, HeadedAtoms
        <3> QED
            BY <2>2, <3>1
    <2>4. p[i - 1] = Mark("end", 1) <=> i - 1 = n + 3
        <3>1. PICK h \in Nat \ {0} : h = i - 1
            BY <2>1
        <3>2. HeadedAtom(v, n, h) = Mark("end", 1) <=> h = n + 3
            BY HeadedAtoms
        <3> QED
            BY <2>2, <3>1, <3>2
    <2>5. i - 1 = n + 3 <=> i = n + 4
        OBVIOUS
    <2> QED
        BY <2>3, <2>4, <2>5, EndMarkType
<1>3. EndAt(p) = IF at = {} THEN 0 ELSE CHOOSE i \in at : \A j \in at : i <= j
    BY <1>1 DEF EndAt
<1>4. ASSUME l < n + 4 PROVE at = {}
    BY <1>2, <1>4
<1>5. ASSUME l >= n + 4 PROVE at = {n + 4}
    BY <1>2, <1>5
<1> HIDE DEF at
<1>6. ASSUME l >= n + 4 PROVE EndAt(p) = n + 4
    <2>1. at = {n + 4} /\ n + 4 <= n + 4
        BY <1>5, <1>6
    <2> QED
        BY <1>3, <2>1
<1> QED
    BY <1>1, <1>3, <1>4, <1>6

\* What the server takes out of the URL, which may have its last byte wrong.
Spoilt(v, i) == Mark("bad", PlainAtom(v, i).v)
IsOut(v, m, x) ==
    /\ x \in Stream /\ Len(x) = m
    /\ \A i \in 1..m : x[i] = PlainAtom(v, i) \/ (StrayHex /\ x[i] = Spoilt(v, i))
    /\ \A i, j \in 1..m : x[i].t = "bad" /\ x[j].t = "bad" => i = j

LEMMA SpoiltType ==
    ASSUME NEW v \in Nat, NEW i \in Nat \ {0}
    PROVE  Spoilt(v, i) \in AtomType /\ Spoilt(v, i).t = "bad"
<1>1. PICK k \in Nat : PlainAtom(v, i).v = k
    BY PlainType
<1>2. Spoilt(v, i) = [t |-> "bad", v |-> k]
    BY <1>1 DEF Spoilt, Mark
<1>3. Spoilt(v, i).t = "bad"
    BY <1>2
<1>4. Spoilt(v, i) \in AtomType
    BY <1>2 DEF AtomType
<1> QED
    BY <1>3, <1>4

LEMMA OutSpan ==
    ASSUME NEW v \in Nat, NEW m \in Nat
    PROVE  IsOut(v, m, Span(v, 0, m))
<1>1. PICK z \in Nat : z = 0
    OBVIOUS
<1>2. /\ Span(v, z, m) \in Stream /\ Len(Span(v, z, m)) = m - z
      /\ \A i \in 1..(m - z) : Span(v, z, m)[i] = PlainAtom(v, z + i)
    <2>1. z <= m
        BY <1>1
    <2> QED
        BY <2>1, SpanType
<1>3. m - z = m /\ \A i \in 1..m : z + i = i
    BY <1>1
<1>4. \A i \in 1..m : Span(v, z, m)[i] = PlainAtom(v, i)
    BY <1>2, <1>3
<1>5. \A i \in 1..m : Span(v, z, m)[i].t # "bad"
    <2> TAKE i \in 1..m
    <2>1. PlainAtom(v, i).t \in {"iv", "data"}
        <3>1. i \in Nat \ {0}
            OBVIOUS
        <3> QED
            BY <3>1, PlainType
    <2> QED
        BY <1>4, <2>1
<1> QED
    BY <1>1, <1>2, <1>3, <1>4, <1>5 DEF IsOut

LEMMA OutUrl ==
    ASSUME NEW v \in Nat, NEW n \in Nat \ {0}, NEW p \in Stream, HeadStart(v, n, p),
           Len(p) >= n + 4, NEW url \in UrlOf(p)
    PROVE  IsOut(v, n, url)
<1>1. PICK l \in Nat : Len(p) = l /\ l >= n + 4
    BY Nothing
<1>2. \A i \in 1..l : p[i] = HeadedAtom(v, n, i) /\ (p[i].t = "host" <=> i = n + 2)
    <2> TAKE i \in 1..l
    <2>1. i \in Nat \ {0}
        OBVIOUS
    <2>2. p[i] = HeadedAtom(v, n, i)
        BY <1>1 DEF HeadStart
    <2>3. HeadedAtom(v, n, i).t = "host" <=> i = n + 2
        BY <2>1, HeadedAtoms
    <2> QED
        BY <2>2, <2>3
<1> DEFINE host == CHOOSE i \in 1..l : p[i].t = "host"
<1>3. host = n + 2
    <2>1. n + 2 \in 1..l
        BY <1>1
    <2> QED
        BY <1>2, <2>1
<1> HIDE DEF host
<1>4. PICK k \in Nat : k = n + 1 /\ k - 1 = n /\ 1 <= k /\ k <= l /\ host - 1 = k
    <2>1. n + 1 \in Nat /\ n + 1 - 1 = n /\ 1 <= n + 1 /\ n + 1 <= l /\ n + 2 - 1 = n + 1
        BY <1>1
    <2> QED
        BY <1>3, <2>1
<1>5. PICK u \in Stream : u = SubSeq(p, 2, k) /\ IsMiddle(p, 1, k, u)
    <2>1. PICK m \in Nat, e \in Nat : m = 1 /\ e = 2 /\ e = m + 1
        OBVIOUS
    <2>2. IsMiddle(p, m, k, SubSeq(p, e, k))
        BY <1>1, <1>4, <2>1, Middle
    <2> QED
        BY <2>1, <2>2 DEF IsMiddle
<1>6. Len(u) = n /\ \A i \in 1..n : u[i] = p[1 + i]
    BY <1>4, <1>5 DEF IsMiddle
<1>10. url \in {u} \cup IF StrayHex /\ u # <<>> THEN {[u EXCEPT ![Len(u)].t = "bad"]} ELSE {}
    BY <1>1, <1>4, <1>5 DEF UrlOf, host
<1>7. ASSUME NEW i \in 1..n PROVE u[i] = PlainAtom(v, i)
    <2>2. u[i] = p[1 + i]
        BY <1>6
    <2>3. PICK j \in 1..l : j = 1 + i
        <3>1. 1 + i \in 1..l
            BY <1>1
        <3> QED
            BY <3>1
    <2>4. j \in Nat \ {0} /\ j > 1 /\ j <= n + 1 /\ j - 1 = i
        BY <2>3
    <2>5. HeadedAtom(v, n, j) = PlainAtom(v, j - 1)
        BY <2>4, HeadedAtoms
    <2> QED
        BY <1>2, <2>2, <2>3, <2>4, <2>5
<1>8. ASSUME NEW i \in 1..n
      PROVE  /\ PlainAtom(v, i) \in AtomType /\ PlainAtom(v, i).t \in {"iv", "data"}
             /\ Spoilt(v, i) \in AtomType /\ Spoilt(v, i).t = "bad"
    <2>1. i \in Nat \ {0}
        OBVIOUS
    <2> QED
        BY <2>1, PlainType, SpoiltType
<1>9. CASE url = u
    BY <1>6, <1>7, <1>8, <1>9 DEF IsOut
<1>11. CASE StrayHex /\ url = [u EXCEPT ![Len(u)].t = "bad"]
    <2>1. [u[n] EXCEPT !.t = "bad"] = Spoilt(v, n)
        <3>1. u[n] = PlainAtom(v, n) /\ n \in Nat \ {0}
            BY <1>7
        <3> QED
            BY <3>1 DEF PlainAtom, Spoilt, Mark
    <2>2. url = [u EXCEPT ![n] = Spoilt(v, n)]
        BY <1>6, <1>11, <2>1
    <2>3. n \in 1..Len(u) /\ Spoilt(v, n) \in AtomType
        BY <1>6, <1>8
    <2>4. /\ url \in Stream /\ Len(url) = n
          /\ \A i \in 1..n : url[i] = IF i = n THEN Spoilt(v, n) ELSE u[i]
        BY <1>6, <2>2, <2>3, ExceptSeq DEF Stream
    <2> QED
        BY <1>7, <1>8, <1>11, <2>4 DEF IsOut
<1> QED
    BY <1>10, <1>9, <1>11

LEMMA OutSpanAtoms ==
    ASSUME NEW v \in Nat, NEW m \in Nat
    PROVE  /\ Span(v, 0, m) \in Stream /\ Len(Span(v, 0, m)) = m
           /\ \A i \in 1..m : Span(v, 0, m)[i] = PlainAtom(v, i)
<1>1. PICK z \in Nat : z = 0
    OBVIOUS
<1>2. /\ Span(v, z, m) \in Stream /\ Len(Span(v, z, m)) = m - z
      /\ \A i \in 1..(m - z) : Span(v, z, m)[i] = PlainAtom(v, z + i)
    <2>1. z <= m
        BY <1>1
    <2> QED
        BY <2>1, SpanType
<1>3. m - z = m /\ \A i \in 1..m : z + i = i
    BY <1>1
<1>4. \A i \in 1..m : Span(v, z, m)[i] = PlainAtom(v, i)
    BY <1>2, <1>3
<1> QED
    BY <1>1, <1>2, <1>3, <1>4

LEMMA SpanCut ==
    ASSUME NEW v \in Nat, NEW n \in Nat, NEW w \in Nat, n <= w
    PROVE  /\ SubSeq(Span(v, 0, w), 1, n) = Span(v, 0, n)
           /\ SubSeq(Span(v, 0, w), n + 1, w) = Span(v, n, w)
<1>1. PICK z \in Nat : z = 0 /\ z <= w
    OBVIOUS
<1>2. PICK x \in Stream : x = Span(v, z, w) /\ Len(x) = w
    <2>1. Span(v, z, w) \in Stream /\ Len(Span(v, z, w)) = w - z
        BY <1>1, SpanType
    <2>2. w - z = w
        BY <1>1
    <2> QED
        BY <2>1, <2>2
<1>3. PICK p \in Stream, q \in Stream :
          p = SubSeq(x, 1, n) /\ q = SubSeq(x, n + 1, w) /\ p \o q = x /\ Len(p) = n
    <2>1. n \in 0..Len(x)
        BY <1>2
    <2> QED
        BY <1>2, <2>1, Cut
<1>4. SpanParts(v, z, w, p, q)
    BY <1>1, <1>2, <1>3, SpanSplit
<1>5. PICK e \in Nat : Len(p) = e - z /\ p = Span(v, z, e) /\ q = Span(v, e, w)
    BY <1>4 DEF SpanParts
<1>6. e = n
    BY <1>1, <1>3, <1>5
<1> QED
    BY <1>1, <1>2, <1>3, <1>5, <1>6

LEMMA RequestHeaded ==
    ASSUME NEW v \in Nat, NEW w \in Nat, NEW n \in 1..w
    PROVE  IsHeaded(v, n, w, Request(Span(v, 0, w), n))
<1>0. n \in Nat /\ n \in Nat \ {0} /\ n <= w /\ n <= n
    OBVIOUS
<1>2. PICK u \in Stream : /\ u = Span(v, 0, n) /\ Len(u) = n
                          /\ \A i \in 1..n : u[i] = PlainAtom(v, i)
    BY OutSpanAtoms, <1>0
<1>3. Len(Span(v, 0, w)) = w
    BY OutSpanAtoms
<1>4. Request(Span(v, 0, w), n) =
          (((<<Mark("get", 0)>> \o u) \o <<Mark("host", 0)>>) \o EndMark) \o Span(v, n, w)
    <2>1. SubSeq(Span(v, 0, w), 1, n) = u /\ SubSeq(Span(v, 0, w), n + 1, w) = Span(v, n, w)
        <3>1. /\ SubSeq(Span(v, 0, w), 1, n) = Span(v, 0, n)
              /\ SubSeq(Span(v, 0, w), n + 1, w) = Span(v, n, w)
            BY <1>0, SpanCut
        <3> QED
            BY <1>2, <3>1
    <2> QED
        BY <1>3, <2>1 DEF Request, InUrl
<1>5. PICK g \in Stream : g = <<Mark("get", 0)>> /\ Len(g) = 1 /\ g[1] = Mark("get", 0)
    BY One, HttpMarks
<1>6. PICK h \in Stream : h = <<Mark("host", 0)>> /\ Len(h) = 1 /\ h[1] = Mark("host", 0)
    BY One, HttpMarks
<1>7. PICK a \in Stream : /\ a = g \o u /\ Len(a) = n + 1 /\ a[1] = Mark("get", 0)
                          /\ \A i \in 1..n : a[1 + i] = PlainAtom(v, i)
    <2>1. /\ g \o u \in Stream /\ Len(g \o u) = Len(g) + Len(u)
          /\ \A i \in 1..Len(g) : (g \o u)[i] = g[i]
          /\ \A i \in 1..Len(u) : (g \o u)[Len(g) + i] = u[i]
        BY Joined
    <2>2. 1 \in 1..Len(g) /\ Len(g) = 1 /\ Len(u) = n
        BY <1>2, <1>5
    <2>3. (g \o u)[1] = g[1]
        BY <2>1, <2>2
    <2>4. \A i \in 1..n : (g \o u)[1 + i] = u[i]
        BY <2>1, <2>2
    <2>5. Len(g \o u) = n + 1
        BY <2>1, <2>2
    <2>6. \A i \in 1..n : (g \o u)[1 + i] = PlainAtom(v, i)
        BY <1>2, <2>4
    <2>7. (g \o u)[1] = Mark("get", 0)
        BY <1>5, <2>3
    <2> QED
        BY <2>1, <2>5, <2>6, <2>7
<1>8. PICK b \in Stream : /\ b = a \o h /\ Len(b) = n + 2
                          /\ \A i \in 1..n + 1 : b[i] = a[i]
                          /\ b[n + 2] = Mark("host", 0)
    <2>1. PICK m \in Nat : m = n + 1 /\ m + 1 = n + 2
        OBVIOUS
    <2>2. /\ a \o h \in Stream /\ Len(a \o h) = m + 1
          /\ \A i \in 1..m : (a \o h)[i] = a[i]
          /\ (a \o h)[m + 1] = h[1]
        <3>1. /\ a \o h \in Stream /\ Len(a \o h) = Len(a) + Len(h)
              /\ \A i \in 1..Len(a) : (a \o h)[i] = a[i]
              /\ \A i \in 1..Len(h) : (a \o h)[Len(a) + i] = h[i]
            BY Joined
        <3>2. Len(a) = m /\ 1 \in 1..Len(h)
            BY <1>6, <1>7, <2>1
        <3>3. (a \o h)[Len(a) + 1] = h[1]
            BY <3>1, <3>2
        <3> QED
            BY <1>6, <3>1, <3>2, <3>3
    <2> QED
        BY <1>6, <2>1, <2>2
<1>9. PICK d \in Stream : /\ d = b \o EndMark /\ Len(d) = n + 4
                          /\ \A i \in 1..n + 2 : d[i] = b[i]
                          /\ d[n + 3] = Mark("end", 1) /\ d[n + 4] = Mark("end", 2)
    <2>1. PICK m \in Nat : m = n + 2 /\ m + 1 = n + 3 /\ m + 2 = n + 4
        OBVIOUS
    <2>2. /\ b \o EndMark \in Stream /\ Len(b \o EndMark) = m + 2
          /\ \A i \in 1..m : (b \o EndMark)[i] = b[i]
          /\ \A i \in 1..2 : (b \o EndMark)[m + i] = EndMark[i]
        <3>1. /\ b \o EndMark \in Stream /\ Len(b \o EndMark) = Len(b) + Len(EndMark)
              /\ \A i \in 1..Len(b) : (b \o EndMark)[i] = b[i]
              /\ \A i \in 1..Len(EndMark) : (b \o EndMark)[Len(b) + i] = EndMark[i]
            BY EndMarkType, Joined
        <3> QED
            BY <1>8, <2>1, <3>1, EndMarkType
    <2>3. (b \o EndMark)[m + 1] = EndMark[1] /\ (b \o EndMark)[m + 2] = EndMark[2]
        BY <2>2
    <2> QED
        BY <2>1, <2>2, <2>3, EndMarkType
<1>10. ASSUME NEW i \in 1..n + 4 PROVE d[i] = HeadedAtom(v, n, i)
    <2>1. CASE i = 1
        BY <1>0, <1>7, <1>8, <1>9, <2>1 DEF HeadedAtom
    <2>2. CASE i > 1 /\ i <= n + 1
        <3>1. PICK j \in 1..n : i = 1 + j /\ j = i - 1
            <4>1. i - 1 \in 1..n /\ i = 1 + (i - 1)
                BY <2>2
            <4> QED
                BY <4>1
        <3>2. i \in 1..n + 1 /\ i \in 1..n + 2 /\ i # 1 /\ i <= n + 1
            BY <2>2
        <3>3. d[i] = PlainAtom(v, j)
            BY <1>7, <1>8, <1>9, <3>1, <3>2
        <3>4. HeadedAtom(v, n, i) = PlainAtom(v, j)
            BY <3>1, <3>2 DEF HeadedAtom
        <3> QED
            BY <3>3, <3>4
    <2>3. CASE i = n + 2
        BY <1>0, <1>8, <1>9, <2>3 DEF HeadedAtom
    <2>4. CASE i = n + 3
        BY <1>0, <1>9, <2>4 DEF HeadedAtom
    <2>5. CASE i = n + 4
        BY <1>0, <1>9, <2>5 DEF HeadedAtom
    <2> QED
        BY <2>1, <2>2, <2>3, <2>4, <2>5
<1>11. IsHeaded(v, n, n, d)
    BY <1>9, <1>10 DEF IsHeaded
<1>12. IsHeaded(v, n, w, d \o Span(v, n, w))
    BY <1>0, <1>11, HeadedMore
<1>13. Request(Span(v, 0, w), n) = d \o Span(v, n, w)
    BY <1>4, <1>5, <1>6, <1>7, <1>8, <1>9
<1> QED
    BY <1>12, <1>13

\* What is behind the head, read in one piece.
LEMMA HeadRest ==
    ASSUME NEW v \in Nat, NEW n \in Nat \ {0}, NEW w \in Nat, n <= w,
           NEW p \in Stream, NEW q \in Stream, IsHeaded(v, n, w, p \o q),
           NEW m \in Nat, NEW k \in Nat, m = n + 4, k = m + 1, m <= Len(p)
    PROVE  SpanParts(v, n, w, SubSeq(p, k, Len(p)), q)
<1>1. PICK l \in Nat : Len(p) = l
    BY Nothing
<1>2. PICK h \in Stream, z \in Stream :
          p = h \o z /\ Len(h) = m /\ z = SubSeq(p, k, l)
    <2>1. m \in 0..Len(p)
        BY <1>1
    <2> QED
        BY <1>1, <2>1, Cut
<1>3. PICK y \in Stream : y = z \o q
    BY Joined
<1>4. p \o q = h \o y
    <2>1. (h \o z) \o q = h \o (z \o q)
        BY Assoc
    <2> QED
        BY <1>2, <1>3, <2>1
<1>5. Len(h \o y) = w + 4 /\ \A i \in 1..w + 4 : (h \o y)[i] = HeadedAtom(v, n, i)
    BY <1>4 DEF IsHeaded
<1>6. PICK e \in Nat : Len(y) = e
    BY Nothing
<1>7. Len(h \o y) = m + e /\ \A i \in 1..e : (h \o y)[m + i] = y[i]
    <2>1. /\ Len(h \o y) = Len(h) + Len(y)
          /\ \A i \in 1..Len(y) : (h \o y)[Len(h) + i] = y[i]
        BY Joined
    <2> QED
        BY <1>2, <1>6, <2>1
<1>8. e = w - n
    BY <1>5, <1>7
<1>9. ASSUME NEW i \in 1..e PROVE y[i] = PlainAtom(v, n + i)
    <2>1. PICK j \in Nat : j = m + i
        OBVIOUS
    <2>2. j \in 1..w + 4 /\ j \in Nat \ {0} /\ j > n + 4 /\ j - 4 = n + i
        BY <1>8, <2>1
    <2>3. HeadedAtom(v, n, j) = PlainAtom(v, j - 4)
        BY <2>2, HeadedAtoms
    <2>4. (h \o y)[j] = y[i]
        BY <1>7, <2>1
    <2> QED
        BY <1>5, <2>2, <2>3, <2>4
<1>10. y = Span(v, n, w)
    <2>1. ReadsAs(y, v, n)
        BY <1>6, <1>9 DEF ReadsAs
    <2>2. Len(y) = w - n
        BY <1>6, <1>8
    <2> QED
        BY <2>1, <2>2, SpanIs
<1>11. z \o q = Span(v, n, w)
    BY <1>3, <1>10
<1> QED
    BY <1>1, <1>2, <1>11, SpanSplit

-----------------------------------------------------------------------------
(* What the relay has been handed.                                         *)

GotOk(g) ==
    /\ g \in Stream
    /\ \A i \in 1..Len(g) :
          g[i] \in {Mark("data", i)} \cup IF StrayHex THEN {Mark("bad", i)} ELSE {}
    /\ \A i, j \in 1..Len(g) : g[i].t = "bad" /\ g[j].t = "bad" => i = j

LEMMA OutAtom ==
    ASSUME NEW v \in Nat, NEW i \in Nat, NEW a,
           a = PlainAtom(v, i + 1) \/ (StrayHex /\ a = Spoilt(v, i + 1)), i > 0
    PROVE  a \in {Mark("data", i)} \cup IF StrayHex THEN {Mark("bad", i)} ELSE {}
<1>1. PlainAtom(v, i + 1) = Mark("data", i)
    <2>1. i + 1 # 1 /\ i + 1 - 1 = i
        OBVIOUS
    <2> QED
        BY <2>1 DEF PlainAtom
<1>2. Spoilt(v, i + 1) = Mark("bad", i)
    BY <1>1 DEF Spoilt, Mark
<1> QED
    BY <1>1, <1>2

\* The first read of a connection, without the IV in front.
LEMMA GotFirst ==
    ASSUME NEW v \in Nat, NEW m \in Nat, 1 <= m, NEW x, IsOut(v, m, x),
           NEW e \in Nat, e = 2
    PROVE  GotOk(SubSeq(x, e, Len(x))) /\ Len(SubSeq(x, e, Len(x))) + 1 = m
<1>1. /\ x \in Stream /\ Len(x) = m
      /\ \A i \in 1..m : x[i] = PlainAtom(v, i) \/ (StrayHex /\ x[i] = Spoilt(v, i))
      /\ \A i, j \in 1..m : x[i].t = "bad" /\ x[j].t = "bad" => i = j
    BY DEF IsOut
<1>2. PICK o \in Nat : o = 1 /\ e = o + 1
    OBVIOUS
<1>3. IsMiddle(x, o, m, SubSeq(x, e, m))
    BY <1>1, <1>2, Middle
<1>4. PICK g \in Stream, n \in Nat :
          /\ g = SubSeq(x, e, Len(x)) /\ n + 1 = m /\ Len(g) = n
          /\ \A i \in 1..n : g[i] = x[i + 1]
    <2>1. PICK n \in Nat : n = m - 1
        OBVIOUS
    <2>2. /\ SubSeq(x, e, m) \in Stream /\ Len(SubSeq(x, e, m)) = m - o
          /\ \A i \in 1..(m - o) : SubSeq(x, e, m)[i] = x[o + i]
        BY <1>3 DEF IsMiddle
    <2>3. m - o = n /\ n + 1 = m /\ \A i \in 1..n : o + i = i + 1
        BY <1>2, <2>1
    <2>4. \A i \in 1..n : SubSeq(x, e, m)[i] = x[i + 1]
        BY <2>2, <2>3
    <2>5. Len(SubSeq(x, e, m)) = n
        BY <2>2, <2>3
    <2> QED
        BY <1>1, <2>2, <2>3, <2>4, <2>5
<1>5. ASSUME NEW i \in 1..n
      PROVE  g[i] \in {Mark("data", i)} \cup IF StrayHex THEN {Mark("bad", i)} ELSE {}
    <2>1. i + 1 \in 1..m /\ i \in Nat /\ i > 0
        BY <1>4
    <2>2. g[i] = PlainAtom(v, i + 1) \/ (StrayHex /\ g[i] = Spoilt(v, i + 1))
        BY <1>1, <1>4, <2>1
    <2> QED
        BY <2>1, <2>2, OutAtom
<1>6. ASSUME NEW i \in 1..n, NEW j \in 1..n, g[i].t = "bad", g[j].t = "bad"
      PROVE  i = j
    <2>1. i + 1 \in 1..m /\ j + 1 \in 1..m
        BY <1>4
    <2>2. x[i + 1].t = "bad" /\ x[j + 1].t = "bad"
        BY <1>4, <1>6
    <2>3. i + 1 = j + 1
        BY <1>1, <2>1, <2>2
    <2> QED
        BY <2>3
<1>7. GotOk(g)
    BY <1>4, <1>5, <1>6 DEF GotOk
<1> QED
    BY <1>4, <1>7

\* The reads that follow.
Grown(v, g, r, m) == GotOk(g \o Span(v, r, m)) /\ Len(g \o Span(v, r, m)) + 1 = m

LEMMA GotMore ==
    ASSUME NEW v \in Nat, NEW g, GotOk(g), NEW r \in Nat, r = Len(g) + 1,
           NEW m \in Nat, r <= m
    PROVE  Grown(v, g, r, m)
<1>1. /\ g \in Stream
      /\ \A i \in 1..Len(g) :
            g[i] \in {Mark("data", i)} \cup IF StrayHex THEN {Mark("bad", i)} ELSE {}
      /\ \A i, j \in 1..Len(g) : g[i].t = "bad" /\ g[j].t = "bad" => i = j
    BY DEF GotOk
<1>2. PICK l \in Nat : Len(g) = l
    BY <1>1, Nothing
<1>3. PICK y \in Stream, n \in Nat :
          /\ y = Span(v, r, m) /\ Len(y) = n /\ n = m - r
          /\ \A i \in 1..n : y[i] = PlainAtom(v, r + i)
    <2>1. /\ Span(v, r, m) \in Stream /\ Len(Span(v, r, m)) = m - r
          /\ \A i \in 1..(m - r) : Span(v, r, m)[i] = PlainAtom(v, r + i)
        BY SpanType
    <2>2. PICK n \in Nat : n = m - r
        <3>1. m - r \in Nat
            OBVIOUS
        <3> QED
            BY <3>1
    <2> QED
        BY <2>1, <2>2
<1>4. PICK x \in Stream :
          /\ x = g \o y /\ Len(x) = l + n
          /\ \A i \in 1..l : x[i] = g[i]
          /\ \A i \in 1..n : x[l + i] = y[i]
    <2>1. /\ g \o y \in Stream /\ Len(g \o y) = Len(g) + Len(y)
          /\ \A i \in 1..Len(g) : (g \o y)[i] = g[i]
          /\ \A i \in 1..Len(y) : (g \o y)[Len(g) + i] = y[i]
        BY <1>1, Joined
    <2> QED
        BY <1>2, <1>3, <2>1
<1>5. ASSUME NEW i \in 1..l + n, ~(i <= l)
      PROVE  x[i] = PlainAtom(v, i + 1) /\ i \in Nat /\ i > 0 /\ x[i].t # "bad"
    <2>1. PICK j \in 1..n : i = l + j
        <3>1. i - l \in 1..n /\ i = l + (i - l)
            BY <1>5
        <3> QED
            BY <3>1
    <2>2. x[i] = PlainAtom(v, r + j)
        BY <1>3, <1>4, <2>1
    <2>3. r + j = i + 1 /\ r + j \in Nat \ {0}
        BY <1>2, <2>1
    <2>4. PlainAtom(v, r + j).t \in {"iv", "data"}
        BY <2>3, PlainType
    <2> QED
        BY <2>2, <2>3, <2>4
<1>6. ASSUME NEW i \in 1..l + n
      PROVE  x[i] \in {Mark("data", i)} \cup IF StrayHex THEN {Mark("bad", i)} ELSE {}
    <2>1. CASE i <= l
        <3>1. i \in 1..l
            BY <2>1
        <3> QED
            BY <1>1, <1>2, <1>4, <3>1
    <2>2. CASE ~(i <= l)
        BY <1>5, <2>2, OutAtom
    <2> QED
        BY <2>1, <2>2
<1>7. ASSUME NEW i \in 1..l + n, NEW j \in 1..l + n, x[i].t = "bad", x[j].t = "bad"
      PROVE  i = j
    <2>1. i <= l /\ j <= l
        BY <1>5, <1>7
    <2>2. i \in 1..l /\ j \in 1..l
        BY <2>1
    <2>3. g[i].t = "bad" /\ g[j].t = "bad"
        BY <1>4, <1>7, <2>2
    <2> QED
        BY <1>1, <1>2, <2>2, <2>3
<1>8. GotOk(x)
    BY <1>4, <1>6, <1>7 DEF GotOk
<1>9. Len(x) + 1 = m
    <2>1. r = l + 1 /\ n = m - r /\ Len(x) = l + n
        BY <1>2, <1>3, <1>4
    <2>2. l + n + 1 = m
        BY <2>1
    <2> QED
        BY <2>1, <2>2
<1> QED
    BY <1>3, <1>4, <1>8, <1>9 DEF Grown

\* What was in the URL and what was behind the head.
LEMMA OutJoin ==
    ASSUME NEW v \in Nat, NEW n \in Nat, NEW m \in Nat, n <= m, NEW x, IsOut(v, n, x)
    PROVE  IsOut(v, m, x \o Span(v, n, m))
<1>1. /\ x \in Stream /\ Len(x) = n
      /\ \A i \in 1..n : x[i] = PlainAtom(v, i) \/ (StrayHex /\ x[i] = Spoilt(v, i))
      /\ \A i, j \in 1..n : x[i].t = "bad" /\ x[j].t = "bad" => i = j
    BY DEF IsOut
<1>2. PICK y \in Stream, k \in Nat :
          /\ y = Span(v, n, m) /\ Len(y) = k /\ k = m - n
          /\ \A i \in 1..k : y[i] = PlainAtom(v, n + i)
    <2>1. /\ Span(v, n, m) \in Stream /\ Len(Span(v, n, m)) = m - n
          /\ \A i \in 1..(m - n) : Span(v, n, m)[i] = PlainAtom(v, n + i)
        BY SpanType
    <2>2. PICK k \in Nat : k = m - n
        OBVIOUS
    <2> QED
        BY <2>1, <2>2
<1>3. PICK z \in Stream :
          /\ z = x \o y /\ Len(z) = m
          /\ \A i \in 1..n : z[i] = x[i]
          /\ \A i \in 1..k : z[n + i] = y[i]
    <2>1. /\ x \o y \in Stream /\ Len(x \o y) = Len(x) + Len(y)
          /\ \A i \in 1..Len(x) : (x \o y)[i] = x[i]
          /\ \A i \in 1..Len(y) : (x \o y)[Len(x) + i] = y[i]
        BY <1>1, Joined
    <2>2. n + k = m
        BY <1>2
    <2>3. Len(x \o y) = m
        BY <1>1, <1>2, <2>1, <2>2
    <2>4. /\ \A i \in 1..n : (x \o y)[i] = x[i]
          /\ \A i \in 1..k : (x \o y)[n + i] = y[i]
        BY <1>1, <1>2, <2>1
    <2> QED
        BY <2>1, <2>3, <2>4
<1>4. ASSUME NEW i \in 1..m, ~(i <= n)
      PROVE  z[i] = PlainAtom(v, i) /\ z[i].t # "bad"
    <2>1. PICK j \in 1..k : i = n + j
        <3>1. i - n \in 1..k /\ i = n + (i - n)
            BY <1>2, <1>4
        <3> QED
            BY <3>1
    <2>2. z[i] = PlainAtom(v, i)
        BY <1>2, <1>3, <2>1
    <2>3. i \in Nat \ {0}
        OBVIOUS
    <2>4. PlainAtom(v, i).t \in {"iv", "data"}
        BY <2>3, PlainType
    <2> QED
        BY <2>2, <2>4
<1>5. ASSUME NEW i \in 1..m
      PROVE  z[i] = PlainAtom(v, i) \/ (StrayHex /\ z[i] = Spoilt(v, i))
    <2>1. CASE i <= n
        <3>1. i \in 1..n
            BY <2>1
        <3> QED
            BY <1>1, <1>3, <3>1
    <2>2. CASE ~(i <= n)
        BY <1>4, <2>2
    <2> QED
        BY <2>1, <2>2
<1>6. ASSUME NEW i \in 1..m, NEW j \in 1..m, z[i].t = "bad", z[j].t = "bad"
      PROVE  i = j
    <2>1. i <= n /\ j <= n
        BY <1>4, <1>6
    <2>2. i \in 1..n /\ j \in 1..n
        BY <2>1
    <2>3. x[i].t = "bad" /\ x[j].t = "bad"
        BY <1>3, <1>6, <2>2
    <2> QED
        BY <1>1, <2>2, <2>3
<1>7. IsOut(v, m, z)
    BY <1>3, <1>5, <1>6 DEF IsOut
<1> QED
    BY <1>2, <1>3, <1>7

-----------------------------------------------------------------------------
(* The shape of what is on its way, and of what the two ends remember.     *)

TicketLocal == [status : Nat, sendBuf : Stream, recvBuf : Stream]
HttpLocal   == [sentHeader : BOOLEAN, recvHeader : BOOLEAN, hostMatched : BOOLEAN,
                recvBuf : Stream]
ClientLocal == [tls : TicketLocal, http : HttpLocal, units : Nat]
ServerLocal == [tls : TicketLocal, http : HttpLocal, buf : Stream, init : BOOLEAN,
                plainSpoken : BOOLEAN, sealed : BOOLEAN]

\* How far a connection is: atoms of its client's plaintext written and handed to
\* the relay, and atoms of the answers sent.
Written(cl)     == IF cl.units = 0 THEN 0 ELSE cl.units + 1
Handed(sv, g)   == IF sv.init THEN Len(g) + 1 ELSE 0
Answered(sv, n) == IF sv.sealed THEN n + 1 ELSE 0

\* before the server has decrypted anything: all that was written, w atoms of
\* the plaintext, is in the buffer or on its way
PlainOpening(k, v, sv, in, w) ==
    /\ in = Span(v, 0, w)
    /\ k = "http" => sv.http.recvBuf = <<>> /\ ~sv.http.recvHeader
    /\ k = "tls" => sv.tls.status = 0

\* the first n atoms stand in the URL of the head, the rest behind it
HttpOpening(v, cl, sv, in, w) ==
    /\ sv.http.recvBuf = <<>> /\ ~sv.http.recvHeader
    /\ cl.http.sentHeader <=> w > 0
    /\ w = 0 => in = <<>>
    /\ w > 0 => \E n \in 1..w : IsHeaded(v, n, w, in)

\* the plaintext waits in records at the client until the handshake is through:
\* nothing said yet, the hello and its answer, the finish and the records behind
TicketQuiet(cl, sv, in, w) ==
    /\ cl.tls.status = 0 /\ sv.tls.status = 0 /\ w = 0
    /\ cl.tls.sendBuf = <<>> /\ in = <<>>
TicketHello(v, c, cl, sv, in, w) ==
    /\ cl.tls.status = 1 /\ w > 0 /\ Framed(v, cl.tls.sendBuf, 0, w)
    /\ \/ sv.tls.status = 0 /\ in = Flight("hello", HelloLength, c)
       \/ sv.tls.status = 3 /\ in = <<>>
TicketFinish(v, c, cl, sv, in, w) ==
    /\ cl.tls.status = 8 /\ sv.tls.status = 3 /\ w > 0
    /\ \E x \in Stream : in = Flight("finish", FinishLength, c) \o x /\ Framed(v, x, 0, w)
TicketOpening(v, c, cl, sv, in, w) ==
    \/ TicketQuiet(cl, sv, in, w)
    \/ TicketHello(v, c, cl, sv, in, w)
    \/ TicketFinish(v, c, cl, sv, in, w)

Opening(k, speaks, v, c, cl, sv, in, w) ==
    /\ k = "none" \/ ~speaks => PlainOpening(k, v, sv, in, w)
    /\ k = "http" /\ speaks => HttpOpening(v, cl, sv, in, w)
    /\ k = "tls" /\ speaks => TicketOpening(v, c, cl, sv, in, w)

\* afterwards: what lies between what was handed to the relay, r atoms, and what
\* was written
Ongoing(k, speaks, v, cl, sv, pipe, r, w) ==
    /\ k # "tls" \/ ~speaks => pipe = Span(v, r, w)
    /\ k = "http" => sv.http.recvHeader
    /\ k = "http" /\ speaks => cl.http.sentHeader
    /\ k = "tls" /\ ~speaks => sv.tls.status = 2
    /\ k = "tls" /\ speaks => /\ cl.tls.status = 8 /\ sv.tls.status = 8
                              /\ Framed(v, sv.tls.recvBuf \o pipe, r, w)

\* up and server->buf of a connection that goes on, g handed to its relay
UpShape(k, speaks, v, c, cl, sv, pipe, g) ==
    /\ Handed(sv, g) <= Written(cl)
    /\ sv.init => /\ sv.buf = <<>> /\ g # <<>>
                  /\ k # "none" => (sv.plainSpoken <=> ~speaks)
                  /\ Ongoing(k, speaks, v, cl, sv, pipe, Handed(sv, g), Written(cl))
    /\ ~sv.init => /\ g = <<>> /\ ~sv.plainSpoken
                   /\ Opening(k, speaks, v, c, cl, sv, sv.buf \o pipe, Written(cl))

\* The head of the answer, with what is behind it: all of it, or its last two
\* atoms; and what has no end of a head in it.
IsAnswer(f, s, x) ==
    /\ x \in Stream /\ Len(x) = f + s
    /\ x[f - 1] = Mark("end", 1) /\ x[f] = Mark("end", 2)
    /\ f = 3 => x[1] = Mark("ok", 0)
    /\ \A i \in 1..s : x[f + i] = PlainAtom(0, i)
NoEnd(x) == \A i \in 1..Len(x) : x[i] # Mark("end", 1)

\* What is on its way to the client, which has taken b atoms of the answers.
HttpDown(cl, sv, pipe, b, s) ==
    /\ sv.http.sentHeader <=> sv.sealed
    /\ \/ cl.http.recvHeader /\ sv.sealed /\ pipe = Span(0, b, s)
       \/ ~cl.http.recvHeader /\ ~sv.sealed /\ pipe = <<>>
       \/ /\ ~cl.http.recvHeader /\ sv.sealed /\ b = 0
          /\ NoEnd(pipe) \/ \E f \in {2, 3} : IsAnswer(f, s, pipe)

\* before the client has the reply to its hello, when data may follow, and with
\* what is left of the reply in front
AllReply(pipe) == \A i \in 1..Len(pipe) : pipe[i].t = "reply"

TicketDown(cl, sv, pipe, b, s) ==
    \/ /\ cl.tls.status \in {0, 1} /\ cl.tls.recvBuf = <<>> /\ ~sv.sealed
       /\ pipe = <<>> \/ (cl.tls.status = 1 /\ sv.tls.status = 3 /\ AllReply(pipe))
    \/ cl.tls.status = 8 /\ Framed(0, cl.tls.recvBuf \o pipe, b, s)
    \/ /\ cl.tls.status = 8 /\ b = 0 /\ cl.tls.recvBuf \o pipe # <<>>
       /\ (cl.tls.recvBuf \o pipe)[1].t = "reply"

\* b atoms of the answers taken, of which the IV is not handed over
Taking(bk, b) == IF b = 0 THEN bk = <<>> ELSE bk = Span(0, 1, b)

OnWay(k, speaks, cl, sv, pipe, b, s) ==
    /\ k = "none" \/ ~speaks => pipe = Span(0, b, s)
    /\ k = "http" /\ speaks => HttpDown(cl, sv, pipe, b, s)
    /\ k = "tls" /\ speaks => TicketDown(cl, sv, pipe, b, s)

DownShape(k, speaks, cl, sv, pipe, bk, n) ==
    /\ sv.sealed => sv.init
    /\ ~sv.sealed => n = 0
    /\ \E b \in 0..Answered(sv, n) :
          Taking(bk, b) /\ OnWay(k, speaks, cl, sv, pipe, b, Answered(sv, n))

-----------------------------------------------------------------------------
(* What comes of a read of the server: p is decoded, q stays behind.       *)

\* the plug-in touches nothing but its own data
Kept(sv, t) ==
    /\ t \in ServerLocal
    /\ t.buf = sv.buf /\ (t.init <=> sv.init) /\ (t.sealed <=> sv.sealed)
    /\ t.plainSpoken <=> sv.plainSpoken

OutOf(d, p) == IF d.ok THEN d.out ELSE p

\* it gives the next of the plaintext
Passes(k, speaks, v, cl, sv, d, p, q, r, w) ==
    /\ ~d.back
    /\ k # "none" => (sv.plainSpoken \/ ~d.ok <=> ~speaks)
    /\ k = "http" /\ speaks => (d.server.http.sentHeader <=> sv.http.sentHeader)
    /\ \E m \in Nat : /\ r <= m /\ m <= w
                      /\ Ongoing(k, speaks, v, cl, d.server, q, m, w)
                      /\ sv.init => OutOf(d, p) = Span(v, r, m)
                      /\ ~sv.init => IsOut(v, m, OutOf(d, p))

\* it gives what is no IV, not even a spoilt one, at the beginning
Fails(sv, d, p) ==
    /\ ~d.back /\ ~sv.init
    /\ OutOf(d, p) = <<>> \/ OutOf(d, p)[1].t \notin {"iv", "bad"}

\* the hello is answered
Greets(k, speaks, c, cl, sv, d, q) ==
    /\ d.back /\ ~sv.init /\ k = "tls" /\ speaks /\ q = <<>>
    /\ cl.tls.status = 1
    /\ d.server.tls.status = 2 /\ d.global[c].ids = {c}

\* one of the three, and nothing else is touched
Outcome(k, speaks, v, c, cl, sv, d, p, q, r, w) ==
    /\ Kept(sv, d.server)
    /\ d.ok \in BOOLEAN
    /\ \/ Passes(k, speaks, v, cl, sv, d, p, q, r, w)
       \/ Fails(sv, d, p)
       \/ Greets(k, speaks, c, cl, sv, d, q)

\* What the lemmas on a read of the server take for granted.
Reads(c, v, cl, sv, p, q, r, w) ==
    /\ c \in Conns /\ v \in Nat /\ cl \in ClientLocal /\ sv \in ServerLocal /\ sv = server[c]
    /\ p \in Stream /\ q \in Stream /\ p # <<>> /\ r \in Nat /\ w \in Nat /\ r <= w
    /\ sv.init => /\ r > 0
                  /\ class # "none" => (sv.plainSpoken <=> ~peer[c].speaks)
                  /\ Ongoing(class, peer[c].speaks, v, cl, sv, p \o q, r, w)
    /\ ~sv.init => /\ r = 0 /\ ~sv.plainSpoken
                   /\ Opening(class, peer[c].speaks, v, c, cl, sv, p \o q, w)

LEMMA ClassType == class \in {"none", "http", "tls"}
BY DEF class, NewObfsClass

LEMMA DecodeNone ==
    ASSUME NEW c, NEW v, NEW cl, NEW sv, NEW p, NEW q, NEW r, NEW w,
           Reads(c, v, cl, sv, p, q, r, w), NEW d \in Deobfuscated(c, p), class = "none"
    PROVE  Outcome(class, peer[c].speaks, v, c, cl, sv, d, p, q, r, w)
<1>1. /\ v \in Nat /\ p \in Stream /\ q \in Stream /\ r \in Nat /\ w \in Nat /\ r <= w
      /\ sv \in ServerLocal /\ sv = server[c]
    BY DEF Reads
<1>2. d = [server |-> sv, global |-> global, out |-> p, ok |-> TRUE, back |-> FALSE]
    BY <1>1 DEF Deobfuscated
<1>3. d.server = sv /\ d.out = p /\ d.ok /\ ~d.back /\ OutOf(d, p) = p
    BY <1>2 DEF OutOf
<1>4. p \o q = Span(v, r, w)
    BY <1>1 DEF Reads, Opening, PlainOpening, Ongoing
<1>5. PICK m \in Nat : r <= m /\ m <= w /\ p = Span(v, r, m) /\ q = Span(v, m, w)
    <2>1. SpanParts(v, r, w, p, q)
        BY <1>1, <1>4, SpanSplit
    <2> QED
        BY <2>1 DEF SpanParts
<1>6. Ongoing(class, peer[c].speaks, v, cl, d.server, q, m, w)
    BY <1>5 DEF Ongoing
<1>7. ~sv.init => IsOut(v, m, p)
    <2>1. ~sv.init => r = 0
        BY DEF Reads
    <2> QED
        BY <1>1, <1>5, <2>1, OutSpan
<1>8. Kept(sv, d.server)
    BY <1>1, <1>3 DEF Kept
<1>9. Passes(class, peer[c].speaks, v, cl, sv, d, p, q, r, w)
    BY <1>3, <1>5, <1>6, <1>7 DEF Passes
<1> QED
    BY <1>2, <1>8, <1>9 DEF Outcome

\* A client that does not speak the plug-in: what it sends is not taken for what
\* the plug-in waits for.
LEMMA PlainFirst ==
    ASSUME NEW v \in Nat, NEW p \in Stream, p # <<>>, NEW r \in Nat, NEW m \in Nat, r <= m,
           p = Span(v, r, m)
    PROVE  p[1].t \in {"iv", "data"} /\ (r = 0 => p[1].t = "iv")
<1>1. /\ Len(p) = m - r
      /\ \A i \in 1..(m - r) : p[i] = PlainAtom(v, r + i)
    BY SpanType
<1>2. 1 \in 1..(m - r)
    <2>1. Len(p) # 0 /\ Len(p) \in Nat
        BY Nothing
    <2> QED
        BY <1>1, <2>1
<1>3. PICK i \in Nat \ {0} : i = r + 1
    OBVIOUS
<1>4. p[1] = PlainAtom(v, i)
    BY <1>1, <1>2, <1>3
<1>5. PlainAtom(v, i).t = (IF i = 1 THEN "iv" ELSE "data") /\ PlainAtom(v, i).t \in {"iv", "data"}
    BY PlainType
<1> QED
    BY <1>3, <1>4, <1>5

LEMMA DecodeStrangerHttp ==
    ASSUME NEW c, NEW v, NEW cl, NEW sv, NEW p, NEW q, NEW r, NEW w,
           Reads(c, v, cl, sv, p, q, r, w), NEW d \in Deobfuscated(c, p),
           class = "http", ~peer[c].speaks
    PROVE  Outcome(class, peer[c].speaks, v, c, cl, sv, d, p, q, r, w)
<1>1. /\ v \in Nat /\ p \in Stream /\ q \in Stream /\ p # <<>> /\ r \in Nat /\ w \in Nat /\ r <= w
      /\ sv \in ServerLocal /\ sv = server[c]
    BY DEF Reads
<1>2. p \o q = Span(v, r, w)
    BY DEF Reads, Opening, PlainOpening, Ongoing
<1>3. PICK m \in Nat : r <= m /\ m <= w /\ p = Span(v, r, m) /\ q = Span(v, m, w)
    <2>1. SpanParts(v, r, w, p, q)
        BY <1>1, <1>2, SpanSplit
    <2> QED
        BY <2>1 DEF SpanParts
<1>4. PICK e \in HttpServerDecode(sv.http, p, peer[c]) :
          d = [server |-> [sv EXCEPT !.http = e.local], global |-> global, out |-> e.out,
               ok |-> e.ok, back |-> FALSE]
    BY <1>1 DEF Deobfuscated
<1>5. d.server = [sv EXCEPT !.http = e.local] /\ d.out = e.out /\ d.ok = e.ok /\ d.back = FALSE
    BY <1>4
<1>6. sv.http \in HttpLocal
    BY <1>1 DEF ServerLocal
<1>7. /\ e.local \in HttpLocal /\ e.local.recvHeader
      /\ sv.init => e.ok = TRUE /\ e.out = p
      /\ ~sv.init => e.ok = FALSE
    <2>1. CASE sv.init
        <3>1. sv.http.recvHeader
            BY <2>1 DEF Reads, Ongoing
        <3>2. e = HttpAnswer(sv.http, p, TRUE)
            BY <3>1 DEF HttpServerDecode
        <3> QED
            BY <1>6, <2>1, <3>1, <3>2 DEF HttpAnswer
    <2>2. CASE ~sv.init
        <3>1. sv.http.recvBuf = <<>> /\ ~sv.http.recvHeader /\ r = 0
            BY <2>2 DEF Reads, Opening, PlainOpening
        <3>2. sv.http.recvBuf \o p = p
            BY <1>1, <3>1, Nothing
        <3>3. p[1].t # "get"
            BY <1>1, <1>3, PlainFirst
        <3>4. e = HttpAnswer(PassThrough(sv.http), <<>>, FALSE)
            BY <3>1, <3>2, <3>3 DEF HttpServerDecode
        <3>5. PassThrough(sv.http) \in HttpLocal /\ PassThrough(sv.http).recvHeader
            BY <1>6, Nothing DEF PassThrough, HttpLocal
        <3> QED
            BY <2>2, <3>4, <3>5 DEF HttpAnswer
    <2> QED
        BY <2>1, <2>2
<1>8. Kept(sv, d.server) /\ d.server.http = e.local
    BY <1>1, <1>5, <1>7 DEF Kept, ServerLocal
<1>9. OutOf(d, p) = p
    BY <1>5, <1>7 DEF OutOf
<1>10. Ongoing(class, peer[c].speaks, v, cl, d.server, q, m, w)
    BY <1>3, <1>7, <1>8 DEF Ongoing
<1>11. ~sv.init => IsOut(v, m, p)
    <2>1. ~sv.init => r = 0
        BY DEF Reads
    <2> QED
        BY <1>1, <1>3, <2>1, OutSpan
<1>12. sv.plainSpoken \/ ~d.ok
    <2>1. sv.init => sv.plainSpoken
        <3>1. sv.init => (class # "none" => (sv.plainSpoken <=> ~peer[c].speaks))
            BY Zenon DEF Reads
        <3>2. class # "none"
            OBVIOUS
        <3> QED
            BY <3>1, <3>2
    <2>2. ~sv.init => ~d.ok
        BY <1>5, <1>7
    <2> QED
        BY <2>1, <2>2
<1>13. Passes(class, peer[c].speaks, v, cl, sv, d, p, q, r, w)
    BY <1>3, <1>5, <1>9, <1>10, <1>11, <1>12 DEF Passes
<1>14. d.ok \in BOOLEAN
    BY <1>5, <1>7
<1> QED
    BY <1>8, <1>13, <1>14 DEF Outcome

LEMMA DecodeStrangerTls ==
    ASSUME NEW c, NEW v, NEW cl, NEW sv, NEW p, NEW q, NEW r, NEW w,
           Reads(c, v, cl, sv, p, q, r, w), NEW d \in Deobfuscated(c, p),
           class = "tls", ~peer[c].speaks
    PROVE  Outcome(class, peer[c].speaks, v, c, cl, sv, d, p, q, r, w)
<1>1. /\ v \in Nat /\ p \in Stream /\ q \in Stream /\ p # <<>> /\ r \in Nat /\ w \in Nat /\ r <= w
      /\ sv \in ServerLocal /\ sv = server[c]
    BY DEF Reads
<1>2. p \o q = Span(v, r, w)
    BY DEF Reads, Opening, PlainOpening, Ongoing
<1>3. PICK m \in Nat : r <= m /\ m <= w /\ p = Span(v, r, m) /\ q = Span(v, m, w)
    <2>1. SpanParts(v, r, w, p, q)
        BY <1>1, <1>2, SpanSplit
    <2> QED
        BY <2>1 DEF SpanParts
<1>4. PICK e : /\ e = TicketServerDecode(sv.tls, global[Global(c)], p, peer[c])
               /\ d = [server |-> [sv EXCEPT !.tls = e.local],
                       global |-> [global EXCEPT ![Global(c)] = e.global],
                       out |-> e.out, ok |-> e.ok, back |-> e.back]
    BY <1>1 DEF Deobfuscated
<1>5. /\ d.server = [sv EXCEPT !.tls = e.local] /\ d.out = e.out
      /\ d.ok = e.ok /\ d.back = e.back
    BY <1>4
<1>6. sv.tls \in TicketLocal /\ sv.tls.status \in {0, 2}
    BY <1>1 DEF ServerLocal, Reads, Opening, PlainOpening, Ongoing
<1>7. e.local \in TicketLocal /\ e.local.status = 2 /\ e.ok = FALSE /\ e.back = FALSE
    <2>1. p[1].t # "hello"
        BY <1>1, <1>3, PlainFirst
    <2>2. e = Hello(sv.tls, global[Global(c)], p, peer[c])
        BY <1>4, <1>6 DEF TicketServerDecode
    <2>3. e = Refused([sv.tls EXCEPT !.status = 2], global[Global(c)])
        BY <2>1, <2>2 DEF Hello
    <2> QED
        BY <1>6, <2>3 DEF Refused, TicketLocal
<1>8. Kept(sv, d.server) /\ d.server.tls = e.local
    BY <1>1, <1>5, <1>7 DEF Kept, ServerLocal
<1>9. OutOf(d, p) = p
    BY <1>5, <1>7 DEF OutOf
<1>10. Ongoing(class, peer[c].speaks, v, cl, d.server, q, m, w)
    BY <1>3, <1>7, <1>8 DEF Ongoing
<1>11. ~sv.init => IsOut(v, m, p)
    <2>1. ~sv.init => r = 0
        BY DEF Reads
    <2> QED
        BY <1>1, <1>3, <2>1, OutSpan
<1>12. Passes(class, peer[c].speaks, v, cl, sv, d, p, q, r, w)
    BY <1>3, <1>5, <1>7, <1>9, <1>10, <1>11 DEF Passes
<1>13. d.ok \in BOOLEAN
    BY <1>5, <1>7
<1> QED
    BY <1>8, <1>12, <1>13 DEF Outcome

LEMMA DecodeHttp ==
    ASSUME NEW c, NEW v, NEW cl, NEW sv, NEW p, NEW q, NEW r, NEW w,
           Reads(c, v, cl, sv, p, q, r, w), NEW d \in Deobfuscated(c, p),
           class = "http", peer[c].speaks
    PROVE  Outcome(class, peer[c].speaks, v, c, cl, sv, d, p, q, r, w)
<1>1. /\ v \in Nat /\ p \in Stream /\ q \in Stream /\ p # <<>> /\ r \in Nat /\ w \in Nat /\ r <= w
      /\ sv \in ServerLocal /\ sv = server[c]
    BY DEF Reads
<1>2. PICK e \in HttpServerDecode(sv.http, p, peer[c]) :
          d = [server |-> [sv EXCEPT !.http = e.local], global |-> global, out |-> e.out,
               ok |-> e.ok, back |-> FALSE]
    BY <1>1 DEF Deobfuscated
<1>3. d.server = [sv EXCEPT !.http = e.local] /\ d.out = e.out /\ d.ok = e.ok /\ d.back = FALSE
    BY <1>2
<1>4. sv.http \in HttpLocal
    BY <1>1 DEF ServerLocal
<1>5. ASSUME e.local \in HttpLocal
      PROVE  Kept(sv, d.server) /\ d.server.http = e.local
    BY <1>1, <1>3, <1>5 DEF Kept, ServerLocal
<1>6. CASE sv.init
    <2>1. /\ sv.http.recvHeader /\ cl.http.sentHeader /\ p \o q = Span(v, r, w)
          /\ ~sv.plainSpoken
        <3>1. class # "none" => (sv.plainSpoken <=> ~peer[c].speaks)
            BY <1>6, Zenon DEF Reads
        <3>2. class # "none"
            OBVIOUS
        <3> QED
            BY <1>6, <3>1, <3>2 DEF Reads, Ongoing
    <2>2. PICK m \in Nat : r <= m /\ m <= w /\ p = Span(v, r, m) /\ q = Span(v, m, w)
        <3>1. SpanParts(v, r, w, p, q)
            BY <1>1, <2>1, SpanSplit
        <3> QED
            BY <3>1 DEF SpanParts
    <2>3. e = HttpAnswer(sv.http, p, TRUE)
        BY <2>1 DEF HttpServerDecode
    <2>4. e.local = sv.http /\ e.out = p /\ e.ok = TRUE
        BY <2>3 DEF HttpAnswer
    <2>5. Kept(sv, d.server) /\ d.server.http = sv.http
        BY <1>4, <1>5, <2>4
    <2>6. OutOf(d, p) = p /\ d.ok = TRUE
        BY <1>3, <2>4 DEF OutOf
    <2>7. Ongoing(class, peer[c].speaks, v, cl, d.server, q, m, w)
        BY <2>1, <2>2, <2>5 DEF Ongoing
    <2>8. Passes(class, peer[c].speaks, v, cl, sv, d, p, q, r, w)
        BY <1>3, <1>6, <2>1, <2>2, <2>5, <2>6, <2>7 DEF Passes
    <2> QED
        BY <2>5, <2>6, <2>8 DEF Outcome
<1>7. CASE ~sv.init
    <2>1. r = 0 /\ ~sv.plainSpoken /\ HttpOpening(v, cl, sv, p \o q, w)
        BY <1>7 DEF Reads, Opening
    <2>2. sv.http.recvBuf = <<>> /\ ~sv.http.recvHeader
        BY <2>1 DEF HttpOpening
    <2>3. PICK a \in Nat, b \in Nat : Len(p) = a /\ Len(q) = b /\ a > 0 /\ Len(p \o q) = a + b
        <3>1. Len(p) \in Nat /\ Len(q) \in Nat /\ Len(p) # 0
            BY <1>1, Nothing
        <3>2. Len(p \o q) = Len(p) + Len(q)
            BY <1>1, Joined
        <3>3. Len(p) > 0
            BY <3>1
        <3> QED
            BY <3>1, <3>2, <3>3
    <2>4. w > 0 /\ cl.http.sentHeader
        <3>1. p \o q # <<>>
            <4>1. a + b # 0
                BY <2>3
            <4> QED
                BY <2>3, <4>1, Nothing
        <3>2. w # 0
            BY <2>1, <3>1 DEF HttpOpening
        <3>3. w > 0
            BY <1>1, <3>2
        <3> QED
            BY <2>1, <3>3 DEF HttpOpening
    <2>5. PICK n \in 1..w : IsHeaded(v, n, w, p \o q)
        BY <2>1, <2>4 DEF HttpOpening
    <2>6. n \in Nat \ {0} /\ n <= w /\ n \in Nat
        BY <1>1
    <2>7. HeadStart(v, n, p)
        BY <1>1, <2>5, <2>6, HeadedPrefix
    <2>8. p[1].t = "get"
        <3>1. p[1] = HeadedAtom(v, n, 1)
            BY <2>3, <2>7 DEF HeadStart
        <3>2. HeadedAtom(v, n, 1) = Mark("get", 0)
            BY DEF HeadedAtom
        <3> QED
            BY <3>1, <3>2, HttpMarks
    <2>9. sv.http.recvBuf \o p = p
        BY <1>1, <2>2, Nothing
    <2>10. PICK l2 : /\ l2 = [sv.http EXCEPT !.recvBuf = p] /\ l2 \in HttpLocal
                     /\ l2.sentHeader = sv.http.sentHeader
        <3>1. [sv.http EXCEPT !.recvBuf = p] \in HttpLocal
            BY <1>1, <1>4 DEF HttpLocal
        <3>2. [sv.http EXCEPT !.recvBuf = p].sentHeader = sv.http.sentHeader
            BY <1>4 DEF HttpLocal
        <3> QED
            BY <3>1, <3>2
    <2>11. CASE EndAt(p) = 0
        <3>1. e = HttpAnswer(l2, <<>>, TRUE)
            BY <2>2, <2>8, <2>9, <2>10, <2>11 DEF HttpServerDecode
        <3>2. e.local = l2 /\ e.out = <<>> /\ e.ok = TRUE
            BY <3>1 DEF HttpAnswer
        <3>3. OutOf(d, p) = <<>> /\ d.ok = TRUE /\ ~d.back
            BY <1>3, <3>2 DEF OutOf
        <3> QED
            BY <1>5, <1>7, <2>10, <3>2, <3>3 DEF Outcome, Fails
    <2>12. CASE EndAt(p) # 0
        <3>1. e \in FullHead(l2, p, p, peer[c])
            BY <2>2, <2>8, <2>9, <2>10, <2>12 DEF HttpServerDecode
        <3>2. PICK m \in Nat, k \in Nat : m = n + 4 /\ k = m + 1 /\ m <= Len(p) /\ EndAt(p) = m
            <4>1. Len(p) >= n + 4
                <5>1. Len(p) < n + 4 => EndAt(p) = 0
                    BY <1>1, <2>6, <2>7, EndAtHead
                <5>2. Len(p) \in Nat
                    BY <2>3
                <5> QED
                    BY <2>6, <2>12, <5>1, <5>2
            <4>2. EndAt(p) = n + 4
                BY <1>1, <2>6, <2>7, <4>1, EndAtHead
            <4> QED
                BY <2>3, <4>1, <4>2
        <3>3. CASE ~l2.hostMatched /\ HostRead(peer[c].host) # "listed"
            <4>1. e = HttpAnswer(PassThrough(l2), <<>>, FALSE)
                BY <3>1, <3>3 DEF FullHead
            <4>2. e.local = PassThrough(l2) /\ e.ok = FALSE
                BY <4>1 DEF HttpAnswer
            <4>3. PassThrough(l2) \in HttpLocal
                BY <2>10, Nothing DEF PassThrough, HttpLocal
            <4>4. OutOf(d, p) = p /\ d.ok = FALSE /\ ~d.back
                BY <1>3, <4>2 DEF OutOf
            <4>5. Fails(sv, d, p)
                BY <1>7, <2>8, <4>4 DEF Fails
            <4> QED
                BY <1>5, <4>2, <4>3, <4>4, <4>5 DEF Outcome
        <3>4. CASE ~(~l2.hostMatched /\ HostRead(peer[c].host) # "listed")
            <4>1. PICK url \in UrlOf(p) :
                      e = HttpAnswer([l2 EXCEPT !.hostMatched = TRUE, !.recvHeader = url # <<>>],
                                     url \o SubSeq(p, EndAt(p) + 1, Len(p)), url # <<>>)
                BY <3>1, <3>4 DEF FullHead
            <4>2. IsOut(v, n, url)
                <5>1. Len(p) >= n + 4
                    BY <2>3, <3>2
                <5> QED
                    BY <1>1, <2>6, <2>7, <5>1, OutUrl
            <4>3. url # <<>> /\ url \in Stream
                BY <2>6, <4>2, Nothing DEF IsOut
            <4>4. SpanParts(v, n, w, SubSeq(p, k, Len(p)), q)
                BY <1>1, <2>5, <2>6, <3>2, HeadRest
            <4>5. PICK f \in Nat : n <= f /\ f <= w /\ SubSeq(p, k, Len(p)) = Span(v, n, f)
                                   /\ q = Span(v, f, w)
                BY <4>4 DEF SpanParts
            <4>6. IsOut(v, f, url \o Span(v, n, f))
                BY <1>1, <2>6, <4>2, <4>5, OutJoin
            <4>7. /\ e.local = [l2 EXCEPT !.hostMatched = TRUE, !.recvHeader = TRUE]
                  /\ e.out = url \o Span(v, n, f) /\ e.ok = TRUE
                BY <3>2, <4>1, <4>3, <4>5 DEF HttpAnswer
            <4>8. /\ e.local \in HttpLocal /\ e.local.recvHeader
                  /\ (e.local.sentHeader <=> sv.http.sentHeader)
                BY <2>10, <4>7 DEF HttpLocal
            <4>9. OutOf(d, p) = url \o Span(v, n, f) /\ d.ok = TRUE /\ ~d.back
                BY <1>3, <4>7 DEF OutOf
            <4>10. Kept(sv, d.server) /\ d.server.http = e.local
                BY <1>5, <4>8
            <4>11. Ongoing(class, peer[c].speaks, v, cl, d.server, q, f, w)
                BY <2>4, <4>5, <4>8, <4>10 DEF Ongoing
            <4>12. r <= f
                BY <2>1, <4>5
            <4>13. Passes(class, peer[c].speaks, v, cl, sv, d, p, q, r, w)
                BY <1>7, <2>1, <4>5, <4>6, <4>8, <4>9, <4>10, <4>11, <4>12 DEF Passes
            <4> QED
                BY <4>9, <4>10, <4>13 DEF Outcome
        <3> QED
            BY <3>3, <3>4
    <2> QED
        BY <2>11, <2>12
<1> QED
    BY <1>6, <1>7

GlobalLocal == [ids : SUBSET Conns, hellos : SUBSET Conns]

LEMMA FlightType ==
    ASSUME NEW t \in {"hello", "reply", "finish"}, NEW n \in Nat \ {0}, NEW c \in Conns
    PROVE  /\ Flight(t, n, c) \in Stream /\ Len(Flight(t, n, c)) = n /\ Flight(t, n, c) # <<>>
           /\ \A i \in 1..n : /\ Flight(t, n, c)[i].t = t
                              /\ Flight(t, n, c)[i].c = c /\ Flight(t, n, c)[i].v = i
<1>1. \A i \in 1..n : /\ Atom(t, i, c) \in AtomType /\ Atom(t, i, c).t = t
                      /\ Atom(t, i, c).c = c /\ Atom(t, i, c).v = i
    BY DEF Atom, AtomType
<1> DEFINE f == [i \in 1..n |-> Atom(t, i, c)]
<1>2. f \in Stream /\ Len(f) = n /\ \A i \in 1..n : f[i] = Atom(t, i, c)
    BY <1>1 DEF Stream
<1>3. f # <<>>
    BY <1>2, Nothing
<1> QED
    BY <1>1, <1>2, <1>3 DEF Flight

\* What a read of a flight begins with.
LeadsOff(t, n, c, p, q, x) ==
    /\ t \in {"hello", "reply", "finish"} /\ n \in Nat \ {0} /\ c \in Conns
    /\ p \in Stream /\ q \in Stream /\ p # <<>> /\ x \in Stream
    /\ p \o q = Flight(t, n, c) \o x

LEMMA FlightFirst ==
    ASSUME NEW t, NEW n, NEW c, NEW p, NEW q, NEW x, LeadsOff(t, n, c, p, q, x)
    PROVE  p[1].t = t /\ p[1].c = c
<1>0. /\ t \in {"hello", "reply", "finish"} /\ n \in Nat \ {0} /\ c \in Conns
      /\ p \in Stream /\ q \in Stream /\ p # <<>> /\ x \in Stream
      /\ p \o q = Flight(t, n, c) \o x
    BY DEF LeadsOff
<1>1. PICK f \in Stream : f = Flight(t, n, c) /\ Len(f) = n /\ f[1].t = t /\ f[1].c = c
    BY <1>0, FlightType
<1>2. (p \o q)[1] = p[1]
    <2>1. Len(p) # 0 /\ Len(p) \in Nat
        BY <1>0, Nothing
    <2>2. 1 \in 1..Len(p)
        BY <2>1
    <2> QED
        BY <1>0, <2>2, Joined
<1>3. (f \o x)[1] = f[1]
    <2>1. 1 \in 1..Len(f)
        <3>1. Len(f) = n /\ n >= 1
            BY <1>0, <1>1
        <3> QED
            BY <1>0, <3>1
    <2> QED
        BY <1>0, <1>1, <2>1, Joined
<1> QED
    BY <1>0, <1>1, <1>2, <1>3

LEMMA NothingJoined ==
    ASSUME NEW p \in Stream, NEW q \in Stream, p \o q = <<>>
    PROVE  p = <<>> /\ q = <<>>
<1>1. PICK a \in Nat, b \in Nat : Len(p) = a /\ Len(q) = b
    BY Nothing
<1>2. Len(p \o q) = Len(p) + Len(q)
    BY Joined
<1>3. a + b = 0
    BY <1>1, <1>2, Nothing
<1>4. a = 0 /\ b = 0
    BY <1>3
<1> QED
    BY <1>1, <1>4, Nothing

\* Records that follow one another are taken off as they come.
Reassembly(v, l, g, p, q, a, b) ==
    \E m \in Nat, z \in Stream :
        /\ a <= m /\ m <= b /\ Framed(v, z \o q, m, b)
        /\ Reassembled(l, g, p) = Decoded([l EXCEPT !.recvBuf = z], g, Span(v, a, m), FALSE)

LEMMA Reassembles ==
    ASSUME NEW v \in Nat, NEW l \in TicketLocal, NEW g, NEW p \in Stream, NEW q \in Stream,
           NEW a \in Nat, NEW b \in Nat, Framed(v, l.recvBuf \o (p \o q), a, b)
    PROVE  Reassembly(v, l, g, p, q, a, b)
<1>1. PICK h \in Stream : h = l.recvBuf
    BY DEF TicketLocal
<1>2. h \o p \in Stream /\ (h \o p) \o q = h \o (p \o q)
    BY Joined, Assoc
<1>3. Framed(v, (h \o p) \o q, a, b)
    BY <1>1, <1>2
<1>4. Peels(v, h \o p, q, a, b)
    BY <1>2, <1>3, UnpackFramed
<1>5. PICK m \in Nat : /\ a <= m /\ m <= b
                       /\ Unpack(h \o p).out = Span(v, a, m)
                       /\ Unpack(h \o p).rest \in Stream
                       /\ Framed(v, Unpack(h \o p).rest \o q, m, b)
    BY <1>4 DEF Peels
<1>6. Unpack(h \o p).ok
    BY <1>4 DEF Peels
<1>7. Reassembled(l, g, p)
        = Decoded([l EXCEPT !.recvBuf = Unpack(h \o p).rest], g, Span(v, a, m), FALSE)
    BY <1>1, <1>5, <1>6 DEF Reassembled
<1> QED
    BY <1>5, <1>7 DEF Reassembly

LEMMA DecodeTls ==
    ASSUME NEW c, NEW v, NEW cl, NEW sv, NEW p, NEW q, NEW r, NEW w,
           Reads(c, v, cl, sv, p, q, r, w), NEW d \in Deobfuscated(c, p),
           global \in [Conns -> GlobalLocal],
           class = "tls", peer[c].speaks
    PROVE  Outcome(class, peer[c].speaks, v, c, cl, sv, d, p, q, r, w)
<1>1. /\ v \in Nat /\ p \in Stream /\ q \in Stream /\ p # <<>> /\ r \in Nat /\ w \in Nat /\ r <= w
      /\ sv \in ServerLocal /\ sv = server[c] /\ c \in Conns /\ cl \in ClientLocal
    BY DEF Reads
<1>2. PICK e : /\ e = TicketServerDecode(sv.tls, global[c], p, peer[c])
               /\ d = [server |-> [sv EXCEPT !.tls = e.local],
                       global |-> [global EXCEPT ![c] = e.global],
                       out |-> e.out, ok |-> e.ok, back |-> e.back]
    BY <1>1 DEF Deobfuscated, Global
<1>3. /\ d.server = [sv EXCEPT !.tls = e.local] /\ d.out = e.out
      /\ d.ok = e.ok /\ d.back = e.back /\ d.global = [global EXCEPT ![c] = e.global]
    BY <1>2
<1>4. sv.tls \in TicketLocal
    BY <1>1 DEF ServerLocal
<1>5. ASSUME e.local \in TicketLocal
      PROVE  Kept(sv, d.server) /\ d.server.tls = e.local
    BY <1>1, <1>3, <1>5 DEF Kept, ServerLocal
<1>6. PICK l \in TicketLocal : l = sv.tls
    BY <1>4
<1>7. CASE sv.init
    <2>1. /\ cl.tls.status = 8 /\ l.status = 8
          /\ Framed(v, l.recvBuf \o (p \o q), r, w)
          /\ ~sv.plainSpoken
        <3>1. class # "none" => (sv.plainSpoken <=> ~peer[c].speaks)
            BY <1>7, Zenon DEF Reads
        <3>2. class # "none"
            OBVIOUS
        <3> QED
            BY <1>6, <1>7, <3>1, <3>2 DEF Reads, Ongoing
    <2>2. e = Reassembled(l, global[c], p)
        BY <1>2, <1>6, <2>1 DEF TicketServerDecode
    <2>3. PICK m \in Nat, z \in Stream :
              /\ r <= m /\ m <= w /\ Framed(v, z \o q, m, w)
              /\ e = Decoded([l EXCEPT !.recvBuf = z], global[c], Span(v, r, m), FALSE)
        <3>1. Reassembly(v, l, global[c], p, q, r, w)
            BY <1>1, <2>1, Reassembles
        <3> QED
            BY <2>2, <3>1 DEF Reassembly
    <2>4. /\ e.local = [l EXCEPT !.recvBuf = z] /\ e.out = Span(v, r, m)
          /\ e.ok = TRUE /\ e.back = FALSE
        BY <2>3 DEF Decoded
    <2>5. e.local \in TicketLocal /\ e.local.status = 8 /\ e.local.recvBuf = z
        BY <2>1, <2>4 DEF TicketLocal
    <2>6. Kept(sv, d.server) /\ d.server.tls = e.local
        BY <1>5, <2>5
    <2>7. Ongoing(class, peer[c].speaks, v, cl, d.server, q, m, w)
        BY <2>1, <2>3, <2>5, <2>6 DEF Ongoing
    <2>8. OutOf(d, p) = Span(v, r, m) /\ d.ok = TRUE /\ ~d.back
        BY <1>3, <2>4 DEF OutOf
    <2>9. Passes(class, peer[c].speaks, v, cl, sv, d, p, q, r, w)
        BY <1>7, <2>1, <2>3, <2>7, <2>8 DEF Passes
    <2> QED
        BY <2>6, <2>8, <2>9 DEF Outcome
<1>8. CASE ~sv.init
    <2>1. r = 0 /\ ~sv.plainSpoken /\ TicketOpening(v, c, cl, sv, p \o q, w)
        BY <1>8 DEF Reads, Opening
    <2>2. p \o q # <<>>
        BY <1>1, NothingJoined
    <2>3. CASE /\ cl.tls.status = 1 /\ l.status = 0 /\ p \o q = Flight("hello", HelloLength, c)
        <3>1. p[1].t = "hello" /\ p[1].c = c
            <4>1. HelloLength \in Nat \ {0}
                BY TicketAssumption
            <4>2. PICK y \in Stream : y = <<>>
                BY Nothing
            <4>3. Flight("hello", HelloLength, c) \o y = Flight("hello", HelloLength, c)
                <5>1. Flight("hello", HelloLength, c) \in Stream
                    BY <1>1, <4>1, FlightType
                <5> QED
                    BY <4>2, <5>1, Nothing
            <4>4. LeadsOff("hello", HelloLength, c, p, q, y)
                BY <1>1, <2>3, <4>1, <4>2, <4>3 DEF LeadsOff
            <4> QED
                BY <4>4, FlightFirst
        <3>2. e = Hello(l, global[c], p, peer[c])
            BY <1>2, <1>6, <2>3 DEF TicketServerDecode
        <3>3. PICK l2 \in TicketLocal : l2 = [l EXCEPT !.status = 2] /\ l2.status = 2
            <4>1. [l EXCEPT !.status = 2] \in TicketLocal /\ [l EXCEPT !.status = 2].status = 2
                BY DEF TicketLocal
            <4> QED
                BY <4>1
        <3>4. CASE e.ok = FALSE /\ e.back = FALSE /\ e.local = l2
            <4>1. OutOf(d, p) = p /\ ~d.back /\ d.ok = FALSE
                BY <1>3, <3>4 DEF OutOf
            <4>2. Fails(sv, d, p)
                BY <1>8, <3>1, <4>1 DEF Fails
            <4> QED
                BY <1>5, <3>4, <4>1, <4>2 DEF Outcome
        <3>5. CASE /\ p = Flight("hello", HelloLength, c)
                   /\ e.ok = TRUE /\ e.back = TRUE /\ e.local = l2 /\ e.global.ids = {c}
            <4>1. q = <<>>
                <5>1. HelloLength \in Nat \ {0}
                    BY TicketAssumption
                <5>2. p \o q = p \o <<>> /\ Len(p) = Len(p)
                    BY <1>1, <2>3, <3>5, Nothing
                <5> QED
                    BY <1>1, <5>2, Nothing, SameEnds
            <4>2. Kept(sv, d.server) /\ d.server.tls.status = 2
                BY <1>5, <3>3, <3>5
            <4>3. d.global[c].ids = {c}
                BY <1>1, <1>3, <3>5
            <4>4. d.back /\ d.ok = TRUE
                BY <1>3, <3>5
            <4>5. Greets(class, peer[c].speaks, c, cl, sv, d, q)
                BY <1>8, <2>3, <4>1, <4>2, <4>3, <4>4 DEF Greets
            <4> QED
                BY <4>2, <4>4, <4>5 DEF Outcome
        <3>6. PICK met : met = [global[c] EXCEPT !.ids = {c}]
            OBVIOUS
        <3>7. \/ e = Refused(l2, global[c]) \/ e = Refused(l2, met)
              \/ p = Flight("hello", HelloLength, c) /\ e = Decoded(l2, ListAdded(met, c), <<>>, TRUE)
            BY <3>1, <3>2, <3>3, <3>6 DEF Hello
        <3>8. ListAdded(met, c).ids = {c}
            BY <1>1, <3>6 DEF ListAdded, GlobalLocal
        <3>9. ASSUME NEW g, e = Refused(l2, g)
              PROVE  e.ok = FALSE /\ e.back = FALSE /\ e.local = l2
            BY <3>9 DEF Refused
        <3>10. ASSUME NEW g, e = Decoded(l2, g, <<>>, TRUE)
               PROVE  e.ok = TRUE /\ e.back = TRUE /\ e.local = l2 /\ e.global = g
            BY <3>10 DEF Decoded
        <3> QED
            BY <3>4, <3>5, <3>7, <3>8, <3>9, <3>10
    <2>4. CASE TicketFinish(v, c, cl, sv, p \o q, w)
        <3>1. l.status = 3 /\ cl.tls.status = 8 /\ w > 0
            BY <1>6, <2>4 DEF TicketFinish
        <3>2. PICK x \in Stream :
                  p \o q = Flight("finish", FinishLength, c) \o x /\ Framed(v, x, 0, w)
            BY <2>4 DEF TicketFinish
        <3>3. FinishLength \in Nat \ {0}
            BY TicketAssumption
        <3>4. p[1].t = "finish"
            <4>1. LeadsOff("finish", FinishLength, c, p, q, x)
                BY <1>1, <3>2, <3>3 DEF LeadsOff
            <4> QED
                BY <4>1, FlightFirst
        <3>5. e = Finish(l, global[c], p, peer[c])
            BY <1>2, <1>6, <3>1 DEF TicketServerDecode
        <3>6. CASE e = Refused(l, global[c])
            <4>1. e.ok = FALSE /\ e.back = FALSE /\ e.local = l
                BY <3>6 DEF Refused
            <4>2. OutOf(d, p) = p /\ ~d.back /\ d.ok = FALSE
                BY <1>3, <4>1 DEF OutOf
            <4>3. Fails(sv, d, p)
                BY <1>8, <3>4, <4>2 DEF Fails
            <4> QED
                BY <1>5, <4>1, <4>2, <4>3 DEF Outcome
        <3>7. CASE /\ Len(p) >= FinishLength
                   /\ e = Reassembled([l EXCEPT !.status = 8,
                              !.recvBuf = SubSeq(p, FinishLength + 1, Len(p))], global[c], <<>>)
            <4>1. PICK f \in Stream : f = Flight("finish", FinishLength, c) /\ Len(f) = FinishLength
                BY <1>1, <3>3, FlightType
            <4>2. Within(f, p)
                BY <3>3, <3>7, <4>1, <1>1, Nothing DEF Within
            <4>3. Overlap(p, q, f, x)
                BY <1>1, <3>2, <4>1, <4>2, Levi
            <4>4. PICK y \in Stream : x = y \o q /\ y = SubSeq(p, FinishLength + 1, Len(p))
                BY <4>1, <4>3 DEF Overlap
            <4>5. PICK l3 \in TicketLocal :
                      /\ l3 = [l EXCEPT !.status = 8, !.recvBuf = y]
                      /\ l3.status = 8 /\ l3.recvBuf = y
                <5>1. y \in Stream
                    BY <4>3, <4>4, <4>1 DEF Overlap
                <5>2. [l EXCEPT !.status = 8, !.recvBuf = y] \in TicketLocal
                    BY <5>1 DEF TicketLocal
                <5>3. /\ [l EXCEPT !.status = 8, !.recvBuf = y].status = 8
                      /\ [l EXCEPT !.status = 8, !.recvBuf = y].recvBuf = y
                    BY DEF TicketLocal
                <5> QED
                    BY <5>2, <5>3
            <4>6. PICK z \in Nat : z = 0 /\ Framed(v, l3.recvBuf \o (<<>> \o q), z, w)
                <5>1. <<>> \o q = q
                    BY <1>1, Nothing
                <5> QED
                    BY <3>2, <4>4, <4>5, <5>1
            <4>7. PICK m \in Nat, u \in Stream :
                      /\ z <= m /\ m <= w /\ Framed(v, u \o q, m, w)
                      /\ Reassembled(l3, global[c], <<>>)
                            = Decoded([l3 EXCEPT !.recvBuf = u], global[c], Span(v, z, m), FALSE)
                <5>1. Reassembly(v, l3, global[c], <<>>, q, z, w)
                    BY <1>1, <4>6, Nothing, Reassembles
                <5> QED
                    BY <5>1 DEF Reassembly
            <4>8. /\ e.local = [l3 EXCEPT !.recvBuf = u] /\ e.out = Span(v, 0, m)
                  /\ e.ok = TRUE /\ e.back = FALSE
                BY <3>7, <4>4, <4>5, <4>6, <4>7 DEF Decoded
            <4>9. e.local \in TicketLocal /\ e.local.status = 8 /\ e.local.recvBuf = u
                BY <4>5, <4>8 DEF TicketLocal
            <4>10. Kept(sv, d.server) /\ d.server.tls = e.local
                BY <1>5, <4>9
            <4>11. Ongoing(class, peer[c].speaks, v, cl, d.server, q, m, w)
                BY <3>1, <4>7, <4>9, <4>10 DEF Ongoing
            <4>12. OutOf(d, p) = Span(v, 0, m) /\ d.ok = TRUE /\ ~d.back
                BY <1>3, <4>8 DEF OutOf
            <4>13. IsOut(v, m, OutOf(d, p)) /\ r <= m
                BY <1>1, <2>1, <4>6, <4>7, <4>12, OutSpan
            <4>14. Passes(class, peer[c].speaks, v, cl, sv, d, p, q, r, w)
                BY <1>8, <2>1, <4>7, <4>11, <4>12, <4>13 DEF Passes
            <4> QED
                BY <4>10, <4>12, <4>14 DEF Outcome
        <3> QED
            BY <3>5, <3>6, <3>7 DEF Finish
    <2>5. \/ cl.tls.status = 1 /\ l.status = 0 /\ p \o q = Flight("hello", HelloLength, c)
          \/ TicketFinish(v, c, cl, sv, p \o q, w)
        BY <1>6, <2>1, <2>2 DEF TicketOpening, TicketQuiet, TicketHello
    <2> QED
        BY <2>3, <2>4, <2>5
<1> QED
    BY <1>7, <1>8

LEMMA Decodes ==
    ASSUME NEW c, NEW v, NEW cl, NEW sv, NEW p, NEW q, NEW r, NEW w,
           Reads(c, v, cl, sv, p, q, r, w), NEW d \in Deobfuscated(c, p),
           global \in [Conns -> GlobalLocal]
    PROVE  Outcome(class, peer[c].speaks, v, c, cl, sv, d, p, q, r, w)
BY ClassType, DecodeNone, DecodeStrangerHttp, DecodeStrangerTls, DecodeHttp, DecodeTls

-----------------------------------------------------------------------------
(* What comes of a write of a client: the atoms w + 1 to u of its plaintext, *)
(* behind x.                                                                *)

WriteBase(c, v, cl, x, sv, r, w, u) ==
    /\ c \in Conns /\ v \in Nat /\ cl \in ClientLocal /\ cl = client[c] /\ sv \in ServerLocal
    /\ x \in Stream /\ r \in Nat /\ w \in Nat /\ u \in Nat /\ r <= w /\ w < u
    /\ sv.init => Ongoing(class, peer[c].speaks, v, cl, sv, x, r, w)
    /\ ~sv.init => Opening(class, peer[c].speaks, v, c, cl, sv, x, w)

WriteOutcome(c, v, cl, x, sv, r, u, e) ==
    /\ e.client \in ClientLocal /\ e.out \in Stream
    /\ sv.init => Ongoing(class, peer[c].speaks, v, e.client, sv, x \o e.out, r, u)
    /\ ~sv.init => Opening(class, peer[c].speaks, v, c, e.client, sv, x \o e.out, u)
    /\ e.client.http.recvHeader = cl.http.recvHeader
    /\ e.client.tls.recvBuf = cl.tls.recvBuf
    /\ \/ e.client.tls.status = cl.tls.status
       \/ cl.tls.status = 0 /\ e.client.tls.status = 1

LEMMA WritePlain ==
    ASSUME NEW c, NEW v, NEW cl, NEW x, NEW sv, NEW r, NEW w, NEW u,
           WriteBase(c, v, cl, x, sv, r, w, u), NEW e \in Obfuscated(c, Span(v, w, u)),
           class = "none" \/ ~peer[c].speaks
    PROVE  WriteOutcome(c, v, cl, x, sv, r, u, e)
<1>1. /\ v \in Nat /\ cl \in ClientLocal /\ cl = client[c] /\ sv \in ServerLocal
      /\ x \in Stream /\ r \in Nat /\ w \in Nat /\ u \in Nat /\ r <= w /\ w <= u
    BY DEF WriteBase
<1>2. e = [client |-> cl, out |-> Span(v, w, u)]
    BY <1>1 DEF Obfuscated
<1>3. e.client = cl /\ e.out = Span(v, w, u) /\ e.out \in Stream
    BY <1>1, <1>2, SpanType
<1>4. ASSUME sv.init
      PROVE  Ongoing(class, peer[c].speaks, v, cl, sv, x \o e.out, r, u)
    <2>1. x = Span(v, r, w)
        BY <1>4 DEF WriteBase, Ongoing
    <2>2. x \o e.out = Span(v, r, u)
        <3>1. Span(v, r, w) \o Span(v, w, u) = Span(v, r, u)
            BY <1>1, SpanJoin
        <3> QED
            BY <1>3, <2>1, <3>1
    <2> QED
        BY <1>4, <2>2 DEF WriteBase, Ongoing
<1>5. ASSUME ~sv.init
      PROVE  Opening(class, peer[c].speaks, v, c, cl, sv, x \o e.out, u)
    <2>1. x = Span(v, 0, w)
        BY <1>5 DEF WriteBase, Opening, PlainOpening
    <2>2. x \o e.out = Span(v, 0, u)
        <3>1. PICK z \in Nat : z = 0 /\ z <= w
            BY <1>1
        <3>2. Span(v, z, w) \o Span(v, w, u) = Span(v, z, u)
            <4>1. z <= w
                BY <3>1
            <4> QED
                BY <1>1, <4>1, SpanJoin
        <3> QED
            BY <1>3, <2>1, <3>1, <3>2
    <2> QED
        BY <1>5, <2>2 DEF WriteBase, Opening, PlainOpening
<1> QED
    BY <1>1, <1>3, <1>4, <1>5 DEF WriteOutcome

LEMMA WriteHttp ==
    ASSUME NEW c, NEW v, NEW cl, NEW x, NEW sv, NEW r, NEW w, NEW u,
           WriteBase(c, v, cl, x, sv, r, w, u), NEW e \in Obfuscated(c, Span(v, w, u)),
           class = "http", peer[c].speaks
    PROVE  WriteOutcome(c, v, cl, x, sv, r, u, e)
<1>1. /\ v \in Nat /\ cl \in ClientLocal /\ cl = client[c] /\ sv \in ServerLocal
      /\ x \in Stream /\ r \in Nat /\ w \in Nat /\ u \in Nat /\ r <= w /\ w < u /\ w <= u
    BY DEF WriteBase
<1>2. PICK f \in HttpClientEncode(cl.http, Span(v, w, u)) :
          e = [client |-> [cl EXCEPT !.http = f.local], out |-> f.out]
    BY <1>1 DEF Obfuscated
<1>3. e.client = [cl EXCEPT !.http = f.local] /\ e.out = f.out
    BY <1>2
<1>4. cl.http \in HttpLocal
    BY <1>1 DEF ClientLocal
<1>5. Span(v, w, u) \in Stream
    BY <1>1, SpanType
<1>6. CASE cl.http.sentHeader
    <2>1. f = [local |-> cl.http, out |-> Span(v, w, u)]
        BY <1>6 DEF HttpClientEncode
    <2>2. e.client = [cl EXCEPT !.http = cl.http] /\ e.out = Span(v, w, u)
        BY <1>3, <2>1
    <2>3. e.client = cl
        BY <1>1, <2>2 DEF ClientLocal
    <2>4. ASSUME sv.init
          PROVE  Ongoing(class, peer[c].speaks, v, cl, sv, x \o e.out, r, u)
        <3>1. x = Span(v, r, w)
            BY <2>4 DEF WriteBase, Ongoing
        <3>2. Span(v, r, w) \o Span(v, w, u) = Span(v, r, u)
            BY <1>1, SpanJoin
        <3>3. x \o e.out = Span(v, r, u)
            BY <2>2, <3>1, <3>2
        <3> QED
            BY <2>4, <3>3 DEF WriteBase, Ongoing
    <2>5. ASSUME ~sv.init
          PROVE  Opening(class, peer[c].speaks, v, c, cl, sv, x \o e.out, u)
        <3>1. HttpOpening(v, cl, sv, x, w)
            BY <2>5 DEF WriteBase, Opening
        <3>2. w > 0
            BY <1>6, <3>1 DEF HttpOpening
        <3>3. PICK n \in 1..w : IsHeaded(v, n, w, x)
            BY <3>1, <3>2 DEF HttpOpening
        <3>4. n \in Nat \ {0} /\ n <= w /\ n \in 1..u
            BY <1>1
        <3>5. IsHeaded(v, n, u, x \o e.out)
            BY <1>1, <2>2, <3>3, <3>4, HeadedMore
        <3>6. u > 0 /\ u # 0
            BY <1>1
        <3>7. HttpOpening(v, cl, sv, x \o e.out, u)
            BY <1>6, <3>1, <3>4, <3>5, <3>6 DEF HttpOpening
        <3> QED
            BY <3>7 DEF Opening
    <2> QED
        BY <1>1, <1>5, <2>2, <2>3, <2>4, <2>5 DEF WriteOutcome
<1>7. CASE ~cl.http.sentHeader
    <2>1. ~sv.init
        BY <1>7 DEF WriteBase, Ongoing
    <2>2. HttpOpening(v, cl, sv, x, w)
        BY <2>1 DEF WriteBase, Opening
    <2>3. w = 0 /\ x = <<>>
        <3>1. ~(w > 0)
            BY <1>7, <2>2 DEF HttpOpening
        <3>2. w = 0
            BY <1>1, <3>1
        <3> QED
            BY <2>2, <3>2 DEF HttpOpening
    <2>4. Len(Span(v, 0, u)) = u
        BY <1>1, OutSpanAtoms
    <2>5. PICK n \in 1..u : f = [local |-> [cl.http EXCEPT !.sentHeader = TRUE],
                                 out |-> Request(Span(v, 0, u), n)]
        BY <1>7, <2>3, <2>4 DEF HttpClientEncode
    <2>6. IsHeaded(v, n, u, Request(Span(v, 0, u), n))
        BY <1>1, RequestHeaded
    <2>7. e.out = Request(Span(v, 0, u), n) /\ e.out \in Stream
        BY <1>3, <2>5, <2>6 DEF IsHeaded
    <2>8. x \o e.out = e.out
        BY <2>3, <2>7, Nothing
    <2>9. f.local \in HttpLocal /\ f.local.sentHeader /\ f.local.recvHeader = cl.http.recvHeader
        <3>1. f.local = [cl.http EXCEPT !.sentHeader = TRUE]
            BY <2>5
        <3> QED
            BY <1>4, <3>1 DEF HttpLocal
    <2>10. /\ e.client \in ClientLocal /\ e.client.http = f.local /\ e.client.tls = cl.tls
        BY <1>1, <1>3, <2>9 DEF ClientLocal
    <2>11. u > 0 /\ u # 0
        BY <1>1
    <2>12. HttpOpening(v, e.client, sv, x \o e.out, u)
        BY <2>2, <2>6, <2>7, <2>8, <2>9, <2>10, <2>11 DEF HttpOpening
    <2>13. Opening(class, peer[c].speaks, v, c, e.client, sv, x \o e.out, u)
        BY <2>12 DEF Opening
    <2> QED
        BY <2>1, <2>7, <2>9, <2>10, <2>13 DEF WriteOutcome
<1> QED
    BY <1>6, <1>7

LEMMA WriteTls ==
    ASSUME NEW c, NEW v, NEW cl, NEW x, NEW sv, NEW r, NEW w, NEW u,
           WriteBase(c, v, cl, x, sv, r, w, u), NEW e \in Obfuscated(c, Span(v, w, u)),
           class = "tls", peer[c].speaks
    PROVE  WriteOutcome(c, v, cl, x, sv, r, u, e)
<1>1. /\ c \in Conns /\ v \in Nat /\ cl \in ClientLocal /\ cl = client[c] /\ sv \in ServerLocal
      /\ x \in Stream /\ r \in Nat /\ w \in Nat /\ u \in Nat /\ r <= w /\ w < u /\ w <= u
    BY DEF WriteBase
<1>2. PICK l \in TicketLocal : l = cl.tls
    BY <1>1 DEF ClientLocal
<1>3. PICK f \in TicketClientEncode(l, c, Span(v, w, u)) :
          e = [client |-> [cl EXCEPT !.tls = f.local], out |-> f.out]
    BY <1>1, <1>2 DEF Obfuscated
<1>4. e.client = [cl EXCEPT !.tls = f.local] /\ e.out = f.out
    BY <1>3
<1>5. ASSUME f.local \in TicketLocal
      PROVE  e.client \in ClientLocal /\ e.client.tls = f.local /\ e.client.http = cl.http
    BY <1>1, <1>4, <1>5 DEF ClientLocal
<1>6. Span(v, w, u) \in Stream /\ Len(Span(v, w, u)) = u - w
    BY <1>1, SpanType
<1>7. PICK y \in Stream : y = Record(Span(v, w, u)) /\ Framed(v, y, w, u)
    BY <1>1, <1>6, RecordType, FramedRecord
<1>8. CASE l.status = 8
    <2>1. PICK o \in Records(Span(v, w, u)) : f = [local |-> l, out |-> o]
        BY <1>8 DEF TicketClientEncode
    <2>2. Framed(v, o, w, u)
        BY <1>1, RecordsFramed
    <2>3. o \in Stream
        BY <1>1, <2>2, FramedType
    <2>4. e.client = cl /\ e.out = o
        <3>1. [cl EXCEPT !.tls = cl.tls] = cl
            BY <1>1 DEF ClientLocal
        <3> QED
            BY <1>2, <1>4, <2>1, <3>1
    <2>5. ASSUME sv.init
          PROVE  Ongoing(class, peer[c].speaks, v, cl, sv, x \o o, r, u)
        <3>1. sv.tls.status = 8 /\ Framed(v, sv.tls.recvBuf \o x, r, w)
            BY <2>5 DEF WriteBase, Ongoing
        <3>2. sv.tls.recvBuf \in Stream
            BY <1>1 DEF ServerLocal, TicketLocal
        <3>3. Framed(v, (sv.tls.recvBuf \o x) \o o, r, u)
            BY <1>1, <2>2, <3>1, FramedJoin
        <3>4. (sv.tls.recvBuf \o x) \o o = sv.tls.recvBuf \o (x \o o)
            BY <1>1, <2>3, <3>2, Assoc
        <3> QED
            BY <1>2, <1>8, <3>1, <3>3, <3>4 DEF Ongoing
    <2>6. ASSUME ~sv.init
          PROVE  Opening(class, peer[c].speaks, v, c, cl, sv, x \o o, u)
        <3>1. TicketFinish(v, c, cl, sv, x, w)
            BY <1>2, <1>8, <2>6 DEF WriteBase, Opening, TicketOpening, TicketQuiet, TicketHello
        <3>2. PICK z \in Stream :
                  x = Flight("finish", FinishLength, c) \o z /\ Framed(v, z, 0, w)
            BY <3>1 DEF TicketFinish
        <3>3. z \o o \in Stream /\ Framed(v, z \o o, 0, u)
            BY <1>1, <2>2, <2>3, <3>2, Joined, FramedJoin
        <3>4. Flight("finish", FinishLength, c) \in Stream
            BY <1>1, TicketAssumption, FlightType
        <3>5. x \o o = Flight("finish", FinishLength, c) \o (z \o o)
            BY <2>3, <3>2, <3>4, Assoc
        <3>6. u > 0
            BY <1>1
        <3>7. TicketFinish(v, c, cl, sv, x \o o, u)
            BY <3>1, <3>3, <3>5, <3>6 DEF TicketFinish
        <3> QED
            BY <3>7 DEF Opening, TicketOpening
    <2> QED
        BY <1>1, <2>3, <2>4, <2>5, <2>6 DEF WriteOutcome
<1>9. CASE l.status = 0
    <2>1. ~sv.init
        BY <1>2, <1>9 DEF WriteBase, Ongoing
    <2>2. TicketQuiet(cl, sv, x, w)
        BY <1>2, <1>9, <2>1 DEF WriteBase, Opening, TicketOpening, TicketHello, TicketFinish
    <2>3. w = 0 /\ l.sendBuf = <<>> /\ x = <<>> /\ sv.tls.status = 0
        BY <1>2, <2>2 DEF TicketQuiet
    <2>4. l.sendBuf \o y = y
        BY <1>7, <2>3, Nothing
    <2>5. f = [local |-> [l EXCEPT !.status = 1, !.sendBuf = y],
               out |-> Flight("hello", HelloLength, c)]
        BY <1>7, <1>9, <2>4 DEF TicketClientEncode
    <2>6. /\ f.local \in TicketLocal /\ f.local.status = 1 /\ f.local.sendBuf = y
          /\ f.local.recvBuf = l.recvBuf
        <3>1. f.local = [l EXCEPT !.status = 1, !.sendBuf = y]
            BY <2>5
        <3>2. [l EXCEPT !.status = 1, !.sendBuf = y] \in TicketLocal
            BY <1>7 DEF TicketLocal
        <3>3. /\ [l EXCEPT !.status = 1, !.sendBuf = y].status = 1
              /\ [l EXCEPT !.status = 1, !.sendBuf = y].sendBuf = y
              /\ [l EXCEPT !.status = 1, !.sendBuf = y].recvBuf = l.recvBuf
            BY DEF TicketLocal
        <3> QED
            BY <3>1, <3>2, <3>3
    <2>7. e.out = Flight("hello", HelloLength, c) /\ e.out \in Stream
        BY <1>1, <1>4, <2>5, TicketAssumption, FlightType
    <2>8. x \o e.out = e.out
        BY <2>3, <2>7, Nothing
    <2>9. e.client \in ClientLocal /\ e.client.tls = f.local /\ e.client.http = cl.http
        BY <1>5, <2>6
    <2>10. u > 0
        BY <1>1
    <2>11. TicketHello(v, c, e.client, sv, x \o e.out, u)
        BY <1>7, <2>3, <2>6, <2>7, <2>8, <2>9, <2>10 DEF TicketHello
    <2>12. Opening(class, peer[c].speaks, v, c, e.client, sv, x \o e.out, u)
        BY <2>11 DEF Opening, TicketOpening
    <2> QED
        BY <1>2, <1>9, <2>1, <2>6, <2>7, <2>9, <2>12 DEF WriteOutcome
<1>10. CASE l.status # 8 /\ l.status # 0
    <2>1. ~sv.init
        BY <1>2, <1>10 DEF WriteBase, Ongoing
    <2>2. TicketHello(v, c, cl, sv, x, w)
        BY <1>2, <1>10, <2>1 DEF WriteBase, Opening, TicketOpening, TicketQuiet, TicketFinish
    <2>3. l.status = 1 /\ Framed(v, l.sendBuf, 0, w)
        BY <1>2, <2>2 DEF TicketHello
    <2>4. Framed(v, l.sendBuf \o y, 0, u) /\ l.sendBuf \o y \in Stream
        BY <1>1, <1>7, <2>3, FramedJoin, FramedType
    <2>5. Span(v, w, u) # <<>>
        <3>1. u - w # 0
            BY <1>1
        <3> QED
            BY <1>6, <3>1, Nothing
    <2>6. f = [local |-> [l EXCEPT !.sendBuf = l.sendBuf \o y], out |-> <<>>]
        BY <1>7, <1>10, <2>5 DEF TicketClientEncode
    <2>7. /\ f.local \in TicketLocal /\ f.local.status = 1 /\ f.local.sendBuf = l.sendBuf \o y
          /\ f.local.recvBuf = l.recvBuf
        <3>1. f.local = [l EXCEPT !.sendBuf = l.sendBuf \o y]
            BY <2>6
        <3> QED
            BY <2>3, <2>4, <3>1 DEF TicketLocal
    <2>8. e.out = <<>> /\ e.out \in Stream
        BY <1>4, <2>6, Nothing
    <2>9. x \o e.out = x
        BY <1>1, <2>8, Nothing
    <2>10. e.client \in ClientLocal /\ e.client.tls = f.local /\ e.client.http = cl.http
        BY <1>5, <2>7
    <2>11. u > 0
        BY <1>1
    <2>12. TicketHello(v, c, e.client, sv, x \o e.out, u)
        BY <2>2, <2>4, <2>7, <2>9, <2>10, <2>11 DEF TicketHello
    <2>13. Opening(class, peer[c].speaks, v, c, e.client, sv, x \o e.out, u)
        BY <2>12 DEF Opening, TicketOpening
    <2> QED
        BY <1>2, <2>1, <2>3, <2>7, <2>8, <2>10, <2>13 DEF WriteOutcome
<1> QED
    BY <1>8, <1>9, <1>10

LEMMA WriteGives ==
    ASSUME NEW c, NEW v, NEW cl, NEW x, NEW sv, NEW r, NEW w, NEW u,
           WriteBase(c, v, cl, x, sv, r, w, u), NEW e \in Obfuscated(c, Span(v, w, u))
    PROVE  WriteOutcome(c, v, cl, x, sv, r, u, e)
BY ClassType, WritePlain, WriteHttp, WriteTls

-----------------------------------------------------------------------------
(* What comes of an answer of the target: its atoms s + 1 to u, behind x.  *)

AnswerBase(c, cl, sv, x, b, s, u) ==
    /\ c \in Conns /\ cl \in ClientLocal /\ sv \in ServerLocal /\ sv = server[c]
    /\ x \in Stream /\ b \in Nat /\ s \in Nat /\ u \in Nat /\ b <= s /\ s <= u
    /\ ~sv.sealed => s = 0
    /\ class # "none" => (sv.plainSpoken <=> ~peer[c].speaks)
    /\ OnWay(class, peer[c].speaks, cl, sv, x, b, s)
    /\ class = "tls" /\ peer[c].speaks => cl.tls.status = 8 /\ sv.tls.status = 8

AnswerOutcome(c, cl, sv, x, b, u, e) ==
    /\ e.out \in Stream /\ Kept(sv, e.server)
    /\ e.server.tls = sv.tls
    /\ e.server.http.recvBuf = sv.http.recvBuf /\ e.server.http.recvHeader = sv.http.recvHeader
    /\ OnWay(class, peer[c].speaks, cl, [e.server EXCEPT !.sealed = TRUE], x \o e.out, b, u)

LEMMA AnswerPlain ==
    ASSUME NEW c, NEW cl, NEW x, NEW sv, NEW b, NEW s, NEW u,
           AnswerBase(c, cl, sv, x, b, s, u), NEW e \in Reobfuscated(c, Span(0, s, u)),
           class = "none" \/ ~peer[c].speaks
    PROVE  AnswerOutcome(c, cl, sv, x, b, u, e)
<1>1. /\ cl \in ClientLocal /\ sv \in ServerLocal /\ sv = server[c]
      /\ x \in Stream /\ b \in Nat /\ s \in Nat /\ u \in Nat /\ b <= s /\ s <= u
    BY DEF AnswerBase
<1>2. PICK z \in Nat : z = 0
    OBVIOUS
<1>3. class = "none" \/ sv.plainSpoken
    <2>1. class # "none" => (sv.plainSpoken <=> ~peer[c].speaks)
        BY Zenon DEF AnswerBase
    <2> QED
        BY <2>1
<1>4. e = [server |-> sv, out |-> Span(0, s, u)]
    BY <1>1, <1>3 DEF Reobfuscated
<1>5. e.server = sv /\ e.out = Span(0, s, u)
    BY <1>4
<1>6. e.out \in Stream
    <2>1. Span(z, s, u) \in Stream
        BY <1>1, SpanType
    <2> QED
        BY <1>2, <1>5, <2>1
<1>7. x = Span(0, b, s)
    BY DEF AnswerBase, OnWay
<1>8. x \o e.out = Span(0, b, u)
    <2>1. Span(z, b, s) \o Span(z, s, u) = Span(z, b, u)
        BY <1>1, SpanJoin
    <2> QED
        BY <1>2, <1>5, <1>7, <2>1
<1>9. OnWay(class, peer[c].speaks, cl, [e.server EXCEPT !.sealed = TRUE], x \o e.out, b, u)
    BY <1>8 DEF OnWay
<1>10. Kept(sv, sv)
    BY <1>1 DEF Kept
<1> QED
    BY <1>5, <1>6, <1>9, <1>10 DEF AnswerOutcome

LEMMA AnswerHead ==
    ASSUME NEW u \in Nat
    PROVE  /\ (<<Mark("ok", 0)>> \o EndMark) \o Span(0, 0, u) \in Stream
           /\ IsAnswer(3, u, (<<Mark("ok", 0)>> \o EndMark) \o Span(0, 0, u))
<1>1. PICK g \in Stream : g = <<Mark("ok", 0)>> /\ Len(g) = 1 /\ g[1] = Mark("ok", 0)
    BY One, HttpMarks
<1>2. PICK h \in Stream : h = EndMark /\ Len(h) = 2 /\ h[1] = Mark("end", 1) /\ h[2] = Mark("end", 2)
    BY EndMarkType
<1>3. PICK d \in Stream : d = Span(0, 0, u) /\ Len(d) = u /\ \A i \in 1..u : d[i] = PlainAtom(0, i)
    <2>1. PICK z \in Nat : z = 0
        OBVIOUS
    <2>2. /\ Span(z, 0, u) \in Stream /\ Len(Span(z, 0, u)) = u
          /\ \A i \in 1..u : Span(z, 0, u)[i] = PlainAtom(z, i)
        BY OutSpanAtoms
    <2> QED
        BY <2>1, <2>2
<1>4. PICK a \in Stream : /\ a = g \o h /\ Len(a) = 3
                          /\ a[1] = Mark("ok", 0) /\ a[2] = Mark("end", 1) /\ a[3] = Mark("end", 2)
    <2>1. /\ g \o h \in Stream /\ Len(g \o h) = Len(g) + Len(h)
          /\ \A i \in 1..Len(g) : (g \o h)[i] = g[i]
          /\ \A i \in 1..Len(h) : (g \o h)[Len(g) + i] = h[i]
        BY Joined
    <2>2. 1 \in 1..Len(g) /\ 1 \in 1..Len(h) /\ 2 \in 1..Len(h) /\ Len(g) = 1 /\ Len(h) = 2
        BY <1>1, <1>2
    <2>3. (g \o h)[1] = g[1] /\ (g \o h)[Len(g) + 1] = h[1] /\ (g \o h)[Len(g) + 2] = h[2]
        BY <2>1, <2>2
    <2>4. (g \o h)[1 + 1] = h[1] /\ (g \o h)[1 + 2] = h[2] /\ Len(g \o h) = 1 + 2
        BY <2>1, <2>2, <2>3
    <2>5. (g \o h)[2] = h[1] /\ (g \o h)[3] = h[2] /\ Len(g \o h) = 3
        BY <2>4
    <2> QED
        BY <1>1, <1>2, <2>1, <2>3, <2>5
<1>5. PICK y \in Stream : /\ y = a \o d /\ Len(y) = 3 + u
                          /\ y[1] = a[1] /\ y[2] = a[2] /\ y[3] = a[3]
                          /\ \A i \in 1..u : y[3 + i] = d[i]
    <2>1. /\ a \o d \in Stream /\ Len(a \o d) = Len(a) + Len(d)
          /\ \A i \in 1..Len(a) : (a \o d)[i] = a[i]
          /\ \A i \in 1..Len(d) : (a \o d)[Len(a) + i] = d[i]
        BY Joined
    <2>2. 1 \in 1..Len(a) /\ 2 \in 1..Len(a) /\ 3 \in 1..Len(a) /\ Len(a) = 3 /\ Len(d) = u
        BY <1>3, <1>4
    <2>3. (a \o d)[1] = a[1] /\ (a \o d)[2] = a[2] /\ (a \o d)[3] = a[3]
        BY <2>1, <2>2
    <2>4. Len(a \o d) = 3 + u /\ \A i \in 1..u : (a \o d)[3 + i] = d[i]
        BY <2>1, <2>2
    <2> QED
        BY <2>1, <2>3, <2>4
<1>6. PICK f \in Nat : f = 3 /\ f - 1 = 2
    OBVIOUS
<1>7. IsAnswer(f, u, y)
    BY <1>3, <1>4, <1>5, <1>6 DEF IsAnswer
<1> QED
    BY <1>1, <1>2, <1>3, <1>4, <1>5, <1>6, <1>7

LEMMA AnswerLonger ==
    ASSUME NEW f \in {2, 3}, NEW s \in Nat, NEW u \in Nat, s <= u, NEW x, IsAnswer(f, s, x)
    PROVE  IsAnswer(f, u, x \o Span(0, s, u))
<1>1. /\ x \in Stream /\ Len(x) = f + s
      /\ x[f - 1] = Mark("end", 1) /\ x[f] = Mark("end", 2)
      /\ f = 3 => x[1] = Mark("ok", 0)
      /\ \A i \in 1..s : x[f + i] = PlainAtom(0, i)
    BY DEF IsAnswer
<1>2. PICK z \in Nat, k \in Nat, y \in Stream :
          /\ z = 0 /\ y = Span(z, s, u) /\ k = u - s /\ Len(y) = k
          /\ \A i \in 1..k : y[i] = PlainAtom(z, s + i)
    <2>1. PICK z \in Nat, k \in Nat : z = 0 /\ k = u - s
        <3>1. u - s \in Nat
            OBVIOUS
        <3> QED
            BY <3>1
    <2>2. /\ Span(z, s, u) \in Stream /\ Len(Span(z, s, u)) = u - s
          /\ \A i \in 1..(u - s) : Span(z, s, u)[i] = PlainAtom(z, s + i)
        BY SpanType
    <2> QED
        BY <2>1, <2>2
<1>3. PICK g \in Nat : g = f /\ g >= 2
    OBVIOUS
<1>4. PICK t \in Stream :
          /\ t = x \o y /\ Len(t) = g + s + k
          /\ \A i \in 1..g + s : t[i] = x[i]
          /\ \A i \in 1..k : t[g + s + i] = y[i]
    <2>1. /\ x \o y \in Stream /\ Len(x \o y) = Len(x) + Len(y)
          /\ \A i \in 1..Len(x) : (x \o y)[i] = x[i]
          /\ \A i \in 1..Len(y) : (x \o y)[Len(x) + i] = y[i]
        BY <1>1, Joined
    <2>2. Len(x) = g + s /\ Len(y) = k
        BY <1>1, <1>2, <1>3
    <2> QED
        BY <2>1, <2>2
<1>5. g + s + k = g + u
    BY <1>2
<1>6. t[g - 1] = Mark("end", 1) /\ t[g] = Mark("end", 2) /\ (g = 3 => t[1] = Mark("ok", 0))
    <2>1. g - 1 \in 1..g + s /\ g \in 1..g + s /\ 1 \in 1..g + s
        BY <1>3
    <2> QED
        BY <1>1, <1>3, <1>4, <2>1
<1>7. ASSUME NEW i \in 1..u PROVE t[g + i] = PlainAtom(0, i)
    <2>1. CASE i <= s
        <3>1. i \in 1..s /\ g + i \in 1..g + s
            BY <2>1, <1>3
        <3> QED
            BY <1>1, <1>3, <1>4, <3>1
    <2>2. CASE ~(i <= s)
        <3>1. PICK j \in 1..k : i = s + j
            <4>1. i - s \in 1..k /\ i = s + (i - s)
                BY <1>2, <2>2
            <4> QED
                BY <4>1
        <3>2. g + i = g + s + j
            BY <3>1
        <3>3. t[g + i] = PlainAtom(z, s + j)
            BY <1>2, <1>4, <3>1, <3>2
        <3> QED
            BY <1>2, <3>1, <3>3
    <2> QED
        BY <2>1, <2>2
<1>8. Len(t) = g + u
    BY <1>4, <1>5
<1>9. IsAnswer(g, u, t)
    BY <1>4, <1>6, <1>7, <1>8 DEF IsAnswer
<1> QED
    BY <1>2, <1>3, <1>4, <1>9

LEMMA NoEndLonger ==
    ASSUME NEW s \in Nat, NEW u \in Nat, s <= u, NEW x \in Stream, NoEnd(x)
    PROVE  NoEnd(x \o Span(0, s, u))
<1>1. PICK z \in Nat, k \in Nat, y \in Stream :
          /\ z = 0 /\ y = Span(z, s, u) /\ k = u - s /\ Len(y) = k
          /\ \A i \in 1..k : y[i] = PlainAtom(z, s + i)
    <2>1. PICK z \in Nat, k \in Nat : z = 0 /\ k = u - s
        <3>1. u - s \in Nat
            OBVIOUS
        <3> QED
            BY <3>1
    <2>2. /\ Span(z, s, u) \in Stream /\ Len(Span(z, s, u)) = u - s
          /\ \A i \in 1..(u - s) : Span(z, s, u)[i] = PlainAtom(z, s + i)
        BY SpanType
    <2> QED
        BY <2>1, <2>2
<1>2. PICK l \in Nat : Len(x) = l
    BY Nothing
<1>3. PICK t \in Stream :
          /\ t = x \o y /\ Len(t) = l + k
          /\ \A i \in 1..l : t[i] = x[i]
          /\ \A i \in 1..k : t[l + i] = y[i]
    <2>1. /\ x \o y \in Stream /\ Len(x \o y) = Len(x) + Len(y)
          /\ \A i \in 1..Len(x) : (x \o y)[i] = x[i]
          /\ \A i \in 1..Len(y) : (x \o y)[Len(x) + i] = y[i]
        BY Joined
    <2> QED
        BY <1>1, <1>2, <2>1
<1>4. ASSUME NEW i \in 1..l + k PROVE t[i] # Mark("end", 1)
    <2>1. CASE i <= l
        <3>1. i \in 1..l
            BY <2>1
        <3> QED
            BY <1>2, <1>3, <3>1 DEF NoEnd
    <2>2. CASE ~(i <= l)
        <3>1. PICK j \in 1..k : i = l + j
            <4>1. i - l \in 1..k /\ i = l + (i - l)
                BY <2>2
            <4> QED
                BY <4>1
        <3>2. t[i] = PlainAtom(z, s + j)
            BY <1>1, <1>3, <3>1
        <3>3. s + j \in Nat \ {0}
            BY <3>1
        <3>4. PlainAtom(z, s + j).t \in {"iv", "data"}
            BY <3>3, PlainType
        <3> QED
            BY <3>2, <3>4, HttpMarks
    <2> QED
        BY <2>1, <2>2
<1>5. NoEnd(t)
    BY <1>3, <1>4 DEF NoEnd
<1> QED
    BY <1>1, <1>3, <1>5

LEMMA AnswerHttp ==
    ASSUME NEW c, NEW cl, NEW x, NEW sv, NEW b, NEW s, NEW u,
           AnswerBase(c, cl, sv, x, b, s, u), NEW e \in Reobfuscated(c, Span(0, s, u)),
           class = "http", peer[c].speaks
    PROVE  AnswerOutcome(c, cl, sv, x, b, u, e)
<1>1. /\ cl \in ClientLocal /\ sv \in ServerLocal /\ sv = server[c]
      /\ x \in Stream /\ b \in Nat /\ s \in Nat /\ u \in Nat /\ b <= s /\ s <= u
    BY DEF AnswerBase
<1>2. PICK z \in Nat : z = 0
    OBVIOUS
<1>3. ~sv.plainSpoken
    <2>1. class # "none" => (sv.plainSpoken <=> ~peer[c].speaks)
        BY Zenon DEF AnswerBase
    <2>2. class # "none"
        OBVIOUS
    <2> QED
        BY <2>1, <2>2
<1>4. PICK f : /\ f = HttpServerEncode(sv.http, Span(0, s, u))
               /\ e = [server |-> [sv EXCEPT !.http = f.local], out |-> f.out]
    BY <1>1, <1>3 DEF Reobfuscated
<1>5. e.server = [sv EXCEPT !.http = f.local] /\ e.out = f.out
    BY <1>4
<1>6. sv.http \in HttpLocal
    BY <1>1 DEF ServerLocal
<1>7. HttpDown(cl, sv, x, b, s)
    BY DEF AnswerBase, OnWay
<1>8. Span(0, s, u) \in Stream
    <2>1. Span(z, s, u) \in Stream
        BY <1>1, SpanType
    <2> QED
        BY <1>2, <2>1
<1>9. ASSUME NEW t, t = [sv EXCEPT !.http = f.local], f.local \in HttpLocal
      PROVE  /\ Kept(sv, t) /\ t.tls = sv.tls /\ t.http = f.local
             /\ [t EXCEPT !.sealed = TRUE].http = f.local /\ [t EXCEPT !.sealed = TRUE].sealed = TRUE
    <2>1. t \in ServerLocal /\ t.tls = sv.tls /\ t.http = f.local
        BY <1>1, <1>9 DEF ServerLocal
    <2>2. Kept(sv, t)
        BY <1>1, <1>9, <2>1 DEF Kept, ServerLocal
    <2>3. [t EXCEPT !.sealed = TRUE].http = t.http /\ [t EXCEPT !.sealed = TRUE].sealed = TRUE
        BY <2>1 DEF ServerLocal
    <2> QED
        BY <2>1, <2>2, <2>3
<1>10. CASE sv.http.sentHeader
    <2>1. sv.sealed
        BY <1>7, <1>10 DEF HttpDown
    <2>2. f = [local |-> sv.http, out |-> Span(0, s, u)]
        BY <1>4, <1>10 DEF HttpServerEncode
    <2>3. f.local = sv.http /\ e.out = Span(0, s, u)
        BY <1>5, <2>2
    <2>4. PICK t : t = e.server /\ t = [sv EXCEPT !.http = f.local]
        BY <1>5
    <2>5. /\ Kept(sv, t) /\ t.tls = sv.tls /\ t.http = sv.http
          /\ [t EXCEPT !.sealed = TRUE].http = sv.http /\ [t EXCEPT !.sealed = TRUE].sealed = TRUE
        BY <1>6, <1>9, <2>3, <2>4
    <2>6. HttpDown(cl, [t EXCEPT !.sealed = TRUE], x \o e.out, b, u)
        <3>1. CASE cl.http.recvHeader /\ sv.sealed /\ x = Span(0, b, s)
            <4>1. Span(z, b, s) \o Span(z, s, u) = Span(z, b, u)
                BY <1>1, SpanJoin
            <4>2. x \o e.out = Span(0, b, u)
                BY <1>2, <2>3, <3>1, <4>1
            <4> QED
                BY <1>10, <2>5, <3>1, <4>2 DEF HttpDown
        <3>2. CASE ~cl.http.recvHeader /\ b = 0 /\ NoEnd(x)
            <4>1. NoEnd(x \o e.out)
                BY <1>1, <2>3, <3>2, NoEndLonger
            <4> QED
                BY <1>10, <2>5, <3>2, <4>1 DEF HttpDown
        <3>3. CASE ~cl.http.recvHeader /\ b = 0 /\ \E g \in {2, 3} : IsAnswer(g, s, x)
            <4>1. PICK g \in {2, 3} : IsAnswer(g, s, x)
                BY <3>3
            <4>2. IsAnswer(g, u, x \o e.out)
                BY <1>1, <2>3, <4>1, AnswerLonger
            <4> QED
                BY <1>10, <2>5, <3>3, <4>2 DEF HttpDown
        <3> QED
            BY <1>7, <2>1, <3>1, <3>2, <3>3 DEF HttpDown
    <2>7. OnWay(class, peer[c].speaks, cl, [e.server EXCEPT !.sealed = TRUE], x \o e.out, b, u)
        BY <2>4, <2>6 DEF OnWay
    <2> QED
        BY <1>8, <2>3, <2>4, <2>5, <2>7 DEF AnswerOutcome
<1>11. CASE ~sv.http.sentHeader
    <2>1. ~sv.sealed /\ s = 0 /\ b = 0
        <3>1. ~sv.sealed
            BY <1>7, <1>11 DEF HttpDown
        <3>2. s = 0
            BY <3>1 DEF AnswerBase
        <3> QED
            BY <1>1, <3>1, <3>2
    <2>2. x = <<>> /\ ~cl.http.recvHeader
        BY <1>7, <2>1 DEF HttpDown
    <2>3. f.local = [sv.http EXCEPT !.sentHeader = TRUE]
          /\ e.out = (<<Mark("ok", 0)>> \o EndMark) \o Span(0, 0, u)
        BY <1>4, <1>5, <1>11, <2>1 DEF HttpServerEncode
    <2>4. e.out \in Stream /\ IsAnswer(3, u, e.out)
        BY <1>1, <2>3, AnswerHead
    <2>5. x \o e.out = e.out
        BY <2>2, <2>4, Nothing
    <2>6. /\ f.local \in HttpLocal /\ f.local.sentHeader = TRUE
          /\ f.local.recvBuf = sv.http.recvBuf /\ f.local.recvHeader = sv.http.recvHeader
        <3>1. [sv.http EXCEPT !.sentHeader = TRUE] \in HttpLocal
            BY <1>6 DEF HttpLocal
        <3>2. /\ [sv.http EXCEPT !.sentHeader = TRUE].sentHeader = TRUE
              /\ [sv.http EXCEPT !.sentHeader = TRUE].recvBuf = sv.http.recvBuf
              /\ [sv.http EXCEPT !.sentHeader = TRUE].recvHeader = sv.http.recvHeader
            BY <1>6 DEF HttpLocal
        <3> QED
            BY <2>3, <3>1, <3>2
    <2>7. PICK t : t = e.server /\ t = [sv EXCEPT !.http = f.local]
        BY <1>5
    <2>8. /\ Kept(sv, t) /\ t.tls = sv.tls /\ t.http = f.local
          /\ [t EXCEPT !.sealed = TRUE].http = f.local /\ [t EXCEPT !.sealed = TRUE].sealed = TRUE
        BY <1>9, <2>6, <2>7
    <2>9. HttpDown(cl, [t EXCEPT !.sealed = TRUE], x \o e.out, b, u)
        BY <2>1, <2>2, <2>4, <2>5, <2>6, <2>8 DEF HttpDown
    <2>10. OnWay(class, peer[c].speaks, cl, [e.server EXCEPT !.sealed = TRUE], x \o e.out, b, u)
        BY <2>7, <2>9 DEF OnWay
    <2> QED
        BY <2>4, <2>6, <2>7, <2>8, <2>10 DEF AnswerOutcome
<1> QED
    BY <1>10, <1>11

LEMMA FirstOfJoined ==
    ASSUME NEW x \in Stream, NEW y \in Stream, x # <<>>
    PROVE  (x \o y)[1] = x[1] /\ x \o y # <<>>
<1>1. PICK a \in Nat : Len(x) = a
    BY Nothing
<1>2. a # 0
    BY <1>1, Nothing
<1>3. 1 \in 1..Len(x)
    BY <1>1, <1>2
<1>4. (x \o y)[1] = x[1]
    BY <1>3, Joined
<1> QED
    BY <1>4, NothingJoined

LEMMA AnswerTls ==
    ASSUME NEW c, NEW cl, NEW x, NEW sv, NEW b, NEW s, NEW u,
           AnswerBase(c, cl, sv, x, b, s, u), NEW e \in Reobfuscated(c, Span(0, s, u)),
           class = "tls", peer[c].speaks
    PROVE  AnswerOutcome(c, cl, sv, x, b, u, e)
<1>1. /\ cl \in ClientLocal /\ sv \in ServerLocal /\ sv = server[c]
      /\ x \in Stream /\ b \in Nat /\ s \in Nat /\ u \in Nat /\ b <= s /\ s <= u
      /\ cl.tls.status = 8 /\ sv.tls.status = 8
    BY DEF AnswerBase
<1>2. PICK z \in Nat : z = 0
    OBVIOUS
<1>3. ~sv.plainSpoken
    <2>1. class # "none" => (sv.plainSpoken <=> ~peer[c].speaks)
        BY Zenon DEF AnswerBase
    <2>2. class # "none"
        OBVIOUS
    <2> QED
        BY <2>1, <2>2
<1>4. PICK f \in TicketServerEncode(sv.tls, global[Global(c)], Span(0, s, u)) :
          e = [server |-> [sv EXCEPT !.tls = f.local], out |-> f.out]
    BY <1>1, <1>3 DEF Reobfuscated
<1>5. PICK o \in Records(Span(0, s, u)) : f = [local |-> sv.tls, out |-> o]
    BY <1>1 DEF TicketServerEncode
<1>6. e.server = sv /\ e.out = o
    <2>1. e.server = [sv EXCEPT !.tls = sv.tls] /\ e.out = o
        BY <1>4, <1>5
    <2> QED
        BY <1>1, <2>1 DEF ServerLocal
<1>7. Framed(0, o, s, u) /\ o \in Stream
    <2>1. Framed(z, o, s, u)
        BY <1>1, <1>2, <1>5, RecordsFramed
    <2> QED
        BY <1>2, <2>1, FramedType
<1>8. PICK h \in Stream : h = cl.tls.recvBuf
    BY <1>1 DEF ClientLocal, TicketLocal
<1>9. h \o x \in Stream /\ (h \o x) \o o = h \o (x \o o)
    BY <1>1, <1>7, Joined, Assoc
<1>10. TicketDown(cl, [sv EXCEPT !.sealed = TRUE], x \o o, b, u)
    <2>1. TicketDown(cl, sv, x, b, s)
        BY DEF AnswerBase, OnWay
    <2>2. CASE Framed(0, h \o x, b, s)
        <3>1. Framed(z, (h \o x) \o o, b, u)
            BY <1>2, <1>7, <2>2, FramedJoin
        <3> QED
            BY <1>1, <1>2, <1>8, <1>9, <3>1 DEF TicketDown
    <2>3. CASE b = 0 /\ h \o x # <<>> /\ (h \o x)[1].t = "reply"
        <3>1. ((h \o x) \o o)[1] = (h \o x)[1] /\ (h \o x) \o o # <<>>
            BY <1>7, <1>9, <2>3, FirstOfJoined
        <3> QED
            BY <1>1, <1>8, <1>9, <2>3, <3>1 DEF TicketDown
    <2>4. \/ Framed(0, h \o x, b, s)
          \/ b = 0 /\ h \o x # <<>> /\ (h \o x)[1].t = "reply"
        <3>1. cl.tls.status \notin {0, 1}
            BY <1>1
        <3> QED
            BY <1>8, <2>1, <3>1 DEF TicketDown
    <2> QED
        BY <2>2, <2>3, <2>4
<1>11. OnWay(class, peer[c].speaks, cl, [e.server EXCEPT !.sealed = TRUE], x \o e.out, b, u)
    BY <1>6, <1>10 DEF OnWay
<1>12. Kept(sv, sv)
    BY <1>1 DEF Kept
<1> QED
    BY <1>6, <1>7, <1>11, <1>12 DEF AnswerOutcome

LEMMA AnswerGives ==
    ASSUME NEW c, NEW cl, NEW x, NEW sv, NEW b, NEW s, NEW u,
           AnswerBase(c, cl, sv, x, b, s, u), NEW e \in Reobfuscated(c, Span(0, s, u))
    PROVE  AnswerOutcome(c, cl, sv, x, b, u, e)
BY ClassType, AnswerPlain, AnswerHttp, AnswerTls

-----------------------------------------------------------------------------
(* What a client takes.                                                    *)

Stripped(out) == IF out # <<>> /\ out[1].t = "iv" THEN SubSeq(out, 2, Len(out)) ELSE out

LEMMA TakenMore ==
    ASSUME NEW b \in Nat, NEW m \in Nat, b <= m, NEW bk \in Stream, Taking(bk, b)
    PROVE  /\ bk \o Stripped(Span(0, b, m)) \in Stream
           /\ Taking(bk \o Stripped(Span(0, b, m)), m)
<1>1. PICK z \in Nat : z = 0
    OBVIOUS
<1>2. PICK o \in Nat : o = 1
    OBVIOUS
<1>3. PICK y \in Stream : /\ y = Span(z, b, m) /\ Len(y) = m - b
                          /\ \A i \in 1..(m - b) : y[i] = PlainAtom(z, b + i)
    BY SpanType
<1>4. CASE b = m
    <2>1. y = <<>>
        BY <1>3, <1>4, SpanNil
    <2>2. Stripped(y) = <<>>
        BY <2>1 DEF Stripped
    <2> QED
        BY <1>1, <1>3, <1>4, <2>2, Nothing
<1>5. CASE b < m
    <2>1. y # <<>>
        <3>1. m - b # 0
            BY <1>5
        <3> QED
            BY <1>3, <3>1, Nothing
    <2>2. m # 0 /\ o <= m
        BY <1>2, <1>5
    <2>3. CASE b = 0
        <3>1. y[1].t = "iv"
            BY <1>1, <1>3, <2>1, <2>3, PlainFirst
        <3>2. Len(y) = m
            <4>1. m - 0 = m
                OBVIOUS
            <4> QED
                BY <1>3, <2>3, <4>1
        <3>3. Stripped(y) = SubSeq(y, 2, m)
            BY <2>1, <3>1, <3>2 DEF Stripped
        <3>4. SubSeq(Span(z, 0, m), 2, m) = Span(z, o, m)
            <4>1. SubSeq(Span(z, 0, m), o + 1, m) = Span(z, o, m)
                BY <2>2, SpanCut
            <4>2. o + 1 = 2
                BY <1>2
            <4> QED
                BY <4>1, <4>2
        <3>5. Stripped(y) = Span(0, 1, m)
            BY <1>1, <1>2, <1>3, <2>3, <3>3, <3>4
        <3>6. Span(z, o, m) \in Stream
            BY <2>2, SpanType
        <3>7. bk = <<>>
            BY <2>3 DEF Taking
        <3>8. bk \o Stripped(y) = Span(0, 1, m) /\ bk \o Stripped(y) \in Stream
            BY <1>1, <1>2, <3>5, <3>6, <3>7, Nothing
        <3> QED
            BY <1>1, <1>3, <2>2, <3>8 DEF Taking
    <2>4. CASE b # 0
        <3>1. y[1].t # "iv"
            <4>1. PICK i \in Nat \ {0} : i = b + 1 /\ i # 1
                BY <2>4
            <4>2. 1 \in 1..(m - b)
                BY <1>5
            <4>3. y[1] = PlainAtom(z, b + 1)
                BY <1>3, <4>2
            <4>4. PlainAtom(z, i).t = "data"
                BY <4>1, PlainType
            <4> QED
                BY <4>1, <4>3, <4>4
        <3>2. Stripped(y) = y
            BY <3>1 DEF Stripped
        <3>3. bk = Span(0, 1, b)
            BY <2>4 DEF Taking
        <3>4. o <= b
            BY <1>2, <2>4
        <3>5. Span(z, o, b) \o Span(z, b, m) = Span(z, o, m)
            BY <3>4, SpanJoin
        <3>6. bk \o y = Span(0, 1, m) /\ bk \o y \in Stream
            BY <1>1, <1>2, <1>3, <3>3, <3>5, Joined
        <3> QED
            BY <1>1, <1>3, <2>2, <3>2, <3>6 DEF Taking
    <2> QED
        BY <2>3, <2>4
<1>6. b = m \/ b < m
    OBVIOUS
<1> QED
    BY <1>4, <1>5, <1>6

TakeBase(c, cl, sv, p, q, b, s) ==
    /\ c \in Conns /\ cl \in ClientLocal /\ cl = client[c] /\ sv \in ServerLocal
    /\ p \in Stream /\ q \in Stream /\ p # <<>> /\ b \in Nat /\ s \in Nat /\ b <= s
    /\ ~sv.sealed => s = 0
    /\ OnWay(class, peer[c].speaks, cl, sv, p \o q, b, s)

\* the next of the answers
TakesSpan(out, b, m, s) == b <= m /\ m <= s /\ out = Span(0, b, m)

PlainTakes(c, cl, sv, p, q, b, s) ==
    \E m \in Nat : TakesSpan(p, b, m, s) /\ OnWay(class, peer[c].speaks, cl, sv, q, m, s)

LEMMA TakePlain ==
    ASSUME NEW c, NEW cl, NEW sv, NEW p, NEW q, NEW b, NEW s,
           TakeBase(c, cl, sv, p, q, b, s), class = "none" \/ ~peer[c].speaks
    PROVE  PlainTakes(c, cl, sv, p, q, b, s)
<1>1. p \in Stream /\ q \in Stream /\ b \in Nat /\ s \in Nat /\ b <= s
    BY DEF TakeBase
<1>2. PICK z \in Nat : z = 0
    OBVIOUS
<1>3. p \o q = Span(z, b, s)
    BY <1>2 DEF TakeBase, OnWay
<1>4. SpanParts(z, b, s, p, q)
    BY <1>1, <1>3, SpanSplit
<1>5. PICK m \in Nat : b <= m /\ m <= s /\ p = Span(z, b, m) /\ q = Span(z, m, s)
    BY <1>4 DEF SpanParts
<1>6. OnWay(class, peer[c].speaks, cl, sv, q, m, s)
    BY <1>2, <1>5 DEF OnWay
<1> QED
    BY <1>2, <1>5, <1>6 DEF PlainTakes, TakesSpan

\* where the only end of a head is
OnlyEnd(p, k) == \A i \in 2..Len(p) : <<p[i - 1], p[i]>> = EndMark <=> i = k

LEMMA EndAtOnly ==
    ASSUME NEW p \in Stream, NEW k \in Nat, k >= 2, OnlyEnd(p, k)
    PROVE  EndAt(p) = IF k <= Len(p) THEN k ELSE 0
<1>1. PICK l \in Nat : Len(p) = l
    BY Nothing
<1> DEFINE at == {i \in 2..l : <<p[i - 1], p[i]>> = EndMark}
<1>2. EndAt(p) = IF at = {} THEN 0 ELSE CHOOSE i \in at : \A j \in at : i <= j
    BY <1>1 DEF EndAt
<1>3. ASSUME ~(k <= l) PROVE at = {}
    BY <1>1, <1>3 DEF OnlyEnd
<1>4. ASSUME k <= l PROVE at = {k}
    BY <1>1, <1>4 DEF OnlyEnd
<1> HIDE DEF at
<1>5. ASSUME k <= l PROVE EndAt(p) = k
    <2>1. at = {k} /\ k <= k
        BY <1>4, <1>5
    <2> QED
        BY <1>2, <2>1
<1> QED
    BY <1>1, <1>2, <1>3, <1>5

LEMMA NoEndCut ==
    ASSUME NEW p \in Stream, NEW q \in Stream, NoEnd(p \o q)
    PROVE  EndAt(p) = 0 /\ NoEnd(q)
<1>1. PICK a \in Nat, d \in Nat : Len(p) = a /\ Len(q) = d
    BY Nothing
<1>2. /\ Len(p \o q) = Len(p) + Len(q)
      /\ \A i \in 1..Len(p) : (p \o q)[i] = p[i]
      /\ \A i \in 1..Len(q) : (p \o q)[Len(p) + i] = q[i]
    BY Joined
<1>3. \A i \in 1..a : p[i] # Mark("end", 1)
    BY <1>1, <1>2 DEF NoEnd
<1>4. NoEnd(q)
    <2> SUFFICES ASSUME NEW i \in 1..d PROVE q[i] # Mark("end", 1)
        BY <1>1 DEF NoEnd
    <2>1. a + i \in 1..a + d
        OBVIOUS
    <2> QED
        BY <1>1, <1>2, <2>1 DEF NoEnd
<1>5. PICK k \in Nat : k = a + 2 /\ k >= 2
    OBVIOUS
<1>6. OnlyEnd(p, k)
    <2> SUFFICES ASSUME NEW i \in 2..a PROVE <<p[i - 1], p[i]>> = EndMark <=> i = k
        BY <1>1 DEF OnlyEnd
    <2>1. i - 1 \in 1..a /\ i # k
        BY <1>5
    <2>2. p[i - 1] # Mark("end", 1)
        BY <1>3, <2>1
    <2> QED
        BY <2>1, <2>2, EndMarkType
<1>7. ~(k <= Len(p))
    BY <1>1, <1>5
<1> QED
    BY <1>4, <1>5, <1>6, <1>7, EndAtOnly

\* What a read of the answer's head leaves of it.
AnswerRead(p, q, f, s) ==
    \/ /\ EndAt(p) = f /\ EndAt(p) # 0
       /\ SpanParts(0, 0, s, SubSeq(p, f + 1, Len(p)), q)
    \/ /\ EndAt(p) = 0
       /\ NoEnd(q) \/ IsAnswer(2, s, q)

LEMMA AnswerCut ==
    ASSUME NEW f \in {2, 3}, NEW s \in Nat, NEW p \in Stream, NEW q \in Stream, p # <<>>,
           IsAnswer(f, s, p \o q)
    PROVE  AnswerRead(p, q, f, s)
<1>1. PICK a \in Nat, d \in Nat : Len(p) = a /\ Len(q) = d
    BY Nothing
<1>2. PICK g \in Nat : g = f /\ g >= 2 /\ g <= 3
    OBVIOUS
<1>3. PICK x \in Stream : /\ x = p \o q /\ Len(x) = a + d
                          /\ \A i \in 1..a : x[i] = p[i]
                          /\ \A i \in 1..d : x[a + i] = q[i]
    <2>1. /\ p \o q \in Stream /\ Len(p \o q) = Len(p) + Len(q)
          /\ \A i \in 1..Len(p) : (p \o q)[i] = p[i]
          /\ \A i \in 1..Len(q) : (p \o q)[Len(p) + i] = q[i]
        BY Joined
    <2> QED
        BY <1>1, <2>1
<1>4. /\ Len(x) = g + s
      /\ x[g - 1] = Mark("end", 1) /\ x[g] = Mark("end", 2)
      /\ g = 3 => x[1] = Mark("ok", 0)
      /\ \A i \in 1..s : x[g + i] = PlainAtom(0, i)
    BY <1>2, <1>3 DEF IsAnswer
<1>5. a + d = g + s /\ a >= 1
    <2>1. a # 0
        BY <1>1, Nothing
    <2> QED
        BY <1>3, <1>4, <2>1
<1>6. ASSUME NEW i \in 1..g + s
      PROVE  /\ x[i] = Mark("end", 1) <=> i = g - 1
             /\ x[i] = Mark("end", 2) <=> i = g
    <2>1. CASE i > g
        <3>1. PICK j \in 1..s : i = g + j
            <4>1. i - g \in 1..s /\ i = g + (i - g)
                BY <2>1
            <4> QED
                BY <4>1
        <3>2. PICK z \in Nat : z = 0
            OBVIOUS
        <3>3. PlainAtom(z, j).t \in {"iv", "data"}
            <4>1. j \in Nat \ {0}
                OBVIOUS
            <4> QED
                BY <4>1, PlainType
        <3>4. x[i] = PlainAtom(z, j)
            BY <1>4, <3>1, <3>2
        <3>5. x[i] # Mark("end", 1) /\ x[i] # Mark("end", 2)
            BY <3>3, <3>4, HttpMarks
        <3>6. i # g - 1 /\ i # g
            BY <2>1
        <3> QED
            BY <3>5, <3>6
    <2>2. CASE i = g
        <3>1. i # g - 1
            BY <2>2
        <3>2. Mark("end", 2) # Mark("end", 1)
            BY HttpMarks
        <3> QED
            BY <1>4, <2>2, <3>1, <3>2
    <2>3. CASE i = g - 1
        <3>1. i # g
            BY <2>3
        <3>2. Mark("end", 2) # Mark("end", 1)
            BY HttpMarks
        <3> QED
            BY <1>4, <2>3, <3>1, <3>2
    <2>4. CASE i < g - 1
        <3>1. i = 1 /\ g = 3
            BY <1>2, <2>4
        <3>2. i # g - 1 /\ i # g
            BY <2>4
        <3>3. x[i] = Mark("ok", 0)
            BY <1>4, <3>1
        <3> QED
            BY <3>2, <3>3, HttpMarks
    <2>5. i > g \/ i = g \/ i = g - 1 \/ i < g - 1
        BY <1>2
    <2> QED
        BY <2>1, <2>2, <2>3, <2>4, <2>5
<1>7. OnlyEnd(p, g)
    <2> SUFFICES ASSUME NEW i \in 2..a PROVE <<p[i - 1], p[i]>> = EndMark <=> i = g
        BY <1>1 DEF OnlyEnd
    <2>1. i \in 1..a /\ i \in 1..g + s
        BY <1>5
    <2>2. PICK j \in 1..a : j = i - 1 /\ j \in 1..g + s
        <3>1. i - 1 \in 1..a /\ i - 1 \in 1..g + s
            BY <1>5
        <3> QED
            BY <3>1
    <2>3. p[i] = Mark("end", 2) <=> i = g
        BY <1>3, <1>6, <2>1
    <2>4. p[j] = Mark("end", 1) <=> j = g - 1
        BY <1>3, <1>6, <2>2
    <2>5. j = g - 1 <=> i = g
        BY <2>2
    <2>6. <<p[j], p[i]>> = EndMark <=> p[j] = Mark("end", 1) /\ p[i] = Mark("end", 2)
        BY EndMarkType
    <2>7. <<p[j], p[i]>> = EndMark <=> i = g
        BY <2>3, <2>4, <2>5, <2>6
    <2> QED
        BY <2>2, <2>7
<1>8. CASE g <= a
    <2>1. EndAt(p) = g /\ EndAt(p) # 0
        <3>1. g <= Len(p)
            BY <1>1, <1>8
        <3>2. EndAt(p) = g
            BY <1>2, <1>7, <3>1, EndAtOnly
        <3> QED
            BY <1>2, <3>2
    <2>2. PICK h \in Stream, y \in Stream :
              p = h \o y /\ Len(h) = g /\ y = SubSeq(p, g + 1, a)
        <3>1. g \in 0..Len(p)
            BY <1>1, <1>8
        <3> QED
            BY <1>1, <3>1, Cut
    <2>3. PICK t \in Stream, n \in Nat : t = y \o q /\ Len(t) = n
        BY Joined, Nothing
    <2>4. x = h \o t
        <3>1. (h \o y) \o q = h \o (y \o q)
            BY Assoc
        <3> QED
            BY <1>3, <2>2, <2>3, <3>1
    <2>5. /\ Len(h \o t) = Len(h) + Len(t)
          /\ \A i \in 1..Len(t) : (h \o t)[Len(h) + i] = t[i]
        BY Joined
    <2>6. g + n = g + s /\ \A i \in 1..n : x[g + i] = t[i]
        BY <1>4, <2>2, <2>3, <2>4, <2>5
    <2>7. n = s
        BY <2>6
    <2>8. PICK z \in Nat : z = 0
        OBVIOUS
    <2>9. t = Span(z, z, s)
        <3>1. ReadsAs(t, z, z)
            <4> SUFFICES ASSUME NEW i \in 1..n PROVE t[i] = PlainAtom(z, z + i)
                BY <2>3 DEF ReadsAs
            <4>1. i \in 1..s
                BY <2>7
            <4>2. z + i = i
                BY <2>8
            <4>3. t[i] = PlainAtom(z, i)
                BY <1>4, <2>6, <2>8, <4>1
            <4> QED
                BY <4>2, <4>3
        <3>2. Len(t) = s - z /\ z <= s
            BY <2>3, <2>7, <2>8
        <3> QED
            BY <3>1, <3>2, SpanIs
    <2>10. SpanParts(z, z, s, y, q)
        <3>1. y \o q = Span(z, z, s) /\ z <= s
            BY <2>3, <2>8, <2>9
        <3> QED
            BY <3>1, SpanSplit
    <2> QED
        BY <1>1, <1>2, <2>1, <2>2, <2>8, <2>10 DEF AnswerRead
<1>9. CASE ~(g <= a)
    <2>1. EndAt(p) = 0
        <3>1. ~(g <= Len(p))
            BY <1>1, <1>9
        <3> QED
            BY <1>2, <1>7, <3>1, EndAtOnly
    <2>2. CASE a = g - 1
        <3>1. ASSUME NEW i \in 1..d PROVE q[i] # Mark("end", 1)
            <4>1. PICK j \in 1..g + s : j = a + i
                <5>1. a + i \in 1..g + s
                    BY <1>5
                <5> QED
                    BY <5>1
            <4>2. j # g - 1
                BY <2>2, <4>1
            <4>3. x[j] # Mark("end", 1)
                BY <1>6, <4>2
            <4> QED
                BY <1>3, <4>1, <4>3
        <3>2. NoEnd(q)
            BY <1>1, <3>1 DEF NoEnd
        <3> QED
            BY <2>1, <3>2 DEF AnswerRead
    <2>3. CASE a # g - 1
        <3>1. a = 1 /\ g = 3 /\ d = 2 + s
            BY <1>2, <1>5, <1>9, <2>3
        <3>2. q[1] = x[2] /\ q[2] = x[3]
            <4>1. 1 \in 1..d /\ 2 \in 1..d
                BY <3>1
            <4>2. x[a + 1] = q[1] /\ x[a + 2] = q[2]
                BY <1>3, <4>1
            <4>3. a + 1 = 2 /\ a + 2 = 3
                BY <3>1
            <4> QED
                BY <4>2, <4>3
        <3>3. q[1] = Mark("end", 1) /\ q[2] = Mark("end", 2)
            <4>1. g - 1 = 2
                BY <3>1
            <4> QED
                BY <1>4, <3>1, <3>2, <4>1
        <3>4. ASSUME NEW i \in 1..s PROVE q[2 + i] = PlainAtom(0, i)
            <4>1. PICK j \in 1..d : j = 2 + i /\ a + j = g + i
                <5>1. 2 + i \in 1..d /\ a + (2 + i) = g + i
                    BY <3>1
                <5> QED
                    BY <5>1
            <4>2. x[a + j] = q[j]
                BY <1>3
            <4> QED
                BY <1>4, <4>1, <4>2
        <3>5. PICK k \in Nat : k = 2 /\ k - 1 = 1 /\ k # 3
            OBVIOUS
        <3>6. Len(q) = k + s
            BY <1>1, <3>1, <3>5
        <3>7. IsAnswer(k, s, q)
            BY <3>3, <3>4, <3>5, <3>6 DEF IsAnswer
        <3> QED
            BY <2>1, <3>5, <3>7 DEF AnswerRead
    <2> QED
        BY <2>2, <2>3
<1> QED
    BY <1>8, <1>9

HttpTakes(cl, sv, h, q, b, s) ==
    /\ h.local \in HttpLocal
    /\ h.local.sentHeader <=> cl.http.sentHeader
    /\ \E m \in Nat : /\ TakesSpan(h.out, b, m, s)
                      /\ HttpDown([cl EXCEPT !.http = h.local], sv, q, m, s)

LEMMA TakeHttp ==
    ASSUME NEW c, NEW cl, NEW sv, NEW p, NEW q, NEW b, NEW s,
           TakeBase(c, cl, sv, p, q, b, s), class = "http", peer[c].speaks
    PROVE  HttpTakes(cl, sv, HttpClientDecode(cl.http, p), q, b, s)
<1>1. /\ cl \in ClientLocal /\ sv \in ServerLocal /\ p # <<>>
      /\ p \in Stream /\ q \in Stream /\ b \in Nat /\ s \in Nat /\ b <= s
    BY DEF TakeBase
<1>2. HttpDown(cl, sv, p \o q, b, s)
    BY DEF TakeBase, OnWay
<1>3. PICK z \in Nat : z = 0
    OBVIOUS
<1>4. PICK l \in HttpLocal : l = cl.http
    BY <1>1 DEF ClientLocal
<1>5. PICK h : h = HttpClientDecode(l, p)
    OBVIOUS
<1>6. ASSUME NEW t \in HttpLocal
      PROVE  [cl EXCEPT !.http = t].http = t
    BY <1>1 DEF ClientLocal
<1>7. sv.http.sentHeader <=> sv.sealed
    BY <1>2 DEF HttpDown
<1>8. CASE l.recvHeader
    <2>1. sv.sealed /\ p \o q = Span(z, b, s)
        BY <1>2, <1>3, <1>4, <1>8 DEF HttpDown
    <2>2. SpanParts(z, b, s, p, q)
        BY <1>1, <2>1, SpanSplit
    <2>3. PICK m \in Nat : b <= m /\ m <= s /\ p = Span(z, b, m) /\ q = Span(z, m, s)
        BY <2>2 DEF SpanParts
    <2>4. h = [local |-> l, out |-> p]
        BY <1>5, <1>8 DEF HttpClientDecode
    <2>5. h.local = l /\ h.out = p
        BY <2>4
    <2>6. HttpDown([cl EXCEPT !.http = h.local], sv, q, m, s)
        BY <1>3, <1>6, <1>7, <1>8, <2>1, <2>3, <2>5 DEF HttpDown
    <2> QED
        BY <1>3, <1>4, <1>5, <2>3, <2>5, <2>6 DEF HttpTakes, TakesSpan
<1>9. CASE ~l.recvHeader
    <2>1. p \o q # <<>>
        BY <1>1, NothingJoined
    <2>2. sv.sealed /\ b = 0
        BY <1>2, <1>4, <1>9, <2>1 DEF HttpDown
    <2>3. CASE EndAt(p) = 0 /\ (NoEnd(q) \/ IsAnswer(2, s, q))
        <3>1. h = [local |-> l, out |-> <<>>]
            BY <1>5, <1>9, <2>3 DEF HttpClientDecode
        <3>2. h.local = l /\ h.out = <<>>
            BY <3>1
        <3>3. TakesSpan(h.out, b, z, s)
            <4>1. Span(z, z, z) = <<>>
                BY SpanNil
            <4> QED
                BY <1>1, <1>3, <2>2, <3>2, <4>1 DEF TakesSpan
        <3>4. HttpDown([cl EXCEPT !.http = h.local], sv, q, z, s)
            BY <1>3, <1>6, <1>7, <1>9, <2>2, <2>3, <3>2 DEF HttpDown
        <3> QED
            BY <1>4, <1>5, <3>2, <3>3, <3>4 DEF HttpTakes
    <2>4. CASE NoEnd(p \o q)
        <3>1. EndAt(p) = 0 /\ NoEnd(q)
            BY <1>1, <2>4, NoEndCut
        <3> QED
            BY <2>3, <3>1
    <2>5. CASE \E f \in {2, 3} : IsAnswer(f, s, p \o q)
        <3>1. PICK f \in {2, 3} : IsAnswer(f, s, p \o q)
            BY <2>5
        <3>2. AnswerRead(p, q, f, s)
            BY <1>1, <3>1, AnswerCut
        <3>3. CASE EndAt(p) = f /\ EndAt(p) # 0 /\ SpanParts(0, 0, s, SubSeq(p, f + 1, Len(p)), q)
            <4>1. PICK t \in HttpLocal : /\ t = [l EXCEPT !.recvHeader = TRUE]
                                         /\ t.recvHeader = TRUE
                                         /\ t.sentHeader = l.sentHeader
                <5>1. [l EXCEPT !.recvHeader = TRUE] \in HttpLocal
                    BY DEF HttpLocal
                <5>2. /\ [l EXCEPT !.recvHeader = TRUE].recvHeader = TRUE
                      /\ [l EXCEPT !.recvHeader = TRUE].sentHeader = l.sentHeader
                    BY DEF HttpLocal
                <5> QED
                    BY <5>1, <5>2
            <4>2. h = [local |-> t, out |-> SubSeq(p, f + 1, Len(p))]
                BY <1>5, <1>9, <3>3, <4>1 DEF HttpClientDecode
            <4>3. h.local = t /\ h.out = SubSeq(p, f + 1, Len(p))
                BY <4>2
            <4>4. PICK m \in Nat : 0 <= m /\ m <= s /\ h.out = Span(0, 0, m) /\ q = Span(0, m, s)
                BY <3>3, <4>3 DEF SpanParts
            <4>5. TakesSpan(h.out, b, m, s)
                BY <2>2, <4>4 DEF TakesSpan
            <4>6. HttpDown([cl EXCEPT !.http = h.local], sv, q, m, s)
                BY <1>6, <1>7, <2>2, <4>1, <4>3, <4>4 DEF HttpDown
            <4> QED
                BY <1>4, <1>5, <4>1, <4>3, <4>5, <4>6 DEF HttpTakes
        <3> QED
            BY <2>3, <3>2, <3>3 DEF AnswerRead
    <2> QED
        BY <1>2, <1>4, <1>9, <2>1, <2>4, <2>5 DEF HttpDown
<1> QED
    BY <1>8, <1>9

\* the reply was taken, and the finish is to follow
TlsAnswered(cl, sv, d, q) ==
    /\ d.local = cl.tls /\ cl.tls.status = 1 /\ cl.tls.recvBuf = <<>>
    /\ ~sv.sealed /\ sv.tls.status = 3 /\ AllReply(q)
TlsTakes(cl, sv, d, q, b, s) ==
    /\ cl.tls.status = 8
    /\ d.local \in TicketLocal /\ d.local.status = 8
    /\ \E m \in Nat : /\ TakesSpan(d.out, b, m, s)
                      /\ TicketDown([cl EXCEPT !.tls = d.local], sv, q, m, s)
TlsRead(cl, sv, d, q, b, s) ==
    /\ d.ok /\ d.back => TlsAnswered(cl, sv, d, q)
    /\ d.ok /\ ~d.back => TlsTakes(cl, sv, d, q, b, s)

LEMMA AllReplyCut ==
    ASSUME NEW p \in Stream, NEW q \in Stream, AllReply(p \o q)
    PROVE  AllReply(q)
<1>1. PICK a \in Nat, e \in Nat : Len(p) = a /\ Len(q) = e
    BY Nothing
<1>2. /\ Len(p \o q) = Len(p) + Len(q)
      /\ \A i \in 1..Len(q) : (p \o q)[Len(p) + i] = q[i]
    BY Joined
<1> SUFFICES ASSUME NEW i \in 1..e PROVE q[i].t = "reply"
    BY <1>1 DEF AllReply
<1>3. a + i \in 1..a + e
    OBVIOUS
<1> QED
    BY <1>1, <1>2, <1>3 DEF AllReply

LEMMA TakeTls ==
    ASSUME NEW c, NEW cl, NEW sv, NEW p, NEW q, NEW b, NEW s, NEW key,
           TakeBase(c, cl, sv, p, q, b, s), class = "tls", peer[c].speaks
    PROVE  TlsRead(cl, sv, TicketClientDecode(cl.tls, c, p, key), q, b, s)
<1>1. /\ cl \in ClientLocal /\ sv \in ServerLocal /\ p # <<>>
      /\ p \in Stream /\ q \in Stream /\ b \in Nat /\ s \in Nat /\ b <= s
    BY DEF TakeBase
<1>2. TicketDown(cl, sv, p \o q, b, s)
    BY DEF TakeBase, OnWay
<1>3. PICK z \in Nat : z = 0
    OBVIOUS
<1>4. PICK l \in TicketLocal : l = cl.tls
    BY <1>1 DEF ClientLocal
<1>5. PICK d : d = TicketClientDecode(l, c, p, key)
    OBVIOUS
<1>6. ASSUME NEW t \in TicketLocal
      PROVE  [cl EXCEPT !.tls = t].tls = t
    BY <1>1 DEF ClientLocal
<1>7. p \o q # <<>>
    BY <1>1, NothingJoined
<1>8. PICK h \in Stream : h = l.recvBuf
    BY DEF TicketLocal
<1>9. h \o p \in Stream /\ (h \o p) \o q = h \o (p \o q)
    BY <1>1, Joined, Assoc
<1>10. CASE /\ l.status = 1 /\ h = <<>> /\ ~sv.sealed /\ sv.tls.status = 3 /\ AllReply(p \o q)
    <2>1. AllReply(q)
        BY <1>1, <1>10, AllReplyCut
    <2>2. d = Decoded(l, NewTicketGlobal, <<>>, TRUE) \/ d = Refused(l, NewTicketGlobal)
        <3>1. l.status # 8
            BY <1>10
        <3> QED
            BY <1>5, <3>1, Zenon DEF TicketClientDecode
    <2>3. CASE d = Decoded(l, NewTicketGlobal, <<>>, TRUE)
        <3>1. d.local = l /\ d.back = TRUE
            BY <2>3 DEF Decoded
        <3> QED
            BY <1>4, <1>5, <1>8, <1>10, <2>1, <3>1 DEF TlsRead, TlsAnswered
    <2>4. CASE d = Refused(l, NewTicketGlobal)
        <3>1. d.ok = FALSE
            BY <2>4 DEF Refused
        <3> QED
            BY <1>4, <1>5, <3>1 DEF TlsRead
    <2> QED
        BY <2>2, <2>3, <2>4
<1>11. CASE l.status = 8 /\ Framed(0, h \o (p \o q), b, s)
    <2>1. Framed(z, l.recvBuf \o (p \o q), b, s)
        BY <1>3, <1>8, <1>11
    <2>2. Reassembly(z, l, NewTicketGlobal, p, q, b, s)
        BY <1>1, <2>1, Reassembles
    <2>3. PICK m \in Nat, y \in Stream :
              /\ b <= m /\ m <= s /\ Framed(z, y \o q, m, s)
              /\ Reassembled(l, NewTicketGlobal, p)
                    = Decoded([l EXCEPT !.recvBuf = y], NewTicketGlobal, Span(z, b, m), FALSE)
        BY <2>2 DEF Reassembly
    <2>4. d = Decoded([l EXCEPT !.recvBuf = y], NewTicketGlobal, Span(z, b, m), FALSE)
        BY <1>5, <1>11, <2>3 DEF TicketClientDecode
    <2>5. PICK t \in TicketLocal : t = [l EXCEPT !.recvBuf = y] /\ t.recvBuf = y /\ t.status = 8
        <3>1. [l EXCEPT !.recvBuf = y] \in TicketLocal
            BY DEF TicketLocal
        <3>2. /\ [l EXCEPT !.recvBuf = y].recvBuf = y
              /\ [l EXCEPT !.recvBuf = y].status = 8
            BY <1>11 DEF TicketLocal
        <3> QED
            BY <3>1, <3>2
    <2>6. d.local = t /\ d.out = Span(z, b, m) /\ d.back = FALSE
        BY <2>4, <2>5 DEF Decoded
    <2>7. TakesSpan(d.out, b, m, s)
        BY <1>3, <2>3, <2>6 DEF TakesSpan
    <2>8. TicketDown([cl EXCEPT !.tls = d.local], sv, q, m, s)
        BY <1>3, <1>6, <2>3, <2>5, <2>6 DEF TicketDown
    <2>9. TlsTakes(cl, sv, d, q, b, s)
        BY <1>4, <1>11, <2>5, <2>6, <2>7, <2>8 DEF TlsTakes
    <2> QED
        BY <1>4, <1>5, <2>6, <2>9 DEF TlsRead
<1>12. CASE l.status = 8 /\ b = 0 /\ (h \o (p \o q))[1].t = "reply"
    <2>1. PICK x \in Stream, n \in Nat : x = h \o p /\ n = Len(x) /\ n > 0 /\ x # <<>>
        <3>1. h \o p # <<>>
            BY <1>1, NothingJoined
        <3>2. PICK x \in Stream : x = h \o p /\ x # <<>>
            BY <1>9, <3>1
        <3>3. PICK n \in Nat : n = Len(x)
            BY Nothing
        <3>4. n # 0
            BY <3>2, <3>3, Nothing
        <3>5. n > 0
            BY <3>4
        <3> QED
            BY <3>2, <3>3, <3>5
    <2>2. (x \o q)[1] = x[1] /\ x \o q # <<>>
        BY <1>1, <2>1, FirstOfJoined
    <2>3. x[1].t = "reply" /\ x[1].t # "head"
        BY <1>9, <1>12, <2>1, <2>2
    <2>4. Unpack(x) = Unpacked(n = 1, x, <<>>)
        BY <2>1, <2>3, UnpackOther
    <2>5. d = Reassembled(l, NewTicketGlobal, p)
        BY <1>5, <1>12 DEF TicketClientDecode
    <2>6. CASE n = 1
        <3>1. Unpack(x).ok /\ Unpack(x).rest = x /\ Unpack(x).out = <<>>
            <4>1. Unpack(x) = Unpacked(TRUE, x, <<>>)
                <5>1. (n = 1) = TRUE
                    BY <2>6
                <5> QED
                    BY <2>4, <5>1
            <4> QED
                BY <4>1 DEF Unpacked
        <3>2. d = Decoded([l EXCEPT !.recvBuf = x], NewTicketGlobal, <<>>, FALSE)
            BY <1>8, <2>1, <2>5, <3>1 DEF Reassembled
        <3>3. PICK t \in TicketLocal : t = [l EXCEPT !.recvBuf = x] /\ t.recvBuf = x /\ t.status = 8
            <4>1. [l EXCEPT !.recvBuf = x] \in TicketLocal
                BY DEF TicketLocal
            <4>2. /\ [l EXCEPT !.recvBuf = x].recvBuf = x
                  /\ [l EXCEPT !.recvBuf = x].status = 8
                BY <1>12 DEF TicketLocal
            <4> QED
                BY <4>1, <4>2
        <3>4. d.local = t /\ d.out = <<>> /\ d.back = FALSE
            BY <3>2, <3>3 DEF Decoded
        <3>5. TakesSpan(d.out, b, z, s)
            <4>1. Span(z, z, z) = <<>>
                BY SpanNil
            <4> QED
                BY <1>1, <1>3, <1>12, <3>4, <4>1 DEF TakesSpan
        <3>6. TicketDown([cl EXCEPT !.tls = d.local], sv, q, z, s)
            <4>1. [cl EXCEPT !.tls = d.local].tls = t
                BY <1>6, <3>3, <3>4
            <4>2. (t.recvBuf \o q)[1].t = "reply" /\ t.recvBuf \o q # <<>>
                BY <2>2, <2>3, <3>3
            <4> QED
                BY <1>3, <3>3, <4>1, <4>2 DEF TicketDown
        <3>7. TlsTakes(cl, sv, d, q, b, s)
            BY <1>4, <1>12, <3>3, <3>4, <3>5, <3>6 DEF TlsTakes
        <3> QED
            BY <1>4, <1>5, <3>4, <3>7 DEF TlsRead
    <2>7. CASE n # 1
        <3>1. ~Unpack(x).ok
            <4>1. Unpack(x) = Unpacked(FALSE, x, <<>>)
                <5>1. (n = 1) = FALSE
                    BY <2>7
                <5> QED
                    BY <2>4, <5>1
            <4> QED
                BY <4>1 DEF Unpacked
        <3>2. d = Refused(l, NewTicketGlobal)
            BY <1>8, <2>1, <2>5, <3>1 DEF Reassembled
        <3>3. d.ok = FALSE
            BY <3>2 DEF Refused
        <3> QED
            BY <1>4, <1>5, <3>3 DEF TlsRead
    <2> QED
        BY <2>6, <2>7
<1>13. \/ l.status = 1 /\ h = <<>> /\ ~sv.sealed /\ sv.tls.status = 3 /\ AllReply(p \o q)
       \/ l.status = 8 /\ Framed(0, h \o (p \o q), b, s)
       \/ l.status = 8 /\ b = 0 /\ (h \o (p \o q))[1].t = "reply"
    BY <1>2, <1>4, <1>7, <1>8 DEF TicketDown
<1> QED
    BY <1>10, <1>11, <1>12, <1>13

\* The client's finish, with what waited behind its hello.
FinishBase(c, v, cl, sv, in, w) ==
    /\ c \in Conns /\ v \in Nat /\ w \in Nat /\ cl \in ClientLocal
    /\ cl.tls.status = 1 /\ sv.tls.status = 3
    /\ TicketOpening(v, c, cl, sv, in, w)
FinishOutcome(c, v, cl, sv, in, w, e) ==
    /\ e.local \in TicketLocal /\ e.local.status = 8 /\ e.local.recvBuf = cl.tls.recvBuf
    /\ e.out \in Stream
    /\ TicketFinish(v, c, [cl EXCEPT !.tls = e.local], sv, in \o e.out, w)

LEMMA FinishGives ==
    ASSUME NEW c, NEW v, NEW cl, NEW sv, NEW in, NEW w,
           FinishBase(c, v, cl, sv, in, w), NEW e \in TicketClientEncode(cl.tls, c, <<>>)
    PROVE  FinishOutcome(c, v, cl, sv, in, w, e)
<1>1. /\ c \in Conns /\ v \in Nat /\ w \in Nat /\ cl \in ClientLocal
      /\ cl.tls.status = 1 /\ sv.tls.status = 3
    BY DEF FinishBase
<1>2. PICK l \in TicketLocal : l = cl.tls /\ l.status = 1
    BY <1>1 DEF ClientLocal
<1>3. w > 0 /\ Framed(v, l.sendBuf, 0, w) /\ in = <<>>
    BY <1>1, <1>2 DEF FinishBase, TicketOpening, TicketQuiet, TicketHello, TicketFinish
<1>4. Framed(v, Record(<<>>), w, w)
    <2>1. w <= w
        BY <1>1
    <2>2. Framed(v, Record(Span(v, w, w)), w, w)
        BY <1>1, <2>1, FramedRecord
    <2>3. Span(v, w, w) = <<>>
        BY <1>1, SpanNil
    <2> QED
        BY <2>2, <2>3
<1>5. PICK y \in Stream : y = l.sendBuf \o Record(<<>>) /\ Framed(v, y, 0, w)
    <2>1. Framed(v, l.sendBuf \o Record(<<>>), 0, w)
        BY <1>1, <1>3, <1>4, FramedJoin
    <2>2. l.sendBuf \o Record(<<>>) \in Stream
        BY <1>1, <2>1, FramedType
    <2> QED
        BY <2>1, <2>2
<1>6. e = [local |-> [l EXCEPT !.status = 8, !.sendBuf = <<>>],
           out |-> Flight("finish", FinishLength, c) \o y]
    <2>1. l.status # 8 /\ l.status # 0
        BY <1>2
    <2> QED
        BY <1>2, <1>5, <2>1 DEF TicketClientEncode
<1>7. PICK f \in Stream : f = Flight("finish", FinishLength, c)
    BY <1>1, TicketAssumption, FlightType
<1>8. e.local = [l EXCEPT !.status = 8, !.sendBuf = <<>>] /\ e.out = f \o y /\ e.out \in Stream
    BY <1>6, <1>7, Joined
<1>9. in \o e.out = f \o y
    BY <1>3, <1>8, Nothing
<1>10. e.local \in TicketLocal /\ e.local.status = 8 /\ e.local.recvBuf = l.recvBuf
    <2>1. [l EXCEPT !.status = 8, !.sendBuf = <<>>] \in TicketLocal
        BY Nothing DEF TicketLocal
    <2>2. /\ [l EXCEPT !.status = 8, !.sendBuf = <<>>].status = 8
          /\ [l EXCEPT !.status = 8, !.sendBuf = <<>>].recvBuf = l.recvBuf
        BY DEF TicketLocal
    <2> QED
        BY <1>8, <2>1, <2>2
<1>11. [cl EXCEPT !.tls = e.local].tls = e.local
    BY <1>1 DEF ClientLocal
<1>12. TicketFinish(v, c, [cl EXCEPT !.tls = e.local], sv, in \o e.out, w)
    BY <1>1, <1>3, <1>5, <1>7, <1>9, <1>10, <1>11 DEF TicketFinish
<1> QED
    BY <1>2, <1>8, <1>10, <1>12 DEF FinishOutcome

\* Nothing but the rest of the reply is then on its way to it.
LEMMA ReplyRest ==
    ASSUME NEW cl, NEW sv, NEW q \in Stream, AllReply(q),
           cl.tls.status = 8, cl.tls.recvBuf = <<>>
    PROVE  TicketDown(cl, sv, q, 0, 0)
<1>1. PICK n \in Nat : Len(q) = n
    BY Nothing
<1>2. <<>> \o q = q
    BY Nothing
<1>3. CASE n = 0
    <2>1. q = <<>>
        BY <1>1, <1>3, Nothing
    <2>2. PICK z \in Nat : z = 0 /\ Framed(z, <<>>, z, z)
        BY FramedNil
    <2> QED
        BY <1>2, <2>1, <2>2 DEF TicketDown
<1>4. CASE n > 0
    <2>1. 1 \in 1..n
        BY <1>4
    <2>2. q[1].t = "reply"
        BY <1>1, <2>1 DEF AllReply
    <2>3. q # <<>>
        BY <1>1, <1>4, Nothing
    <2> QED
        BY <1>2, <2>2, <2>3 DEF TicketDown
<1> QED
    BY <1>3, <1>4

-----------------------------------------------------------------------------
(* What the plug-in's data are after a read of the server, whatever it read. *)

ClientStatus == {0, 1, 8}
ServerStatus == {0, 2, 3, 8}
FewIds(ids)  == ids = {} \/ \E x : ids = {x}
Globals      == {g \in GlobalLocal : FewIds(g.ids)}

TicketSide(l, e) ==
    /\ e.local.status \in ServerStatus
    /\ e.global \in Globals

LEMMA ReassembledSide ==
    ASSUME NEW l, NEW g \in Globals, NEW piece, l.status \in ServerStatus,
           l = [status |-> l.status, sendBuf |-> l.sendBuf, recvBuf |-> l.recvBuf]
    PROVE  TicketSide(l, Reassembled(l, g, piece))
<1>1. PICK u : u = Unpack(l.recvBuf \o piece)
    OBVIOUS
<1>2. CASE u.ok
    <2>1. Reassembled(l, g, piece) = Decoded([l EXCEPT !.recvBuf = u.rest], g, u.out, FALSE)
        BY <1>1, <1>2 DEF Reassembled
    <2>2. [l EXCEPT !.recvBuf = u.rest].status = l.status
        OBVIOUS
    <2> QED
        BY <2>1, <2>2 DEF TicketSide, Decoded
<1>3. CASE ~u.ok
    <2>1. Reassembled(l, g, piece) = Refused(l, g)
        BY <1>1, <1>3 DEF Reassembled
    <2> QED
        BY <2>1 DEF TicketSide, Refused
<1> QED
    BY <1>2, <1>3

LEMMA TicketDecodeSide ==
    ASSUME NEW l \in TicketLocal, l.status \in ServerStatus, NEW g \in Globals,
           NEW p \in Stream, p # <<>>, NEW pr
    PROVE  TicketSide(l, TicketServerDecode(l, g, p, pr))
<1>1. PICK e : e = TicketServerDecode(l, g, p, pr)
    OBVIOUS
<1>2. l = [status |-> l.status, sendBuf |-> l.sendBuf, recvBuf |-> l.recvBuf]
    BY DEF TicketLocal
<1>3. CASE l.status = 8
    BY <1>2, <1>3, ReassembledSide DEF TicketServerDecode
<1>4. CASE l.status = 3
    <2>1. e = Finish(l, g, p, pr)
        BY <1>1, <1>4 DEF TicketServerDecode
    <2>2. PICK l3 : l3 = [l EXCEPT !.status = 8, !.recvBuf = SubSeq(p, FinishLength + 1, Len(p))]
        OBVIOUS
    <2>3. l3 = [status |-> l3.status, sendBuf |-> l3.sendBuf, recvBuf |-> l3.recvBuf]
          /\ l3.status = 8
        BY <1>2, <2>2 DEF TicketLocal
    <2>4. TicketSide(l3, Reassembled(l3, g, <<>>))
        <3>1. l3.status \in ServerStatus
            BY <2>3 DEF ServerStatus
        <3> QED
            BY <2>3, <3>1, ReassembledSide
    <2>5. e = Reassembled(l3, g, <<>>) \/ e = Refused(l, g)
        BY <2>1, <2>2 DEF Finish
    <2>6. e = Refused(l, g) => TicketSide(l, e)
        BY DEF TicketSide, Refused
    <2> QED
        BY <1>1, <2>4, <2>5, <2>6 DEF TicketSide
<1>5. CASE l.status # 8 /\ l.status # 3
    <2>1. e = Hello(l, g, p, pr)
        BY <1>1, <1>5 DEF TicketServerDecode
    <2>2. PICK l2 : l2 = [l EXCEPT !.status = 2] /\ l2.status = 2
        <3>1. [l EXCEPT !.status = 2].status = 2
            BY DEF TicketLocal
        <3> QED
            BY <3>1
    <2>3. PICK a : a = p[1] /\ a \in AtomType
        <3>1. Len(p) \in Nat /\ Len(p) # 0
            BY Nothing
        <3>2. 1 \in 1..Len(p)
            BY <3>1
        <3> QED
            BY <3>2, Nothing
    <2>4. \A h \in Globals : TicketSide(l, Refused(l2, h)) /\ TicketSide(l, Decoded(l2, h, <<>>, TRUE))
        BY <2>2 DEF TicketSide, Refused, Decoded, ServerStatus
    <2>5. CASE a.t = "hello"
        <3>1. a.c \in Conns
            BY <2>3, <2>5 DEF AtomType
        <3>2. PICK met : met = [g EXCEPT !.ids = {a.c}] /\ met \in Globals
            <4>1. [g EXCEPT !.ids = {a.c}] \in GlobalLocal /\ [g EXCEPT !.ids = {a.c}].ids = {a.c}
                BY <3>1 DEF Globals, GlobalLocal
            <4> QED
                BY <4>1 DEF Globals, FewIds
        <3>3. ListAdded(met, a.c) \in Globals
            <4>1. /\ [met EXCEPT !.hellos = met.hellos \cup {a.c}] \in GlobalLocal
                  /\ [met EXCEPT !.hellos = met.hellos \cup {a.c}].ids = met.ids
                BY <3>1, <3>2 DEF Globals, GlobalLocal
            <4> QED
                BY <3>2, <4>1 DEF ListAdded, Globals
        <3>4. \/ e = Refused(l2, g) \/ e = Refused(l2, met)
              \/ e = Decoded(l2, ListAdded(met, a.c), <<>>, TRUE)
            BY <2>1, <2>2, <2>3, <2>5, <3>2 DEF Hello
        <3> QED
            BY <1>1, <2>4, <3>2, <3>3, <3>4
    <2>6. CASE a.t # "hello"
        <3>1. e = Refused(l2, g)
            BY <2>1, <2>2, <2>3, <2>6 DEF Hello
        <3> QED
            BY <1>1, <2>4, <3>1
    <2> QED
        BY <2>5, <2>6
<1> QED
    BY <1>3, <1>4, <1>5

DecodedSide(c, d) ==
    /\ d.server.tls.status \in ServerStatus
    /\ d.global \in [Conns -> Globals]
    /\ \A e \in Conns \ {c} : d.global[e] = global[e]

LEMMA DecodeSide ==
    ASSUME NEW c \in Conns, server[c] \in ServerLocal, server[c].tls.status \in ServerStatus,
           global \in [Conns -> Globals], NEW p \in Stream, p # <<>>,
           NEW d \in Deobfuscated(c, p)
    PROVE  DecodedSide(c, d)
<1>1. PICK s \in ServerLocal : s = server[c] /\ s.tls.status \in ServerStatus
    OBVIOUS
<1>2. CASE class = "none"
    <2>1. d = [server |-> s, global |-> global, out |-> p, ok |-> TRUE, back |-> FALSE]
        BY <1>1, <1>2 DEF Deobfuscated
    <2> QED
        BY <1>1, <2>1 DEF DecodedSide
<1>3. CASE class = "http"
    <2>1. PICK e : d = [server |-> [s EXCEPT !.http = e.local], global |-> global, out |-> e.out,
                        ok |-> e.ok, back |-> FALSE]
        BY <1>1, <1>3 DEF Deobfuscated
    <2>2. d.server.tls = s.tls
        BY <2>1 DEF ServerLocal
    <2> QED
        BY <1>1, <2>1, <2>2 DEF DecodedSide
<1>4. CASE class = "tls"
    <2>1. PICK e : /\ e = TicketServerDecode(s.tls, global[c], p, peer[c])
                   /\ d = [server |-> [s EXCEPT !.tls = e.local],
                           global |-> [global EXCEPT ![c] = e.global],
                           out |-> e.out, ok |-> e.ok, back |-> e.back]
        BY <1>1, <1>4 DEF Deobfuscated, Global
    <2>2. TicketSide(s.tls, e)
        <3>1. s.tls \in TicketLocal /\ global[c] \in Globals
            BY DEF ServerLocal
        <3> QED
            BY <1>1, <2>1, <3>1, TicketDecodeSide
    <2>3. d.server.tls = e.local
        BY <2>1 DEF ServerLocal
    <2>4. d.global = [global EXCEPT ![c] = e.global]
        BY <2>1
    <2> QED
        BY <2>2, <2>3, <2>4 DEF DecodedSide, TicketSide
<1> QED
    BY <1>2, <1>3, <1>4, ClassType

-----------------------------------------------------------------------------
(* The shapes depend on nothing else of the two ends.                      *)

SameClient(cl, k) == k.tls = cl.tls /\ k.http = cl.http
SameServer(sv, t) ==
    /\ t.tls = sv.tls /\ t.http = sv.http
    /\ (t.init <=> sv.init) /\ (t.sealed <=> sv.sealed) /\ (t.plainSpoken <=> sv.plainSpoken)

LEMMA OngoingSame ==
    ASSUME NEW k, NEW speaks, NEW v, NEW cl, NEW sv, NEW pipe, NEW r, NEW w,
           Ongoing(k, speaks, v, cl, sv, pipe, r, w), NEW kl, NEW t,
           SameClient(cl, kl), t.tls = sv.tls, t.http = sv.http
    PROVE  Ongoing(k, speaks, v, kl, t, pipe, r, w)
BY DEF Ongoing, SameClient

LEMMA OpeningSame ==
    ASSUME NEW k, NEW speaks, NEW v, NEW c, NEW cl, NEW sv, NEW in, NEW w,
           Opening(k, speaks, v, c, cl, sv, in, w), NEW kl, NEW t,
           SameClient(cl, kl), t.tls = sv.tls, t.http = sv.http
    PROVE  Opening(k, speaks, v, c, kl, t, in, w)
<1>1. PlainOpening(k, v, sv, in, w) => PlainOpening(k, v, t, in, w)
    BY DEF PlainOpening
<1>2. HttpOpening(v, cl, sv, in, w) => HttpOpening(v, kl, t, in, w)
    BY DEF HttpOpening, SameClient
<1>3. TicketOpening(v, c, cl, sv, in, w) => TicketOpening(v, c, kl, t, in, w)
    BY DEF TicketOpening, TicketQuiet, TicketHello, TicketFinish, SameClient
<1> QED
    BY <1>1, <1>2, <1>3 DEF Opening

LEMMA OnWaySame ==
    ASSUME NEW k, NEW speaks, NEW cl, NEW sv, NEW pipe, NEW b, NEW s,
           OnWay(k, speaks, cl, sv, pipe, b, s), NEW kl, NEW t,
           SameClient(cl, kl), t.tls = sv.tls, t.http = sv.http, t.sealed <=> sv.sealed
    PROVE  OnWay(k, speaks, kl, t, pipe, b, s)
<1>1. HttpDown(cl, sv, pipe, b, s) => HttpDown(kl, t, pipe, b, s)
    BY DEF HttpDown, SameClient
<1>2. TicketDown(cl, sv, pipe, b, s) => TicketDown(kl, t, pipe, b, s)
    BY DEF TicketDown, SameClient
<1> QED
    BY <1>1, <1>2 DEF OnWay

-----------------------------------------------------------------------------
(* The invariant, for the values of one connection.                        *)

Statuses == {"open", "refused", "left", "repeated", "short", "noise", "noHeader", "exit"}

Typed(c, cl, sv, gl, u, dn, bk, n, st) ==
    /\ c \in Conns
    /\ cl \in ClientLocal /\ cl.tls.status \in ClientStatus
    /\ cl.units \in {0, FirstWrite, MaxUnits}
    /\ sv \in ServerLocal /\ sv.tls.status \in ServerStatus
    /\ gl \in Globals
    /\ u \in Stream /\ dn \in Stream /\ bk \in Stream
    /\ n \in 0..MaxReplies[c] /\ st \in Statuses

\* what was handed over is right, also when the connection is at an end
Delivered(cl, g, bk, n) ==
    /\ GotOk(g) /\ Len(g) <= cl.units
    /\ \E b \in 0..n + 1 : Taking(bk, b)

\* of a connection that goes on, what is on its way is known as well
Open(c, k, speaks, v, cl, sv, u, dn, g, bk, n) ==
    /\ UpShape(k, speaks, v, c, cl, sv, u, g)
    /\ DownShape(k, speaks, cl, sv, dn, bk, n)

ConnOk(c, k, speaks, v, cl, sv, gl, u, dn, g, bk, n, st) ==
    /\ Typed(c, cl, sv, gl, u, dn, bk, n, st)
    /\ Delivered(cl, g, bk, n)
    /\ st = "open" => Open(c, k, speaks, v, cl, sv, u, dn, g, bk, n)

OkAt(c) == ConnOk(c, class, peer[c].speaks, ivOf[c], client[c], server[c], global[c],
                  up[c], down[c], got[c], back[c], replied[c], status[c])

Functions ==
    /\ client \in [Conns -> ClientLocal] /\ server \in [Conns -> ServerLocal]
    /\ global \in [Conns -> Globals]
    /\ up \in [Conns -> Stream] /\ down \in [Conns -> Stream]
    /\ got \in [Conns -> Stream] /\ back \in [Conns -> Stream]
    /\ replied \in [Conns -> Nat] /\ status \in [Conns -> Statuses]

Given ==
    /\ plugin \in Plugins /\ compatible \in BOOLEAN /\ method \in Methods
    /\ peer \in [Conns -> Peers] /\ ivOf \in [Conns -> Ivs]
    /\ cuts \in 0..MaxCuts

PathInv == Given /\ Functions /\ \A c \in Conns : OkAt(c)

\* A step is one of a connection: the others are as they were.
Others(c) ==
    \A d \in Conns \ {c} :
        /\ client'[d] = client[d] /\ server'[d] = server[d] /\ global'[d] = global[d]
        /\ up'[d] = up[d] /\ down'[d] = down[d] /\ got'[d] = got[d] /\ back'[d] = back[d]
        /\ replied'[d] = replied[d] /\ status'[d] = status[d]

LEMMA OneMoves ==
    ASSUME PathInv, NEW c \in Conns, UNCHANGED conf, cuts' \in 0..MaxCuts,
           Functions', Others(c), OkAt(c)'
    PROVE  PathInv'
<1>1. UNCHANGED <<plugin, compatible, method, peer, ivOf>> /\ class' = class
    BY DEF conf, class
<1>2. Given'
    BY <1>1 DEF PathInv, Given
<1>3. ASSUME NEW d \in Conns \ {c} PROVE OkAt(d)'
    <2>1. OkAt(d)
        BY DEF PathInv
    <2> QED
        BY <1>1, <2>1, Zenon DEF OkAt, Others
<1> QED
    BY <1>2, <1>3 DEF PathInv

-----------------------------------------------------------------------------
(* A write of the client.                                                  *)

\* what a client that has written n units writes next, and how many it has then
Next1(n) == IF n = 0 THEN FirstWrite ELSE MaxUnits
Data(v, n) == IF n = 0 THEN <<Mark("iv", v)>> \o Units(0, FirstWrite) ELSE Units(n, MaxUnits - n)

LEMMA Bounds ==
    /\ FirstWrite \in Nat /\ MaxUnits \in Nat /\ MaxCuts \in Nat
    /\ 2 <= FirstWrite /\ FirstWrite <= MaxUnits
    /\ \A c \in Conns : MaxReplies[c] \in Nat
BY PathAssumption

LEMMA IvSpan ==
    ASSUME NEW v \in Nat
    PROVE  <<Mark("iv", v)>> = Span(v, 0, 1)
<1>1. PICK z \in Nat, o \in Nat : z = 0 /\ o = 1 /\ z <= o /\ o - z = 1
    OBVIOUS
<1>2. /\ Span(v, z, o) \in Stream /\ Len(Span(v, z, o)) = o - z
      /\ \A i \in 1..(o - z) : Span(v, z, o)[i] = PlainAtom(v, z + i)
    <2>1. z <= o
        BY <1>1
    <2> QED
        BY <2>1, SpanType
<1>3. Span(v, z, o)[1] = PlainAtom(v, 1)
    <2>1. 1 \in 1..(o - z) /\ z + 1 = 1
        BY <1>1
    <2> QED
        BY <1>2, <2>1
<1>4. PlainAtom(v, 1) = Mark("iv", v) /\ Mark("iv", v) \in AtomType
    <2>1. PICK i \in Nat \ {0} : i = 1
        OBVIOUS
    <2>2. PlainAtom(v, i) \in AtomType
        BY PlainType
    <2> QED
        BY <2>1, <2>2 DEF PlainAtom
<1>5. <<Mark("iv", v)>> \in Stream /\ Len(<<Mark("iv", v)>>) = 1 /\ <<Mark("iv", v)>>[1] = Mark("iv", v)
    BY <1>4, One
<1>6. \A i \in 1..1 : <<Mark("iv", v)>>[i] = Span(v, z, o)[i]
    <2> TAKE i \in 1..1
    <2>1. i = 1
        OBVIOUS
    <2> QED
        BY <1>3, <1>4, <1>5, <2>1
<1>7. <<Mark("iv", v)>> = Span(v, z, o)
    BY <1>1, <1>2, <1>5, <1>6, Same
<1> QED
    BY <1>1, <1>7

\* the first n units behind the IV
LEMMA IvUnits ==
    ASSUME NEW v \in Nat, NEW n \in Nat
    PROVE  <<Mark("iv", v)>> \o Units(0, n) = Span(v, 0, n + 1)
<1>1. PICK z \in Nat, o \in Nat : z = 0 /\ o = 1 /\ z + 1 = 1 /\ z + n + 1 = n + 1
    OBVIOUS
<1>2. PICK u \in Nat : u = n + 1
    OBVIOUS
<1>3. z <= o /\ o <= u
    BY <1>1, <1>2
<1>4. Units(z, n) = Span(v, z + 1, z + n + 1)
    BY UnitsAre
<1>5. Units(z, n) = Span(v, o, u)
    BY <1>1, <1>2, <1>4
<1>6. Span(v, z, o) \o Span(v, o, u) = Span(v, z, u)
    BY <1>3, SpanJoin
<1> QED
    BY <1>1, <1>2, <1>5, <1>6, IvSpan

LEMMA DataSpan ==
    ASSUME NEW v \in Nat, NEW n \in {0, FirstWrite, MaxUnits}, n < MaxUnits
    PROVE  /\ Data(v, n) = Span(v, IF n = 0 THEN 0 ELSE n + 1, Next1(n) + 1)
           /\ n \in Nat /\ Next1(n) \in Nat /\ Next1(n) # 0 /\ n < Next1(n)
           /\ Next1(n) \in {0, FirstWrite, MaxUnits}
<1>1. n \in Nat
    BY Bounds
<1>2. CASE n = 0
    <2>1. Data(v, n) = Span(v, 0, FirstWrite + 1)
        BY <1>2, Bounds, IvUnits DEF Data
    <2> QED
        BY <1>2, <2>1, Bounds DEF Next1
<1>3. CASE n # 0
    <2>1. PICK k \in Nat : k = MaxUnits - n /\ n + k + 1 = MaxUnits + 1
        <3>1. MaxUnits - n \in Nat /\ n + (MaxUnits - n) + 1 = MaxUnits + 1
            BY <1>1, Bounds
        <3> QED
            BY <3>1
    <2>2. Units(n, k) = Span(v, n + 1, n + k + 1)
        BY <1>1, UnitsAre
    <2>3. Data(v, n) = Span(v, n + 1, MaxUnits + 1)
        BY <1>3, <2>1, <2>2 DEF Data
    <2> QED
        BY <1>1, <1>3, <2>3, Bounds DEF Next1
<1> QED
    BY <1>2, <1>3

\* what a write of the client leaves behind
Wrote(c, v, kl, sv, gl, x, dn, g, bk, n, e) ==
    /\ e.out \in Stream /\ kl.tls = e.client.tls
    /\ ConnOk(c, class, peer[c].speaks, v, kl, sv, gl, x \o e.out, dn, g, bk, n, "open")

LEMMA WriteOk ==
    ASSUME NEW c, NEW v \in Nat, NEW cl, NEW sv, NEW gl, NEW x, NEW dn, NEW g, NEW bk, NEW n,
           ConnOk(c, class, peer[c].speaks, v, cl, sv, gl, x, dn, g, bk, n, "open"),
           cl = client[c], cl.units < MaxUnits,
           NEW e \in Obfuscated(c, Data(v, cl.units)),
           NEW kl, kl = [e.client EXCEPT !.units = Next1(cl.units)]
    PROVE  Wrote(c, v, kl, sv, gl, x, dn, g, bk, n, e)
<1>1. /\ c \in Conns /\ cl \in ClientLocal /\ sv \in ServerLocal /\ x \in Stream
      /\ cl.units \in {0, FirstWrite, MaxUnits} /\ cl.tls.status \in ClientStatus
    BY DEF ConnOk, Typed
<1>2. PICK m \in Nat, a \in Nat : m = cl.units /\ a = Next1(m)
    BY <1>1, DataSpan
<1>3. PICK w \in Nat, y \in Nat : /\ w = Written(cl) /\ y = a + 1 /\ w < y
                                  /\ Data(v, m) = Span(v, w, y)
    <2>1. /\ Data(v, m) = Span(v, IF m = 0 THEN 0 ELSE m + 1, a + 1)
          /\ m < a
        BY <1>1, <1>2, DataSpan
    <2>2. Written(cl) = (IF m = 0 THEN 0 ELSE m + 1) /\ Written(cl) \in Nat /\ Written(cl) < a + 1
        BY <1>2, <2>1 DEF Written
    <2> QED
        BY <2>1, <2>2
<1>4. a \in {0, FirstWrite, MaxUnits} /\ a # 0 /\ m < a
    BY <1>1, <1>2, DataSpan
<1>5. PICK r : r = Handed(sv, g)
    OBVIOUS
<1>6. /\ UpShape(class, peer[c].speaks, v, c, cl, sv, x, g)
      /\ DownShape(class, peer[c].speaks, cl, sv, dn, bk, n)
    BY DEF ConnOk, Open
<1>7. r \in Nat /\ r <= w
    <2>1. Len(g) \in Nat
        BY Nothing DEF ConnOk, Delivered, GotOk
    <2>2. r <= w
        BY <1>3, <1>5, <1>6 DEF UpShape
    <2> QED
        BY <1>5, <2>1, <2>2 DEF Handed
<1>8. PICK i \in Stream : i = sv.buf /\ (sv.init => i = <<>>)
    BY <1>1, <1>6 DEF ServerLocal, UpShape
<1>9. i \o x \in Stream /\ (sv.init => i \o x = x)
    BY <1>1, <1>8, Joined, Nothing
<1>10. WriteBase(c, v, cl, i \o x, sv, r, w, y)
    BY <1>1, <1>3, <1>5, <1>6, <1>7, <1>8, <1>9 DEF WriteBase, UpShape
<1>11. WriteOutcome(c, v, cl, i \o x, sv, r, y, e)
    BY <1>2, <1>3, <1>10, WriteGives
<1>12. /\ e.client \in ClientLocal /\ e.out \in Stream
       /\ e.client.http.recvHeader = cl.http.recvHeader
       /\ e.client.tls.recvBuf = cl.tls.recvBuf
       /\ \/ e.client.tls.status = cl.tls.status
          \/ cl.tls.status = 0 /\ e.client.tls.status = 1
    BY <1>11 DEF WriteOutcome
<1>13. /\ kl \in ClientLocal /\ kl.units = a /\ SameClient(e.client, kl)
    <2>1. [e.client EXCEPT !.units = a] \in ClientLocal
        BY <1>12 DEF ClientLocal
    <2>2. /\ [e.client EXCEPT !.units = a].units = a
          /\ [e.client EXCEPT !.units = a].tls = e.client.tls
          /\ [e.client EXCEPT !.units = a].http = e.client.http
        BY <1>12 DEF ClientLocal
    <2> QED
        BY <1>2, <2>1, <2>2 DEF SameClient
<1>14. Written(kl) = y
    BY <1>3, <1>4, <1>13 DEF Written
<1>15. i \o (x \o e.out) = (i \o x) \o e.out /\ x \o e.out \in Stream
    BY <1>1, <1>12, Assoc, Joined
<1>16. UpShape(class, peer[c].speaks, v, c, kl, sv, x \o e.out, g)
    <2>1. Handed(sv, g) <= Written(kl)
        BY <1>3, <1>5, <1>7, <1>14
    <2>2. ASSUME sv.init
          PROVE  Ongoing(class, peer[c].speaks, v, kl, sv, x \o e.out, r, y)
        <3>1. Ongoing(class, peer[c].speaks, v, e.client, sv, (i \o x) \o e.out, r, y)
            BY <1>11, <2>2 DEF WriteOutcome
        <3>2. (i \o x) \o e.out = x \o e.out
            BY <1>9, <2>2
        <3> QED
            BY <1>13, <3>1, <3>2, OngoingSame
    <2>3. ASSUME ~sv.init
          PROVE  Opening(class, peer[c].speaks, v, c, kl, sv, i \o (x \o e.out), y)
        <3>1. Opening(class, peer[c].speaks, v, c, e.client, sv, (i \o x) \o e.out, y)
            BY <1>11, <2>3 DEF WriteOutcome
        <3> QED
            BY <1>13, <1>15, <3>1, OpeningSame
    <2> QED
        BY <1>5, <1>6, <1>8, <1>14, <2>1, <2>2, <2>3 DEF UpShape
<1>17. kl.tls = e.client.tls /\ kl.http = e.client.http
    BY <1>13 DEF SameClient
<1>18. ASSUME NEW b, NEW s, OnWay(class, peer[c].speaks, cl, sv, dn, b, s)
       PROVE  OnWay(class, peer[c].speaks, kl, sv, dn, b, s)
    <2>1. HttpDown(cl, sv, dn, b, s) => HttpDown(kl, sv, dn, b, s)
        BY <1>12, <1>17 DEF HttpDown
    <2>2. TicketDown(cl, sv, dn, b, s) => TicketDown(kl, sv, dn, b, s)
        <3>1. CASE kl.tls.status = cl.tls.status
            BY <1>12, <1>17, <3>1 DEF TicketDown
        <3>2. CASE cl.tls.status = 0 /\ kl.tls.status = 1
            <4>1. cl.tls.status # 8 /\ cl.tls.status # 1
                BY <3>2
            <4>2. kl.tls.status \in {0, 1}
                BY <3>2
            <4> QED
                BY <1>12, <1>17, <4>1, <4>2, Zenon DEF TicketDown
        <3> QED
            BY <1>12, <1>17, <3>1, <3>2
    <2> QED
        BY <1>18, <2>1, <2>2 DEF OnWay
<1>19. DownShape(class, peer[c].speaks, kl, sv, dn, bk, n)
    BY <1>6, <1>18 DEF DownShape
<1>20. Typed(c, kl, sv, gl, x \o e.out, dn, bk, n, "open")
    <2>1. kl.tls.status \in ClientStatus
        BY <1>1, <1>12, <1>17 DEF ClientStatus
    <2>2. kl.units \in {0, FirstWrite, MaxUnits}
        BY <1>4, <1>13
    <2> QED
        BY <1>13, <1>15, <2>1, <2>2 DEF ConnOk, Typed
<1>21. Delivered(kl, g, bk, n)
    <2>1. Delivered(cl, g, bk, n)
        BY DEF ConnOk
    <2>2. Len(g) \in Nat
        BY <2>1, Nothing DEF Delivered, GotOk
    <2>3. Len(g) <= kl.units
        BY <1>2, <1>4, <1>13, <2>1, <2>2 DEF Delivered
    <2> QED
        BY <2>1, <2>3 DEF Delivered
<1> QED
    BY <1>12, <1>16, <1>17, <1>19, <1>20, <1>21 DEF ConnOk, Open, Wrote

-----------------------------------------------------------------------------
(* A read of the server: p is what it has then, q what it leaves.          *)

ReadBase(c, v, cl, sv, gl, x, dn, g, bk, n, p, q) ==
    /\ ConnOk(c, class, peer[c].speaks, v, cl, sv, gl, x, dn, g, bk, n, "open")
    /\ v \in Nat /\ sv = server[c]
    /\ p \in Stream /\ q \in Stream /\ p # <<>> /\ p \o q = sv.buf \o x

LEMMA Piece ==
    ASSUME NEW h \in Stream, NEW x \in Stream, NEW k \in 1..Len(x)
    PROVE  /\ h \o SubSeq(x, 1, k) \in Stream /\ SubSeq(x, k + 1, Len(x)) \in Stream
           /\ h \o SubSeq(x, 1, k) # <<>>
           /\ (h \o SubSeq(x, 1, k)) \o SubSeq(x, k + 1, Len(x)) = h \o x
<1>1. Len(x) \in Nat
    BY Nothing
<1>2. k \in 0..Len(x) /\ k # 0 /\ k \in Nat
    BY <1>1
<1>3. PICK a \in Stream, b \in Stream :
          /\ a = SubSeq(x, 1, k) /\ b = SubSeq(x, k + 1, Len(x))
          /\ x = a \o b /\ Len(a) = k
    BY <1>2, Cut
<1>4. a # <<>>
    BY <1>2, <1>3, Nothing
<1>5. h \o a \in Stream /\ h \o a # <<>>
    BY <1>4, Joined, NothingJoined
<1>6. (h \o a) \o b = h \o (a \o b)
    BY Assoc
<1> QED
    BY <1>3, <1>5, <1>6

LEMMA ReadTypes ==
    ASSUME NEW c, NEW v, NEW cl, NEW sv, NEW gl, NEW x, NEW dn, NEW g, NEW bk, NEW n,
           NEW p, NEW q, ReadBase(c, v, cl, sv, gl, x, dn, g, bk, n, p, q)
    PROVE  /\ c \in Conns /\ v \in Nat /\ cl \in ClientLocal /\ sv \in ServerLocal /\ sv = server[c]
           /\ p \in Stream /\ q \in Stream /\ p # <<>>
           /\ Handed(sv, g) \in Nat /\ Written(cl) \in Nat /\ Handed(sv, g) <= Written(cl)
           /\ Len(g) \in Nat /\ n \in Nat /\ GotOk(g)
           /\ UpShape(class, peer[c].speaks, v, c, cl, sv, x, g)
           /\ DownShape(class, peer[c].speaks, cl, sv, dn, bk, n)
           /\ Typed(c, cl, sv, gl, x, dn, bk, n, "open") /\ Delivered(cl, g, bk, n)
<1>1. /\ Typed(c, cl, sv, gl, x, dn, bk, n, "open") /\ Delivered(cl, g, bk, n)
      /\ UpShape(class, peer[c].speaks, v, c, cl, sv, x, g)
      /\ DownShape(class, peer[c].speaks, cl, sv, dn, bk, n)
    BY DEF ReadBase, ConnOk, Open
<1>2. Len(g) \in Nat /\ GotOk(g)
    BY <1>1, Nothing DEF Delivered, GotOk
<1>3. cl.units \in Nat /\ n \in Nat
    BY <1>1, Bounds DEF Typed
<1>4. Handed(sv, g) \in Nat
    BY <1>2 DEF Handed
<1>5. Written(cl) \in Nat
    BY <1>3 DEF Written
<1>6. Handed(sv, g) <= Written(cl)
    BY <1>1 DEF UpShape
<1> QED
    BY <1>1, <1>2, <1>3, <1>4, <1>5, <1>6 DEF ReadBase, Typed

LEMMA ReadReads ==
    ASSUME NEW c, NEW v, NEW cl, NEW sv, NEW gl, NEW x, NEW dn, NEW g, NEW bk, NEW n,
           NEW p, NEW q, ReadBase(c, v, cl, sv, gl, x, dn, g, bk, n, p, q)
    PROVE  Reads(c, v, cl, sv, p, q, Handed(sv, g), Written(cl))
<1>1. /\ c \in Conns /\ v \in Nat /\ cl \in ClientLocal /\ sv \in ServerLocal /\ sv = server[c]
      /\ p \in Stream /\ q \in Stream /\ p # <<>>
      /\ Handed(sv, g) \in Nat /\ Written(cl) \in Nat /\ Handed(sv, g) <= Written(cl)
      /\ Len(g) \in Nat
      /\ UpShape(class, peer[c].speaks, v, c, cl, sv, x, g)
      /\ Typed(c, cl, sv, gl, x, dn, bk, n, "open")
    BY ReadTypes
<1>2. PICK r \in Nat, w \in Nat : r = Handed(sv, g) /\ w = Written(cl) /\ r <= w
    BY <1>1
<1>3. p \o q = sv.buf \o x
    BY DEF ReadBase
<1>4. ASSUME sv.init
      PROVE  /\ r > 0 /\ (class # "none" => (sv.plainSpoken <=> ~peer[c].speaks))
             /\ Ongoing(class, peer[c].speaks, v, cl, sv, p \o q, r, w)
    <2>1. sv.buf = <<>> /\ x \in Stream
        BY <1>1, <1>4 DEF UpShape, Typed
    <2>2. p \o q = x
        BY <1>3, <2>1, Nothing
    <2>3. r > 0
        BY <1>1, <1>2, <1>4 DEF Handed
    <2>4. class # "none" => (sv.plainSpoken <=> ~peer[c].speaks)
        BY <1>1, <1>4, Zenon DEF UpShape
    <2>5. Ongoing(class, peer[c].speaks, v, cl, sv, x, r, w)
        BY <1>1, <1>2, <1>4 DEF UpShape
    <2> QED
        BY <2>2, <2>3, <2>4, <2>5
<1>5. ASSUME ~sv.init
      PROVE  /\ r = 0 /\ ~sv.plainSpoken
             /\ Opening(class, peer[c].speaks, v, c, cl, sv, p \o q, w)
    BY <1>1, <1>2, <1>3, <1>5 DEF UpShape, Handed
<1>6. Reads(c, v, cl, sv, p, q, r, w)
    BY <1>1, <1>2, <1>4, <1>5 DEF Reads
<1> QED
    BY <1>2, <1>6

\* too little has come to be looked at
LEMMA WaitOk ==
    ASSUME NEW c, NEW v, NEW cl, NEW sv, NEW gl, NEW x, NEW dn, NEW g, NEW bk, NEW n,
           NEW p, NEW q, ReadBase(c, v, cl, sv, gl, x, dn, g, bk, n, p, q), ~sv.init
    PROVE  ConnOk(c, class, peer[c].speaks, v, cl, [sv EXCEPT !.buf = p], gl, q, dn, g, bk, n, "open")
<1>1. /\ c \in Conns /\ cl \in ClientLocal /\ sv \in ServerLocal
      /\ p \in Stream /\ q \in Stream
      /\ UpShape(class, peer[c].speaks, v, c, cl, sv, x, g)
      /\ DownShape(class, peer[c].speaks, cl, sv, dn, bk, n)
      /\ Typed(c, cl, sv, gl, x, dn, bk, n, "open") /\ Delivered(cl, g, bk, n)
    BY ReadTypes
<1>2. PICK t \in ServerLocal : t = [sv EXCEPT !.buf = p] /\ t.buf = p /\ SameServer(sv, t)
    <2>1. [sv EXCEPT !.buf = p] \in ServerLocal
        BY <1>1 DEF ServerLocal
    <2>2. /\ [sv EXCEPT !.buf = p].buf = p
          /\ [sv EXCEPT !.buf = p].tls = sv.tls /\ [sv EXCEPT !.buf = p].http = sv.http
          /\ [sv EXCEPT !.buf = p].init = sv.init /\ [sv EXCEPT !.buf = p].sealed = sv.sealed
          /\ [sv EXCEPT !.buf = p].plainSpoken = sv.plainSpoken
        BY <1>1 DEF ServerLocal
    <2> QED
        BY <2>1, <2>2 DEF SameServer
<1>3. p \o q = sv.buf \o x
    BY DEF ReadBase
<1>4. SameClient(cl, cl)
    BY DEF SameClient
<1>5. /\ t.tls = sv.tls /\ t.http = sv.http /\ ~t.init /\ (t.sealed <=> sv.sealed)
      /\ (t.plainSpoken <=> sv.plainSpoken)
    BY <1>2 DEF SameServer
<1>6. Handed(t, g) = Handed(sv, g)
    BY <1>5 DEF Handed
<1>7. UpShape(class, peer[c].speaks, v, c, cl, t, q, g)
    <2>1. Opening(class, peer[c].speaks, v, c, cl, t, p \o q, Written(cl))
        <3>1. Opening(class, peer[c].speaks, v, c, cl, sv, p \o q, Written(cl))
            BY <1>1, <1>3 DEF UpShape
        <3> QED
            BY <1>4, <1>5, <3>1, OpeningSame
    <2> QED
        BY <1>1, <1>2, <1>5, <1>6, <2>1 DEF UpShape
<1>8. DownShape(class, peer[c].speaks, cl, t, dn, bk, n)
    <2>1. Answered(t, n) = Answered(sv, n)
        BY <1>5 DEF Answered
    <2>2. \A b, s : OnWay(class, peer[c].speaks, cl, sv, dn, b, s)
                        => OnWay(class, peer[c].speaks, cl, t, dn, b, s)
        BY <1>4, <1>5, OnWaySame
    <2> QED
        BY <1>1, <1>5, <2>1, <2>2 DEF DownShape
<1>9. Typed(c, cl, t, gl, q, dn, bk, n, "open")
    BY <1>1, <1>2, <1>5 DEF Typed
<1> QED
    BY <1>1, <1>2, <1>7, <1>8, <1>9 DEF ConnOk, Open

\* The hello is answered.
LEMMA GreetOk ==
    ASSUME NEW c, NEW v, NEW cl, NEW sv, NEW gl, NEW x, NEW dn, NEW g, NEW bk, NEW n,
           NEW p, NEW q, ReadBase(c, v, cl, sv, gl, x, dn, g, bk, n, p, q),
           NEW d, Kept(sv, d.server), Greets(class, peer[c].speaks, c, cl, sv, d, q),
           NEW e \in TicketServerEncode(d.server.tls, d.global[Global(c)], <<>>),
           d.global[c] \in Globals
    PROVE  ConnOk(c, class, peer[c].speaks, v, cl, [d.server EXCEPT !.tls = e.local, !.buf = <<>>],
                  d.global[c], q, dn \o e.out, g, bk, n, "open")
<1>1. /\ c \in Conns /\ cl \in ClientLocal /\ sv \in ServerLocal
      /\ p \in Stream /\ q \in Stream /\ p # <<>>
      /\ UpShape(class, peer[c].speaks, v, c, cl, sv, x, g)
      /\ DownShape(class, peer[c].speaks, cl, sv, dn, bk, n)
      /\ Typed(c, cl, sv, gl, x, dn, bk, n, "open") /\ Delivered(cl, g, bk, n)
    BY ReadTypes
<1>2. /\ ~sv.init /\ class = "tls" /\ peer[c].speaks /\ q = <<>> /\ cl.tls.status = 1
      /\ d.server.tls.status = 2 /\ d.global[c].ids = {c}
    BY DEF Greets
<1>3. /\ d.server \in ServerLocal /\ ~d.server.init /\ (d.server.sealed <=> sv.sealed)
      /\ (d.server.plainSpoken <=> sv.plainSpoken)
    BY <1>2 DEF Kept
<1>4. PICK l \in TicketLocal : l = d.server.tls /\ l.status = 2
    BY <1>2, <1>3 DEF ServerLocal
<1>5. e = [local |-> [l EXCEPT !.status = 3], out |-> Flight("reply", ReplyLength, c)]
    <2>1. l.status # 8
        BY <1>4
    <2>2. d.global[Global(c)].ids = {c}
        BY <1>2 DEF Global
    <2> QED
        BY <1>4, <2>1, <2>2 DEF TicketServerEncode
<1>6. e.local \in TicketLocal /\ e.local.status = 3
    <2>1. [l EXCEPT !.status = 3] \in TicketLocal /\ [l EXCEPT !.status = 3].status = 3
        BY DEF TicketLocal
    <2> QED
        BY <1>5, <2>1
<1>7. PICK t \in ServerLocal :
          /\ t = [d.server EXCEPT !.tls = e.local, !.buf = <<>>]
          /\ t.tls = e.local /\ t.buf = <<>> /\ ~t.init /\ (t.sealed <=> sv.sealed)
          /\ (t.plainSpoken <=> sv.plainSpoken)
    <2>1. [d.server EXCEPT !.tls = e.local, !.buf = <<>>] \in ServerLocal
        BY <1>3, <1>6, Nothing DEF ServerLocal
    <2>2. /\ [d.server EXCEPT !.tls = e.local, !.buf = <<>>].tls = e.local
          /\ [d.server EXCEPT !.tls = e.local, !.buf = <<>>].buf = <<>>
          /\ [d.server EXCEPT !.tls = e.local, !.buf = <<>>].init = d.server.init
          /\ [d.server EXCEPT !.tls = e.local, !.buf = <<>>].sealed = d.server.sealed
          /\ [d.server EXCEPT !.tls = e.local, !.buf = <<>>].plainSpoken = d.server.plainSpoken
        BY <1>3 DEF ServerLocal
    <2> QED
        BY <1>3, <2>1, <2>2
<1>8. PICK f \in Stream, m \in Nat \ {0} :
          f = e.out /\ Len(f) = m /\ \A i \in 1..m : f[i].t = "reply"
    <2>1. ReplyLength \in Nat \ {0}
        BY TicketAssumption
    <2> QED
        BY <1>1, <1>5, <2>1, FlightType
<1>9. TicketHello(v, c, cl, sv, p \o q, Written(cl))
    <2>1. Opening(class, peer[c].speaks, v, c, cl, sv, p \o q, Written(cl))
        BY <1>1, <1>2 DEF ReadBase, UpShape
    <2> QED
        BY <1>2, <2>1 DEF Opening, TicketOpening, TicketQuiet, TicketFinish
<1>10. UpShape(class, peer[c].speaks, v, c, cl, t, q, g)
    <2>1. t.buf \o q = <<>>
        BY <1>2, <1>7, Nothing
    <2>2. TicketHello(v, c, cl, t, t.buf \o q, Written(cl))
        BY <1>6, <1>7, <1>9, <2>1 DEF TicketHello
    <2>3. Opening(class, peer[c].speaks, v, c, cl, t, t.buf \o q, Written(cl))
        BY <1>2, <2>2 DEF Opening, TicketOpening
    <2>4. Handed(t, g) = Handed(sv, g)
        BY <1>2, <1>7 DEF Handed
    <2> QED
        BY <1>1, <1>2, <1>7, <2>3, <2>4 DEF UpShape
<1>11. ~sv.sealed /\ ~t.sealed
    BY <1>1, <1>2, <1>7 DEF DownShape
<1>12. dn \in Stream
    BY <1>1 DEF Typed
<1>13. ASSUME NEW b, NEW s, OnWay(class, peer[c].speaks, cl, sv, dn, b, s)
       PROVE  OnWay(class, peer[c].speaks, cl, t, dn \o f, b, s)
    <2>1. cl.tls.status # 8
        BY <1>2
    <2>2. cl.tls.recvBuf = <<>> /\ (dn = <<>> \/ AllReply(dn))
        BY <1>2, <1>13, <2>1, Zenon DEF OnWay, TicketDown
    <2>3. PICK j \in Nat : Len(dn) = j /\ \A i \in 1..j : dn[i].t = "reply"
        <3>1. PICK j \in Nat : Len(dn) = j
            BY <1>12, Nothing
        <3>2. dn = <<>> => j = 0
            BY <3>1, Nothing
        <3> QED
            BY <2>2, <3>1, <3>2 DEF AllReply
    <2>4. AllReply(dn \o f)
        <3>1. /\ Len(dn \o f) = Len(dn) + Len(f)
              /\ \A i \in 1..Len(dn) : (dn \o f)[i] = dn[i]
              /\ \A i \in 1..Len(f) : (dn \o f)[Len(dn) + i] = f[i]
            BY <1>12, Joined
        <3> SUFFICES ASSUME NEW i \in 1..j + m PROVE (dn \o f)[i].t = "reply"
            BY <1>8, <2>3, <3>1 DEF AllReply
        <3>2. CASE i <= j
            <4>1. i \in 1..j
                BY <3>2
            <4> QED
                BY <2>3, <3>1, <4>1
        <3>3. CASE ~(i <= j)
            <4>1. PICK h \in 1..m : i = j + h
                <5>1. i - j \in 1..m /\ i = j + (i - j)
                    BY <3>3
                <5> QED
                    BY <5>1
            <4> QED
                BY <1>8, <2>3, <3>1, <4>1
        <3> QED
            BY <3>2, <3>3
    <2>5. t.tls.status = 3 /\ cl.tls.status \in {0, 1}
        BY <1>2, <1>6, <1>7
    <2>6. TicketDown(cl, t, dn \o f, b, s)
        BY <1>2, <1>11, <2>2, <2>4, <2>5, Zenon DEF TicketDown
    <2> QED
        BY <1>2, <2>6 DEF OnWay
<1>14. DownShape(class, peer[c].speaks, cl, t, dn \o f, bk, n)
    <2>1. Answered(t, n) = Answered(sv, n)
        BY <1>11 DEF Answered
    <2> QED
        BY <1>1, <1>11, <1>13, <2>1 DEF DownShape
<1>15. Typed(c, cl, t, d.global[c], q, dn \o f, bk, n, "open")
    <2>1. dn \o f \in Stream
        BY <1>12, Joined
    <2>2. t.tls.status \in ServerStatus
        BY <1>6, <1>7 DEF ServerStatus
    <2> QED
        BY <1>1, <1>7, <2>1, <2>2 DEF Typed
<1> QED
    BY <1>1, <1>7, <1>8, <1>10, <1>14, <1>15 DEF ConnOk, Open

Seen(d) == [d.server EXCEPT !.buf = <<>>, !.init = TRUE, !.plainSpoken = @ \/ ~d.ok]

\* what a read of the server hands to the relay takes what was handed from r
\* atoms to m
PassesTo(k, speaks, v, cl, sv, d, p, q, r, m, w) ==
    /\ ~d.back
    /\ k # "none" => (sv.plainSpoken \/ ~d.ok <=> ~speaks)
    /\ k = "http" /\ speaks => (d.server.http.sentHeader <=> sv.http.sentHeader)
    /\ m \in Nat /\ r <= m /\ m <= w
    /\ Ongoing(k, speaks, v, cl, d.server, q, m, w)

LEMMA SeenType ==
    ASSUME NEW sv \in ServerLocal, NEW d, Kept(sv, d.server), d.ok \in BOOLEAN
    PROVE  /\ Seen(d) \in ServerLocal
           /\ Seen(d).tls = d.server.tls /\ Seen(d).http = d.server.http
           /\ Seen(d).buf = <<>> /\ Seen(d).init
           /\ Seen(d).sealed <=> sv.sealed
           /\ Seen(d).plainSpoken <=> sv.plainSpoken \/ ~d.ok
<1>1. PICK t \in ServerLocal : /\ t = d.server /\ (t.sealed <=> sv.sealed)
                               /\ (t.plainSpoken <=> sv.plainSpoken)
    BY DEF Kept
<1>2. PICK o \in BOOLEAN : o <=> t.plainSpoken \/ ~d.ok
    OBVIOUS
<1>3. (t.plainSpoken \/ ~d.ok) = o
    BY <1>2
<1>4. Seen(d) = [t EXCEPT !.buf = <<>>, !.init = TRUE, !.plainSpoken = o]
    BY <1>1, <1>3 DEF Seen
<1>5. [t EXCEPT !.buf = <<>>, !.init = TRUE, !.plainSpoken = o] \in ServerLocal
    BY Nothing DEF ServerLocal
<1>6. /\ [t EXCEPT !.buf = <<>>, !.init = TRUE, !.plainSpoken = o].tls = t.tls
      /\ [t EXCEPT !.buf = <<>>, !.init = TRUE, !.plainSpoken = o].http = t.http
      /\ [t EXCEPT !.buf = <<>>, !.init = TRUE, !.plainSpoken = o].buf = <<>>
      /\ [t EXCEPT !.buf = <<>>, !.init = TRUE, !.plainSpoken = o].init = TRUE
      /\ [t EXCEPT !.buf = <<>>, !.init = TRUE, !.plainSpoken = o].sealed = t.sealed
      /\ [t EXCEPT !.buf = <<>>, !.init = TRUE, !.plainSpoken = o].plainSpoken = o
    BY DEF ServerLocal
<1> QED
    BY <1>1, <1>2, <1>4, <1>5, <1>6

LEMMA PassOk ==
    ASSUME NEW c, NEW v, NEW cl, NEW sv, NEW gl, NEW x, NEW dn, NEW g, NEW bk, NEW n,
           NEW p, NEW q, ReadBase(c, v, cl, sv, gl, x, dn, g, bk, n, p, q),
           NEW d, Kept(sv, d.server), d.ok \in BOOLEAN,
           NEW m, PassesTo(class, peer[c].speaks, v, cl, sv, d, p, q, Handed(sv, g), m, Written(cl)),
           NEW h, GotOk(h), Len(h) + 1 = m, h # <<>>,
           NEW gm \in Globals, d.server.tls.status \in ServerStatus
    PROVE  ConnOk(c, class, peer[c].speaks, v, cl, Seen(d), gm, q, dn, h, bk, n, "open")
<1>1. /\ c \in Conns /\ cl \in ClientLocal /\ sv \in ServerLocal
      /\ p \in Stream /\ q \in Stream /\ p # <<>>
      /\ UpShape(class, peer[c].speaks, v, c, cl, sv, x, g)
      /\ DownShape(class, peer[c].speaks, cl, sv, dn, bk, n)
      /\ Typed(c, cl, sv, gl, x, dn, bk, n, "open") /\ Delivered(cl, g, bk, n)
      /\ Written(cl) \in Nat /\ n \in Nat
    BY ReadTypes
<1>2. PICK w \in Nat : w = Written(cl)
    BY <1>1
<1>3. /\ class # "none" => (sv.plainSpoken \/ ~d.ok <=> ~peer[c].speaks)
      /\ class = "http" /\ peer[c].speaks => (d.server.http.sentHeader <=> sv.http.sentHeader)
      /\ m \in Nat /\ m <= w
      /\ Ongoing(class, peer[c].speaks, v, cl, d.server, q, m, w)
    <2>1. class # "none" => (sv.plainSpoken \/ ~d.ok <=> ~peer[c].speaks)
        BY Zenon DEF PassesTo
    <2>2. class = "http" /\ peer[c].speaks => (d.server.http.sentHeader <=> sv.http.sentHeader)
        BY Zenon DEF PassesTo
    <2>3. m \in Nat /\ m <= w /\ Ongoing(class, peer[c].speaks, v, cl, d.server, q, m, w)
        BY <1>2 DEF PassesTo
    <2> QED
        BY <2>1, <2>2, <2>3
<1>4. PICK t \in ServerLocal :
          /\ t = Seen(d) /\ t.tls = d.server.tls /\ t.http = d.server.http
          /\ t.buf = <<>> /\ t.init /\ (t.sealed <=> sv.sealed)
          /\ (t.plainSpoken <=> sv.plainSpoken \/ ~d.ok)
    BY <1>1, SeenType
<1>5. Ongoing(class, peer[c].speaks, v, cl, t, q, m, w)
    <2>1. SameClient(cl, cl)
        BY DEF SameClient
    <2> QED
        BY <1>3, <1>4, <2>1, OngoingSame
<1>6. Handed(t, h) = m
    BY <1>4 DEF Handed
<1>7. UpShape(class, peer[c].speaks, v, c, cl, t, q, h)
    <2>1. class # "none" => (t.plainSpoken <=> ~peer[c].speaks)
        BY <1>3, <1>4
    <2>2. m <= w
        BY <1>3
    <2> QED
        BY <1>2, <1>4, <1>5, <1>6, <2>1, <2>2 DEF UpShape
<1>8. ASSUME NEW b, NEW s, OnWay(class, peer[c].speaks, cl, sv, dn, b, s)
      PROVE  OnWay(class, peer[c].speaks, cl, t, dn, b, s)
    <2>1. CASE class = "none" \/ ~peer[c].speaks
        BY <1>8, <2>1 DEF OnWay
    <2>2. CASE class = "http" /\ peer[c].speaks
        <3>1. t.http.sentHeader <=> sv.http.sentHeader
            BY <1>3, <1>4, <2>2
        <3>2. HttpDown(cl, sv, dn, b, s)
            BY <1>8, <2>2 DEF OnWay
        <3>3. HttpDown(cl, t, dn, b, s)
            BY <1>4, <3>1, <3>2 DEF HttpDown
        <3> QED
            BY <2>2, <3>3 DEF OnWay
    <2>3. CASE class = "tls" /\ peer[c].speaks
        <3>1. cl.tls.status = 8
            BY <1>5, <2>3 DEF Ongoing
        <3>2. cl.tls.status \notin {0, 1}
            BY <3>1
        <3>3. TicketDown(cl, sv, dn, b, s)
            BY <1>8, <2>3 DEF OnWay
        <3>4. TicketDown(cl, t, dn, b, s)
            BY <3>2, <3>3, Zenon DEF TicketDown
        <3> QED
            BY <2>3, <3>4 DEF OnWay
    <2> QED
        BY <2>1, <2>2, <2>3, ClassType
<1>9. DownShape(class, peer[c].speaks, cl, t, dn, bk, n)
    <2>1. Answered(t, n) = Answered(sv, n)
        BY <1>4 DEF Answered
    <2>2. ~sv.sealed => n = 0
        BY <1>1 DEF DownShape
    <2>3. \E b \in 0..Answered(t, n) :
              Taking(bk, b) /\ OnWay(class, peer[c].speaks, cl, t, dn, b, Answered(t, n))
        BY <1>1, <1>8, <2>1 DEF DownShape
    <2> QED
        BY <1>4, <2>2, <2>3 DEF DownShape
<1>10. Typed(c, cl, t, gm, q, dn, bk, n, "open")
    BY <1>1, <1>4 DEF Typed
<1>11. Delivered(cl, h, bk, n)
    <2>1. PICK a \in Nat : a = Len(h) /\ a + 1 <= w
        <3>1. Len(h) \in Nat
            BY Nothing DEF GotOk
        <3> QED
            BY <1>3, <3>1
    <2>2. PICK b \in Nat : b = cl.units
        BY <1>1, Bounds DEF Typed
    <2>3. w = IF b = 0 THEN 0 ELSE b + 1
        BY <1>2, <2>2 DEF Written
    <2>4. a <= b
        BY <2>1, <2>3
    <2> QED
        BY <1>1, <2>1, <2>2, <2>4 DEF Delivered
<1> QED
    BY <1>4, <1>7, <1>9, <1>10, <1>11 DEF ConnOk, Open

\* What a read of the server leads to.
ReadMore(c, v, cl, sv, gm, q, dn, g, bk, n, d, p) ==
    ConnOk(c, class, peer[c].speaks, v, cl, Seen(d), gm, q, dn, g \o OutOf(d, p), bk, n, "open")
ReadFirst(c, v, cl, gm, q, dn, bk, n, d, p) ==
    ConnOk(c, class, peer[c].speaks, v, cl, Seen(d), gm, q, dn,
           SubSeq(OutOf(d, p), 2, Len(OutOf(d, p))), bk, n, "open")

LEMMA MoreOk ==
    ASSUME NEW c, NEW v, NEW cl, NEW sv, NEW gl, NEW x, NEW dn, NEW g, NEW bk, NEW n,
           NEW p, NEW q, ReadBase(c, v, cl, sv, gl, x, dn, g, bk, n, p, q),
           NEW d, Outcome(class, peer[c].speaks, v, c, cl, sv, d, p, q, Handed(sv, g), Written(cl)),
           sv.init, ~d.back,
           NEW gm \in Globals, d.server.tls.status \in ServerStatus
    PROVE  ReadMore(c, v, cl, sv, gm, q, dn, g, bk, n, d, p)
<1>1. /\ v \in Nat /\ GotOk(g) /\ Len(g) \in Nat /\ Handed(sv, g) \in Nat
      /\ UpShape(class, peer[c].speaks, v, c, cl, sv, x, g)
    BY ReadTypes
<1>2. Passes(class, peer[c].speaks, v, cl, sv, d, p, q, Handed(sv, g), Written(cl))
    BY DEF Outcome, Fails, Greets
<1>3. PICK r \in Nat : r = Handed(sv, g) /\ r = Len(g) + 1
    BY <1>1 DEF Handed
<1>4. PICK m \in Nat : /\ r <= m /\ m <= Written(cl)
                       /\ Ongoing(class, peer[c].speaks, v, cl, d.server, q, m, Written(cl))
                       /\ OutOf(d, p) = Span(v, r, m)
    BY <1>2, <1>3 DEF Passes
<1>5. PassesTo(class, peer[c].speaks, v, cl, sv, d, p, q, Handed(sv, g), m, Written(cl))
    <2>1. Handed(sv, g) <= m /\ m \in Nat
        BY <1>3, <1>4
    <2>2. /\ ~d.back
          /\ class # "none" => (sv.plainSpoken \/ ~d.ok <=> ~peer[c].speaks)
          /\ class = "http" /\ peer[c].speaks => (d.server.http.sentHeader <=> sv.http.sentHeader)
        BY <1>2, Zenon DEF Passes
    <2> QED
        BY <1>4, <2>1, <2>2, Zenon DEF PassesTo
<1>6. GotOk(g \o Span(v, r, m)) /\ Len(g \o Span(v, r, m)) + 1 = m
    <2>1. Grown(v, g, r, m)
        BY <1>1, <1>3, <1>4, GotMore
    <2> QED
        BY <2>1 DEF Grown
<1>7. g \o Span(v, r, m) # <<>>
    <2>1. g # <<>> /\ g \in Stream
        BY <1>1 DEF UpShape, GotOk
    <2>2. Span(v, r, m) \in Stream
        BY <1>1, <1>4, SpanType
    <2> QED
        BY <2>1, <2>2, NothingJoined
<1>8. Kept(sv, d.server) /\ d.ok \in BOOLEAN
    BY DEF Outcome
<1> QED
    BY <1>4, <1>5, <1>6, <1>7, <1>8, PassOk DEF ReadMore

LEMMA FirstOk ==
    ASSUME NEW c, NEW v, NEW cl, NEW sv, NEW gl, NEW x, NEW dn, NEW g, NEW bk, NEW n,
           NEW p, NEW q, ReadBase(c, v, cl, sv, gl, x, dn, g, bk, n, p, q),
           NEW d, Outcome(class, peer[c].speaks, v, c, cl, sv, d, p, q, Handed(sv, g), Written(cl)),
           ~sv.init, ~d.back, OutOf(d, p) # <<>>, OutOf(d, p)[1].t = "iv", Len(OutOf(d, p)) # 1,
           NEW gm \in Globals, d.server.tls.status \in ServerStatus
    PROVE  ReadFirst(c, v, cl, gm, q, dn, bk, n, d, p)
<1>1. v \in Nat
    BY ReadTypes
<1>2. Passes(class, peer[c].speaks, v, cl, sv, d, p, q, Handed(sv, g), Written(cl))
    BY DEF Outcome, Fails, Greets
<1>3. PICK o : o = OutOf(d, p) /\ o # <<>> /\ Len(o) # 1
    OBVIOUS
<1>4. PICK m \in Nat : /\ Handed(sv, g) <= m /\ m <= Written(cl)
                       /\ Ongoing(class, peer[c].speaks, v, cl, d.server, q, m, Written(cl))
                       /\ IsOut(v, m, o)
    BY <1>2, <1>3 DEF Passes
<1>5. PassesTo(class, peer[c].speaks, v, cl, sv, d, p, q, Handed(sv, g), m, Written(cl))
    BY <1>2, <1>4, Zenon DEF Passes, PassesTo
<1>6. o \in Stream /\ Len(o) = m /\ 2 <= m
    <2>1. o \in Stream /\ Len(o) = m
        BY <1>4 DEF IsOut
    <2>2. m # 0 /\ m # 1
        BY <1>3, <2>1, Nothing
    <2> QED
        BY <2>1, <2>2
<1>7. PICK e \in Nat : e = 2
    OBVIOUS
<1>8. PICK h : h = SubSeq(o, e, Len(o)) /\ GotOk(h) /\ Len(h) + 1 = m
    <2>1. 1 <= m
        BY <1>6
    <2> QED
        BY <1>1, <1>4, <1>7, <2>1, GotFirst
<1>9. h # <<>>
    <2>1. Len(h) # 0
        BY <1>6, <1>8
    <2> QED
        BY <2>1, Nothing
<1>10. Kept(sv, d.server) /\ d.ok \in BOOLEAN
    BY DEF Outcome
<1>11. ConnOk(c, class, peer[c].speaks, v, cl, Seen(d), gm, q, dn, h, bk, n, "open")
    BY <1>5, <1>8, <1>9, <1>10, PassOk
<1> QED
    BY <1>3, <1>7, <1>8, <1>11 DEF ReadFirst

-----------------------------------------------------------------------------
(* A read of the client: p is what it reads, q what it leaves.             *)

FetchBase(c, v, cl, sv, gl, x, dn, g, bk, n, p, q) ==
    /\ ConnOk(c, class, peer[c].speaks, v, cl, sv, gl, x, dn, g, bk, n, "open")
    /\ v \in Nat /\ cl = client[c]
    /\ p \in Stream /\ q \in Stream /\ p # <<>> /\ p \o q = dn

LEMMA FetchTypes ==
    ASSUME NEW c, NEW v, NEW cl, NEW sv, NEW gl, NEW x, NEW dn, NEW g, NEW bk, NEW n,
           NEW p, NEW q, FetchBase(c, v, cl, sv, gl, x, dn, g, bk, n, p, q)
    PROVE  /\ c \in Conns /\ v \in Nat /\ cl \in ClientLocal /\ sv \in ServerLocal /\ cl = client[c]
           /\ p \in Stream /\ q \in Stream /\ p # <<>> /\ x \in Stream /\ bk \in Stream
           /\ n \in Nat /\ Written(cl) \in Nat
           /\ Answered(sv, n) \in Nat /\ Answered(sv, n) <= n + 1
           /\ ~sv.sealed => Answered(sv, n) = 0
           /\ UpShape(class, peer[c].speaks, v, c, cl, sv, x, g)
           /\ DownShape(class, peer[c].speaks, cl, sv, dn, bk, n)
           /\ Typed(c, cl, sv, gl, x, dn, bk, n, "open") /\ Delivered(cl, g, bk, n)
<1>1. /\ Typed(c, cl, sv, gl, x, dn, bk, n, "open") /\ Delivered(cl, g, bk, n)
      /\ UpShape(class, peer[c].speaks, v, c, cl, sv, x, g)
      /\ DownShape(class, peer[c].speaks, cl, sv, dn, bk, n)
    BY DEF FetchBase, ConnOk, Open
<1>2. cl.units \in Nat /\ n \in Nat
    BY <1>1, Bounds DEF Typed
<1>3. Written(cl) \in Nat
    BY <1>2 DEF Written
<1>4. Answered(sv, n) \in Nat /\ Answered(sv, n) <= n + 1 /\ (~sv.sealed => Answered(sv, n) = 0)
    BY <1>2 DEF Answered
<1> QED
    BY <1>1, <1>2, <1>3, <1>4 DEF FetchBase, Typed

\* how much of the answers the client has taken
LEMMA FetchFrom ==
    ASSUME NEW c, NEW v, NEW cl, NEW sv, NEW gl, NEW x, NEW dn, NEW g, NEW bk, NEW n,
           NEW p, NEW q, FetchBase(c, v, cl, sv, gl, x, dn, g, bk, n, p, q)
    PROVE  \E b \in Nat : Taking(bk, b) /\ TakeBase(c, cl, sv, p, q, b, Answered(sv, n))
<1>1. /\ c \in Conns /\ cl \in ClientLocal /\ sv \in ServerLocal /\ cl = client[c]
      /\ p \in Stream /\ q \in Stream /\ p # <<>>
      /\ Answered(sv, n) \in Nat /\ (~sv.sealed => Answered(sv, n) = 0)
      /\ DownShape(class, peer[c].speaks, cl, sv, dn, bk, n)
    BY FetchTypes
<1>2. PICK s \in Nat : s = Answered(sv, n)
    BY <1>1
<1>3. PICK b \in 0..s : Taking(bk, b) /\ OnWay(class, peer[c].speaks, cl, sv, dn, b, s)
    BY <1>1, <1>2 DEF DownShape
<1>4. b \in Nat /\ b <= s
    BY <1>2
<1>5. p \o q = dn
    BY DEF FetchBase
<1>6. TakeBase(c, cl, sv, p, q, b, s)
    BY <1>1, <1>2, <1>3, <1>4, <1>5 DEF TakeBase
<1> QED
    BY <1>2, <1>3, <1>4, <1>6

LEMMA FetchOk ==
    ASSUME NEW c, NEW v, NEW cl, NEW sv, NEW gl, NEW x, NEW dn, NEW g, NEW bk, NEW n,
           NEW p, NEW q, FetchBase(c, v, cl, sv, gl, x, dn, g, bk, n, p, q),
           NEW b \in Nat, Taking(bk, b), NEW m \in Nat, NEW out,
           TakesSpan(out, b, m, Answered(sv, n)),
           NEW kl, kl \in ClientLocal, kl.units = cl.units, kl.tls.status \in ClientStatus,
           UpShape(class, peer[c].speaks, v, c, kl, sv, x, g),
           OnWay(class, peer[c].speaks, kl, sv, q, m, Answered(sv, n))
    PROVE  ConnOk(c, class, peer[c].speaks, v, kl, sv, gl, x, q, g, bk \o Stripped(out), n, "open")
<1>1. /\ q \in Stream /\ bk \in Stream /\ n \in Nat
      /\ Answered(sv, n) \in Nat /\ Answered(sv, n) <= n + 1
      /\ DownShape(class, peer[c].speaks, cl, sv, dn, bk, n)
      /\ Typed(c, cl, sv, gl, x, dn, bk, n, "open") /\ Delivered(cl, g, bk, n)
    BY FetchTypes
<1>2. PICK s \in Nat : s = Answered(sv, n) /\ s <= n + 1
    BY <1>1
<1>3. b <= m /\ m <= s /\ out = Span(0, b, m)
    BY <1>2 DEF TakesSpan
<1>4. PICK y \in Stream : y = bk \o Stripped(out) /\ Taking(y, m)
    <2>1. /\ bk \o Stripped(Span(0, b, m)) \in Stream
          /\ Taking(bk \o Stripped(Span(0, b, m)), m)
        BY <1>1, <1>3, TakenMore
    <2> QED
        BY <1>3, <2>1
<1>5. m \in 0..s /\ m \in 0..n + 1
    BY <1>1, <1>2, <1>3
<1>6. DownShape(class, peer[c].speaks, kl, sv, q, y, n)
    BY <1>1, <1>2, <1>4, <1>5 DEF DownShape
<1>7. Delivered(kl, g, y, n)
    BY <1>1, <1>4, <1>5 DEF Delivered
<1>8. Typed(c, kl, sv, gl, x, q, y, n, "open")
    BY <1>1, <1>4 DEF Typed
<1> QED
    BY <1>4, <1>6, <1>7, <1>8 DEF ConnOk, Open

LEMMA FetchPlain ==
    ASSUME NEW c, NEW v, NEW cl, NEW sv, NEW gl, NEW x, NEW dn, NEW g, NEW bk, NEW n,
           NEW p, NEW q, FetchBase(c, v, cl, sv, gl, x, dn, g, bk, n, p, q),
           class = "none" \/ ~peer[c].speaks
    PROVE  ConnOk(c, class, peer[c].speaks, v, cl, sv, gl, x, q, g, bk \o Stripped(p), n, "open")
<1>1. /\ cl \in ClientLocal /\ UpShape(class, peer[c].speaks, v, c, cl, sv, x, g)
      /\ Typed(c, cl, sv, gl, x, dn, bk, n, "open")
    BY FetchTypes
<1>2. PICK b \in Nat : Taking(bk, b) /\ TakeBase(c, cl, sv, p, q, b, Answered(sv, n))
    BY FetchFrom
<1>3. PICK m \in Nat : /\ TakesSpan(p, b, m, Answered(sv, n))
                       /\ OnWay(class, peer[c].speaks, cl, sv, q, m, Answered(sv, n))
    <2>1. PlainTakes(c, cl, sv, p, q, b, Answered(sv, n))
        BY <1>2, TakePlain
    <2> QED
        BY <2>1 DEF PlainTakes
<1>4. cl.tls.status \in ClientStatus /\ cl.units = cl.units
    BY <1>1 DEF Typed
<1> QED
    BY <1>1, <1>2, <1>3, <1>4, FetchOk

\* what the client sent does not depend on what it has read of the answer's head
LEMMA UpSame ==
    ASSUME NEW c, NEW k, NEW speaks, NEW v, NEW cl, NEW sv, NEW x, NEW g,
           UpShape(k, speaks, v, c, cl, sv, x, g),
           NEW kl, kl.units = cl.units, kl.tls.status = cl.tls.status, kl.tls.sendBuf = cl.tls.sendBuf,
           kl.http.sentHeader <=> cl.http.sentHeader
    PROVE  UpShape(k, speaks, v, c, kl, sv, x, g)
<1>1. Written(kl) = Written(cl)
    BY DEF Written
<1>2. \A r, w : Ongoing(k, speaks, v, cl, sv, x, r, w) => Ongoing(k, speaks, v, kl, sv, x, r, w)
    BY DEF Ongoing
<1>3. \A in, w : HttpOpening(v, cl, sv, in, w) => HttpOpening(v, kl, sv, in, w)
    BY DEF HttpOpening
<1>4. \A in, w : TicketOpening(v, c, cl, sv, in, w) => TicketOpening(v, c, kl, sv, in, w)
    BY DEF TicketOpening, TicketQuiet, TicketHello, TicketFinish
<1>5. \A in, w : Opening(k, speaks, v, c, cl, sv, in, w) => Opening(k, speaks, v, c, kl, sv, in, w)
    BY <1>3, <1>4 DEF Opening
<1> QED
    BY <1>1, <1>2, <1>5 DEF UpShape

LEMMA FetchHttp ==
    ASSUME NEW c, NEW v, NEW cl, NEW sv, NEW gl, NEW x, NEW dn, NEW g, NEW bk, NEW n,
           NEW p, NEW q, FetchBase(c, v, cl, sv, gl, x, dn, g, bk, n, p, q),
           class = "http", peer[c].speaks,
           NEW h, h = HttpClientDecode(cl.http, p)
    PROVE  ConnOk(c, class, peer[c].speaks, v, [cl EXCEPT !.http = h.local], sv, gl, x, q, g,
                  bk \o Stripped(h.out), n, "open")
<1>1. /\ cl \in ClientLocal /\ UpShape(class, peer[c].speaks, v, c, cl, sv, x, g)
      /\ Typed(c, cl, sv, gl, x, dn, bk, n, "open")
    BY FetchTypes
<1>2. PICK b \in Nat : Taking(bk, b) /\ TakeBase(c, cl, sv, p, q, b, Answered(sv, n))
    BY FetchFrom
<1>3. HttpTakes(cl, sv, h, q, b, Answered(sv, n))
    BY <1>2, TakeHttp
<1>4. PICK m \in Nat : /\ TakesSpan(h.out, b, m, Answered(sv, n))
                       /\ HttpDown([cl EXCEPT !.http = h.local], sv, q, m, Answered(sv, n))
    BY <1>3 DEF HttpTakes
<1>5. PICK kl \in ClientLocal :
          /\ kl = [cl EXCEPT !.http = h.local] /\ kl.units = cl.units
          /\ kl.tls = cl.tls /\ kl.http = h.local
    <2>1. h.local \in HttpLocal
        BY <1>3 DEF HttpTakes
    <2>2. [cl EXCEPT !.http = h.local] \in ClientLocal
        BY <1>1, <2>1 DEF ClientLocal
    <2>3. /\ [cl EXCEPT !.http = h.local].units = cl.units
          /\ [cl EXCEPT !.http = h.local].tls = cl.tls /\ [cl EXCEPT !.http = h.local].http = h.local
        BY <1>1 DEF ClientLocal
    <2> QED
        BY <2>2, <2>3
<1>6. kl.http.sentHeader <=> cl.http.sentHeader
    BY <1>3, <1>5 DEF HttpTakes
<1>7. UpShape(class, peer[c].speaks, v, c, kl, sv, x, g)
    BY <1>1, <1>5, <1>6, UpSame
<1>8. OnWay(class, peer[c].speaks, kl, sv, q, m, Answered(sv, n))
    BY <1>4, <1>5 DEF OnWay
<1>9. kl.tls.status \in ClientStatus
    BY <1>1, <1>5 DEF Typed
<1>10. ConnOk(c, class, peer[c].speaks, v, kl, sv, gl, x, q, g, bk \o Stripped(h.out), n, "open")
    BY <1>2, <1>4, <1>5, <1>7, <1>8, <1>9, FetchOk
<1> QED
    BY <1>5, <1>10

LEMMA FetchTls ==
    ASSUME NEW c, NEW v, NEW cl, NEW sv, NEW gl, NEW x, NEW dn, NEW g, NEW bk, NEW n,
           NEW p, NEW q, FetchBase(c, v, cl, sv, gl, x, dn, g, bk, n, p, q),
           class = "tls", peer[c].speaks, NEW key,
           NEW d, d = TicketClientDecode(cl.tls, c, p, key), d.ok, ~d.back
    PROVE  ConnOk(c, class, peer[c].speaks, v, [cl EXCEPT !.tls = d.local], sv, gl, x, q, g,
                  bk \o Stripped(d.out), n, "open")
<1>1. /\ cl \in ClientLocal /\ UpShape(class, peer[c].speaks, v, c, cl, sv, x, g)
      /\ Typed(c, cl, sv, gl, x, dn, bk, n, "open")
    BY FetchTypes
<1>2. PICK b \in Nat : Taking(bk, b) /\ TakeBase(c, cl, sv, p, q, b, Answered(sv, n))
    BY FetchFrom
<1>3. TlsTakes(cl, sv, d, q, b, Answered(sv, n))
    <2>1. TlsRead(cl, sv, d, q, b, Answered(sv, n))
        BY <1>2, TakeTls
    <2> QED
        BY <2>1 DEF TlsRead
<1>4. cl.tls.status = 8 /\ d.local \in TicketLocal /\ d.local.status = 8
    BY <1>3 DEF TlsTakes
<1>5. PICK m \in Nat : /\ TakesSpan(d.out, b, m, Answered(sv, n))
                       /\ TicketDown([cl EXCEPT !.tls = d.local], sv, q, m, Answered(sv, n))
    BY <1>3 DEF TlsTakes
<1>6. PICK kl \in ClientLocal :
          /\ kl = [cl EXCEPT !.tls = d.local] /\ kl.units = cl.units
          /\ kl.tls = d.local /\ kl.http = cl.http
    <2>1. [cl EXCEPT !.tls = d.local] \in ClientLocal
        BY <1>1, <1>4 DEF ClientLocal
    <2>2. /\ [cl EXCEPT !.tls = d.local].units = cl.units
          /\ [cl EXCEPT !.tls = d.local].tls = d.local /\ [cl EXCEPT !.tls = d.local].http = cl.http
        BY <1>1 DEF ClientLocal
    <2> QED
        BY <2>1, <2>2
<1>7. UpShape(class, peer[c].speaks, v, c, kl, sv, x, g)
    <2>1. cl.tls.status = 8 /\ kl.tls.status = 8 /\ kl.http = cl.http
        BY <1>4, <1>6
    <2>2. Written(kl) = Written(cl)
        BY <1>6 DEF Written
    <2>3. \A r, w : Ongoing(class, peer[c].speaks, v, cl, sv, x, r, w)
                        => Ongoing(class, peer[c].speaks, v, kl, sv, x, r, w)
        BY <2>1 DEF Ongoing
    <2>4. \A in, w : Opening(class, peer[c].speaks, v, c, cl, sv, in, w)
                        => Opening(class, peer[c].speaks, v, c, kl, sv, in, w)
        <3> TAKE in, w
        <3>1. TicketOpening(v, c, cl, sv, in, w) => TicketFinish(v, c, cl, sv, in, w)
            BY <2>1 DEF TicketOpening, TicketQuiet, TicketHello
        <3>2. TicketFinish(v, c, cl, sv, in, w) => TicketFinish(v, c, kl, sv, in, w)
            BY <2>1 DEF TicketFinish
        <3> QED
            BY <3>1, <3>2 DEF Opening, TicketOpening
    <2> QED
        BY <1>1, <2>2, <2>3, <2>4 DEF UpShape
<1>8. OnWay(class, peer[c].speaks, kl, sv, q, m, Answered(sv, n))
    BY <1>5, <1>6 DEF OnWay
<1>9. kl.tls.status \in ClientStatus
    BY <1>4, <1>6 DEF ClientStatus
<1>10. ConnOk(c, class, peer[c].speaks, v, kl, sv, gl, x, q, g, bk \o Stripped(d.out), n, "open")
    BY <1>2, <1>5, <1>6, <1>7, <1>8, <1>9, FetchOk
<1> QED
    BY <1>6, <1>10

LEMMA FetchReply ==
    ASSUME NEW c, NEW v, NEW cl, NEW sv, NEW gl, NEW x, NEW dn, NEW g, NEW bk, NEW n,
           NEW p, NEW q, FetchBase(c, v, cl, sv, gl, x, dn, g, bk, n, p, q),
           class = "tls", peer[c].speaks, NEW key,
           NEW d, d = TicketClientDecode(cl.tls, c, p, key), d.ok, d.back,
           NEW e \in TicketClientEncode(d.local, c, <<>>)
    PROVE  ConnOk(c, class, peer[c].speaks, v, [cl EXCEPT !.tls = e.local], sv, gl, x \o e.out, q, g,
                  bk, n, "open")
<1>1. /\ c \in Conns /\ v \in Nat /\ cl \in ClientLocal /\ sv \in ServerLocal
      /\ x \in Stream /\ bk \in Stream /\ q \in Stream
      /\ Written(cl) \in Nat /\ n \in Nat
      /\ UpShape(class, peer[c].speaks, v, c, cl, sv, x, g)
      /\ DownShape(class, peer[c].speaks, cl, sv, dn, bk, n)
      /\ ~sv.sealed => Answered(sv, n) = 0
      /\ Typed(c, cl, sv, gl, x, dn, bk, n, "open") /\ Delivered(cl, g, bk, n)
    BY FetchTypes
<1>2. PICK b \in Nat : Taking(bk, b) /\ TakeBase(c, cl, sv, p, q, b, Answered(sv, n))
    BY FetchFrom
<1>3. /\ d.local = cl.tls /\ cl.tls.status = 1 /\ cl.tls.recvBuf = <<>>
      /\ ~sv.sealed /\ sv.tls.status = 3 /\ AllReply(q)
    <2>1. TlsRead(cl, sv, d, q, b, Answered(sv, n))
        BY <1>2, TakeTls
    <2> QED
        BY <2>1 DEF TlsRead, TlsAnswered
<1>4. b = 0 /\ Answered(sv, n) = 0
    <2>1. Answered(sv, n) = 0
        BY <1>1, <1>3
    <2>2. b <= 0
        BY <1>2, <2>1 DEF TakeBase
    <2> QED
        BY <2>1, <2>2
<1>5. ~sv.init
    <2>1. sv.init => sv.tls.status = 8
        BY <1>1 DEF UpShape, Ongoing
    <2> QED
        BY <1>3, <2>1
<1>6. PICK w \in Nat : w = Written(cl)
    BY <1>1
<1>7. PICK i \in Stream : i = sv.buf
    BY <1>1 DEF ServerLocal
<1>8. TicketOpening(v, c, cl, sv, i \o x, w)
    BY <1>1, <1>5, <1>6, <1>7 DEF UpShape, Opening
<1>9. FinishOutcome(c, v, cl, sv, i \o x, w, e)
    <2>1. FinishBase(c, v, cl, sv, i \o x, w)
        BY <1>1, <1>3, <1>8 DEF FinishBase
    <2> QED
        BY <1>3, <2>1, FinishGives
<1>10. /\ e.local \in TicketLocal /\ e.local.status = 8 /\ e.local.recvBuf = <<>>
       /\ e.out \in Stream
    BY <1>3, <1>9 DEF FinishOutcome
<1>11. PICK kl \in ClientLocal :
          /\ kl = [cl EXCEPT !.tls = e.local] /\ kl.units = cl.units
          /\ kl.tls = e.local /\ kl.http = cl.http
    <2>1. [cl EXCEPT !.tls = e.local] \in ClientLocal
        BY <1>1, <1>10 DEF ClientLocal
    <2>2. /\ [cl EXCEPT !.tls = e.local].units = cl.units
          /\ [cl EXCEPT !.tls = e.local].tls = e.local /\ [cl EXCEPT !.tls = e.local].http = cl.http
        BY <1>1 DEF ClientLocal
    <2> QED
        BY <2>1, <2>2
<1>12. x \o e.out \in Stream /\ i \o (x \o e.out) = (i \o x) \o e.out
    BY <1>1, <1>10, Assoc, Joined
<1>13. UpShape(class, peer[c].speaks, v, c, kl, sv, x \o e.out, g)
    <2>1. Written(kl) = w
        BY <1>6, <1>11 DEF Written
    <2>2. TicketFinish(v, c, kl, sv, i \o (x \o e.out), w)
        BY <1>9, <1>11, <1>12 DEF FinishOutcome
    <2>3. Opening(class, peer[c].speaks, v, c, kl, sv, i \o (x \o e.out), w)
        BY <2>2 DEF Opening, TicketOpening
    <2> QED
        BY <1>1, <1>5, <1>6, <1>7, <2>1, <2>3 DEF UpShape
<1>14. TicketDown(kl, sv, q, 0, 0)
    BY <1>1, <1>3, <1>10, <1>11, ReplyRest
<1>15. DownShape(class, peer[c].speaks, kl, sv, q, bk, n)
    <2>1. OnWay(class, peer[c].speaks, kl, sv, q, 0, 0)
        BY <1>14 DEF OnWay
    <2>2. Taking(bk, 0)
        BY <1>2, <1>4
    <2>3. \E a \in 0..0 : Taking(bk, a) /\ OnWay(class, peer[c].speaks, kl, sv, q, a, 0)
        <3>1. 0 \in 0..0
            OBVIOUS
        <3> QED
            BY <2>1, <2>2, <3>1
    <2> QED
        BY <1>1, <1>3, <1>4, <2>3 DEF DownShape
<1>16. Typed(c, kl, sv, gl, x \o e.out, q, bk, n, "open")
    <2>1. kl.tls.status \in ClientStatus
        BY <1>10, <1>11 DEF ClientStatus
    <2> QED
        BY <1>1, <1>11, <1>12, <2>1 DEF Typed
<1>17. Delivered(kl, g, bk, n)
    BY <1>1, <1>11 DEF Delivered
<1> QED
    BY <1>11, <1>13, <1>15, <1>16, <1>17 DEF ConnOk, Open

-----------------------------------------------------------------------------
(* An answer of the target, and the end of a connection.                   *)

Sealed(sv, data) == IF sv.sealed THEN data ELSE <<Mark("iv", 0)>> \o data

LEMMA SealedSpan ==
    ASSUME NEW sv, NEW n \in Nat, NEW k \in Nat, ~sv.sealed => n = 0
    PROVE  Sealed(sv, Units(n, k)) = Span(0, Answered(sv, n), n + k + 1)
<1>1. PICK z \in Nat : z = 0
    OBVIOUS
<1>2. CASE sv.sealed
    <2>1. Units(n, k) = Span(z, n + 1, n + k + 1)
        BY UnitsAre
    <2>2. Sealed(sv, Units(n, k)) = Units(n, k) /\ Answered(sv, n) = n + 1
        BY <1>2 DEF Sealed, Answered
    <2> QED
        BY <1>1, <2>1, <2>2
<1>3. CASE ~sv.sealed
    <2>1. <<Mark("iv", z)>> \o Units(0, k) = Span(z, 0, k + 1)
        BY IvUnits
    <2>2. n = 0 /\ n + k + 1 = k + 1 /\ Answered(sv, n) = 0
        BY <1>3 DEF Answered
    <2>3. Sealed(sv, Units(n, k)) = <<Mark("iv", 0)>> \o Units(0, k)
        BY <1>3, <2>2 DEF Sealed
    <2> QED
        BY <1>1, <2>1, <2>2, <2>3
<1> QED
    BY <1>2, <1>3

\* an answer leaves what its server has read as it is
SameEnd(sv, t) == t.tls = sv.tls /\ t.buf = sv.buf /\ sv.init /\ t.init

LEMMA ReplyOk ==
    ASSUME NEW c, NEW v, NEW cl, NEW sv, NEW gl, NEW x, NEW dn, NEW g, NEW bk, NEW n,
           ConnOk(c, class, peer[c].speaks, v, cl, sv, gl, x, dn, g, bk, n, "open"),
           sv = server[c], g # <<>>,
           NEW k \in Nat, n + k <= MaxReplies[c],
           NEW e \in Reobfuscated(c, Sealed(sv, Units(n, k)))
    PROVE  /\ e.out \in Stream /\ SameEnd(sv, [e.server EXCEPT !.sealed = TRUE])
           /\ ConnOk(c, class, peer[c].speaks, v, cl, [e.server EXCEPT !.sealed = TRUE], gl, x,
                     dn \o e.out, g, bk, n + k, "open")
<1>1. /\ Typed(c, cl, sv, gl, x, dn, bk, n, "open") /\ Delivered(cl, g, bk, n)
      /\ UpShape(class, peer[c].speaks, v, c, cl, sv, x, g)
      /\ DownShape(class, peer[c].speaks, cl, sv, dn, bk, n)
    BY DEF ConnOk, Open
<1>2. /\ c \in Conns /\ cl \in ClientLocal /\ sv \in ServerLocal /\ dn \in Stream
      /\ n \in Nat /\ MaxReplies[c] \in Nat
    BY <1>1, Bounds DEF Typed
<1>3. sv.init
    BY <1>1 DEF UpShape
<1>4. ~sv.sealed => n = 0
    BY <1>1 DEF DownShape
<1>5. PICK s \in Nat, u \in Nat : s = Answered(sv, n) /\ u = n + k + 1 /\ s <= u
    <2>1. Answered(sv, n) \in Nat /\ n + k + 1 \in Nat /\ Answered(sv, n) <= n + k + 1
        BY <1>2 DEF Answered
    <2> QED
        BY <2>1
<1>6. e \in Reobfuscated(c, Span(0, s, u))
    BY <1>2, <1>4, <1>5, SealedSpan
<1>7. PICK b \in Nat : b <= s /\ Taking(bk, b) /\ OnWay(class, peer[c].speaks, cl, sv, dn, b, s)
    <2>1. \E b \in 0..s : Taking(bk, b) /\ OnWay(class, peer[c].speaks, cl, sv, dn, b, s)
        BY <1>1, <1>5 DEF DownShape
    <2> QED
        BY <2>1
<1>8. Ongoing(class, peer[c].speaks, v, cl, sv, x, Handed(sv, g), Written(cl))
    BY <1>1, <1>3 DEF UpShape
<1>9. AnswerBase(c, cl, sv, dn, b, s, u)
    <2>1. ~sv.sealed => s = 0
        BY <1>5 DEF Answered
    <2>2. class # "none" => (sv.plainSpoken <=> ~peer[c].speaks)
        BY <1>1, <1>3, Zenon DEF UpShape
    <2>3. class = "tls" /\ peer[c].speaks => cl.tls.status = 8 /\ sv.tls.status = 8
        BY <1>8 DEF Ongoing
    <2> QED
        BY <1>2, <1>5, <1>7, <2>1, <2>2, <2>3, Zenon DEF AnswerBase
<1>10. AnswerOutcome(c, cl, sv, dn, b, u, e)
    BY <1>6, <1>9, AnswerGives
<1>11. /\ e.out \in Stream /\ e.server \in ServerLocal /\ e.server.tls = sv.tls
       /\ e.server.http.recvBuf = sv.http.recvBuf /\ e.server.http.recvHeader = sv.http.recvHeader
       /\ e.server.buf = sv.buf /\ (e.server.init <=> sv.init)
       /\ (e.server.plainSpoken <=> sv.plainSpoken)
    BY <1>10 DEF AnswerOutcome, Kept
<1>12. PICK t \in ServerLocal :
          /\ t = [e.server EXCEPT !.sealed = TRUE] /\ t.sealed /\ t.tls = sv.tls
          /\ t.http.recvBuf = sv.http.recvBuf /\ t.http.recvHeader = sv.http.recvHeader
          /\ t.buf = sv.buf /\ t.init /\ (t.plainSpoken <=> sv.plainSpoken)
    <2>1. [e.server EXCEPT !.sealed = TRUE] \in ServerLocal
        BY <1>11 DEF ServerLocal
    <2>2. /\ [e.server EXCEPT !.sealed = TRUE].sealed = TRUE
          /\ [e.server EXCEPT !.sealed = TRUE].tls = e.server.tls
          /\ [e.server EXCEPT !.sealed = TRUE].http = e.server.http
          /\ [e.server EXCEPT !.sealed = TRUE].buf = e.server.buf
          /\ [e.server EXCEPT !.sealed = TRUE].init = e.server.init
          /\ [e.server EXCEPT !.sealed = TRUE].plainSpoken = e.server.plainSpoken
        BY <1>11 DEF ServerLocal
    <2> QED
        BY <1>3, <1>11, <2>1, <2>2
<1>13. UpShape(class, peer[c].speaks, v, c, cl, t, x, g)
    <2>1. Handed(t, g) = Handed(sv, g)
        BY <1>3, <1>12 DEF Handed
    <2>2. Ongoing(class, peer[c].speaks, v, cl, t, x, Handed(sv, g), Written(cl))
        BY <1>8, <1>12 DEF Ongoing
    <2>3. class # "none" => (t.plainSpoken <=> ~peer[c].speaks)
        BY <1>9, <1>12, Zenon DEF AnswerBase
    <2> QED
        BY <1>1, <1>3, <1>12, <2>1, <2>2, <2>3 DEF UpShape
<1>14. Answered(t, n + k) = u
    BY <1>5, <1>12 DEF Answered
<1>15. b \in 0..u
    BY <1>5, <1>7
<1>16. DownShape(class, peer[c].speaks, cl, t, dn \o e.out, bk, n + k)
    <2>1. OnWay(class, peer[c].speaks, cl, t, dn \o e.out, b, u)
        BY <1>10, <1>12 DEF AnswerOutcome
    <2> QED
        BY <1>7, <1>12, <1>14, <1>15, <2>1 DEF DownShape
<1>17. Typed(c, cl, t, gl, x, dn \o e.out, bk, n + k, "open")
    <2>1. dn \o e.out \in Stream
        BY <1>2, <1>11, Joined
    <2>2. n + k \in 0..MaxReplies[c]
        BY <1>2
    <2> QED
        BY <1>1, <1>12, <2>1, <2>2 DEF Typed
<1>18. Delivered(cl, g, bk, n + k)
    <2>1. b \in 0..n + k + 1
        BY <1>5, <1>15
    <2> QED
        BY <1>1, <1>7, <2>1 DEF Delivered
<1> QED
    BY <1>3, <1>11, <1>12, <1>13, <1>16, <1>17, <1>18 DEF ConnOk, Open, SameEnd

\* of a connection that has ended only what was handed over is kept
LEMMA EndedOk ==
    ASSUME NEW c, NEW k, NEW speaks, NEW v, NEW cl, NEW sv, NEW gl, NEW x, NEW dn, NEW g,
           NEW bk, NEW n, ConnOk(c, k, speaks, v, cl, sv, gl, x, dn, g, bk, n, "open"),
           NEW t \in ServerLocal, t.tls.status \in ServerStatus, NEW gm \in Globals,
           NEW y \in Stream, NEW z \in Stream, NEW st \in Statuses \ {"open"}
    PROVE  ConnOk(c, k, speaks, v, cl, t, gm, y, z, g, bk, n, st)
BY DEF ConnOk, Typed

-----------------------------------------------------------------------------
(* The steps of the system, each a step of one connection.                 *)

Moved(c, cl, sv, gl, u, dn, g, bk, n, st) ==
    /\ client' = [client EXCEPT ![c] = cl] /\ server' = [server EXCEPT ![c] = sv]
    /\ global' = [global EXCEPT ![c] = gl]
    /\ up' = [up EXCEPT ![c] = u] /\ down' = [down EXCEPT ![c] = dn]
    /\ got' = [got EXCEPT ![c] = g] /\ back' = [back EXCEPT ![c] = bk]
    /\ replied' = [replied EXCEPT ![c] = n] /\ status' = [status EXCEPT ![c] = st]

LEMMA MovedOk ==
    ASSUME PathInv, NEW c \in Conns, UNCHANGED conf, cuts' \in 0..MaxCuts,
           NEW cl, NEW sv, NEW gl, NEW u, NEW dn, NEW g, NEW bk, NEW n, NEW st,
           Moved(c, cl, sv, gl, u, dn, g, bk, n, st),
           ConnOk(c, class, peer[c].speaks, ivOf[c], cl, sv, gl, u, dn, g, bk, n, st)
    PROVE  PathInv'
<1>1. Functions
    BY DEF PathInv
<1>2. /\ cl \in ClientLocal /\ sv \in ServerLocal /\ gl \in Globals
      /\ u \in Stream /\ dn \in Stream /\ g \in Stream /\ bk \in Stream
      /\ n \in Nat /\ st \in Statuses
    <2>1. /\ Typed(c, cl, sv, gl, u, dn, bk, n, st) /\ g \in Stream
        BY DEF ConnOk, Delivered, GotOk
    <2>2. n \in Nat
        BY <2>1, Bounds DEF Typed
    <2> QED
        BY <2>1, <2>2 DEF Typed
<1>3. Functions'
    BY <1>1, <1>2 DEF Functions, Moved
<1>4. Others(c)
    BY <1>1 DEF Functions, Moved, Others
<1>5. /\ client'[c] = cl /\ server'[c] = sv /\ global'[c] = gl /\ up'[c] = u /\ down'[c] = dn
      /\ got'[c] = g /\ back'[c] = bk /\ replied'[c] = n /\ status'[c] = st
    BY <1>1 DEF Functions, Moved
<1>6. UNCHANGED <<peer, ivOf>> /\ class' = class
    BY DEF conf, class
<1>7. OkAt(c)'
    BY <1>5, <1>6 DEF OkAt
<1> QED
    BY <1>3, <1>4, <1>7, OneMoves

\* What a step leaves alone it gives the value it has.
LEMMA AsItWas ==
    ASSUME PathInv, NEW c \in Conns
    PROVE  /\ client = [client EXCEPT ![c] = client[c]] /\ server = [server EXCEPT ![c] = server[c]]
           /\ global = [global EXCEPT ![c] = global[c]]
           /\ up = [up EXCEPT ![c] = up[c]] /\ down = [down EXCEPT ![c] = down[c]]
           /\ got = [got EXCEPT ![c] = got[c]] /\ back = [back EXCEPT ![c] = back[c]]
           /\ replied = [replied EXCEPT ![c] = replied[c]]
           /\ status = [status EXCEPT ![c] = status[c]]
BY DEF PathInv, Functions

OpenAt(c) == ConnOk(c, class, peer[c].speaks, ivOf[c], client[c], server[c], global[c],
                    up[c], down[c], got[c], back[c], replied[c], "open")

LEMMA IsOpen ==
    ASSUME PathInv, NEW c \in Conns, status[c] = "open"
    PROVE  /\ OpenAt(c) /\ ivOf[c] \in Nat
           /\ client[c] \in ClientLocal /\ server[c] \in ServerLocal /\ global[c] \in Globals
           /\ server[c].tls.status \in ServerStatus /\ client[c].units \in {0, FirstWrite, MaxUnits}
           /\ up[c] \in Stream /\ down[c] \in Stream /\ got[c] \in Stream /\ back[c] \in Stream
           /\ replied[c] \in Nat
<1>1. OpenAt(c)
    BY DEF PathInv, OkAt, OpenAt
<1>2. ivOf[c] \in Nat
    BY PathAssumption DEF PathInv, Given
<1>3. /\ server[c].tls.status \in ServerStatus /\ client[c].units \in {0, FirstWrite, MaxUnits}
    BY <1>1 DEF OpenAt, ConnOk, Typed
<1>4. /\ client[c] \in ClientLocal /\ server[c] \in ServerLocal /\ global[c] \in Globals
      /\ up[c] \in Stream /\ down[c] \in Stream /\ got[c] \in Stream /\ back[c] \in Stream
      /\ replied[c] \in Nat
    BY DEF PathInv, Functions
<1> QED
    BY <1>1, <1>2, <1>3, <1>4

LEMMA WritesKeep ==
    ASSUME PathInv, NEW c \in Conns, Writes(c)
    PROVE  PathInv'
<1>1. /\ status[c] = "open" /\ client[c].units < MaxUnits
      /\ UNCHANGED <<conf, server, global, got, down, back, replied, status, cuts>>
    BY DEF Writes, ClientWrite, downward
<1>2. PICK e \in Obfuscated(c, Data(ivOf[c], client[c].units)) :
          /\ client' = [client EXCEPT ![c] = [e.client EXCEPT !.units = Next1(client[c].units)]]
          /\ up' = [up EXCEPT ![c] = @ \o e.out]
    BY DEF Writes, ClientWrite, Data, Next1, Iv
<1>3. PICK kl : kl = [e.client EXCEPT !.units = Next1(client[c].units)]
    OBVIOUS
<1>4. up' = [up EXCEPT ![c] = up[c] \o e.out]
    BY <1>2
<1>5. Moved(c, kl, server[c], global[c], up[c] \o e.out, down[c], got[c], back[c], replied[c], "open")
    BY <1>1, <1>2, <1>3, <1>4, AsItWas DEF Moved
<1>6. ConnOk(c, class, peer[c].speaks, ivOf[c], kl, server[c], global[c], up[c] \o e.out,
             down[c], got[c], back[c], replied[c], "open")
    <2>1. OpenAt(c) /\ ivOf[c] \in Nat
        BY <1>1, IsOpen
    <2> QED
        BY <1>1, <1>2, <1>3, <2>1, WriteOk DEF OpenAt, Wrote
<1>7. cuts' \in 0..MaxCuts
    BY <1>1 DEF PathInv, Given
<1> QED
    BY <1>1, <1>5, <1>6, <1>7, MovedOk

LEMMA RepliesKeep ==
    ASSUME PathInv, NEW c \in Conns, Replies(c)
    PROVE  PathInv'
<1>1. PICK k \in ReplySizes : RemoteRecv(c, k)
    BY DEF Replies
<1>2. /\ status[c] = "open" /\ got[c] # <<>> /\ replied[c] + k <= MaxReplies[c]
      /\ UNCHANGED <<conf, client, global, up, got, back, status, cuts>>
    BY <1>1 DEF Replies, RemoteRecv, upward
<1>3. PICK e \in Reobfuscated(c, Sealed(server[c], Units(replied[c], k))) :
          /\ server' = [server EXCEPT ![c] = [e.server EXCEPT !.sealed = TRUE]]
          /\ down' = [down EXCEPT ![c] = @ \o e.out]
    BY <1>1 DEF RemoteRecv, Encrypted, Sealed
<1>4. replied' = [replied EXCEPT ![c] = replied[c] + k] /\ down' = [down EXCEPT ![c] = down[c] \o e.out]
    BY <1>1, <1>3 DEF RemoteRecv
<1>5. Moved(c, client[c], [e.server EXCEPT !.sealed = TRUE], global[c], up[c], down[c] \o e.out,
            got[c], back[c], replied[c] + k, "open")
    BY <1>2, <1>3, <1>4, AsItWas DEF Moved
<1>6. ConnOk(c, class, peer[c].speaks, ivOf[c], client[c], [e.server EXCEPT !.sealed = TRUE],
             global[c], up[c], down[c] \o e.out, got[c], back[c], replied[c] + k, "open")
    <2>1. OpenAt(c) /\ k \in Nat
        BY <1>2, IsOpen, PathAssumption
    <2> QED
        BY <1>2, <1>3, <2>1, ReplyOk DEF OpenAt
<1>7. cuts' \in 0..MaxCuts
    BY <1>2 DEF PathInv, Given
<1> QED
    BY <1>2, <1>5, <1>6, <1>7, MovedOk

\* a read takes at least one atom of what has arrived
ReadSize(stream, k) == k \in 1..Len(stream) /\ cuts' \in 0..MaxCuts

LEMMA CutsRoom ==
    ASSUME PathInv, cuts < MaxCuts
    PROVE  cuts + 1 \in 0..MaxCuts
BY Bounds DEF PathInv, Given

LEMMA SizeOk ==
    ASSUME PathInv, NEW x \in Stream
    PROVE  /\ \A k : cuts < MaxCuts /\ cuts' = cuts + 1 /\ k \in 1..(Len(x) - 1) => ReadSize(x, k)
           /\ x # <<>> /\ UNCHANGED cuts => ReadSize(x, Len(x))
<1>1. PICK n \in Nat : Len(x) = n /\ (x # <<>> => n # 0)
    BY Nothing
<1>2. cuts \in 0..MaxCuts
    BY DEF PathInv, Given
<1>3. ASSUME NEW k \in 1..(n - 1) PROVE k \in 1..n
    BY <1>3
<1>4. x # <<>> => n \in 1..n
    BY <1>1
<1> QED
    BY <1>1, <1>2, <1>3, <1>4, CutsRoom DEF ReadSize

LEMMA ServerReadsOne ==
    ASSUME PathInv, NEW c \in Conns, ServerReads(c)
    PROVE  \E k : ReadSize(up[c], k) /\ ServerRecv(c, k)
<1>1. up[c] \in Stream
    BY DEF PathInv, Functions
<1>2. \/ up[c] # <<>> /\ ServerRecv(c, Len(up[c])) /\ UNCHANGED cuts
      \/ cuts < MaxCuts /\ cuts' = cuts + 1 /\ \E k \in 1..(Len(up[c]) - 1) : ServerRecv(c, k)
    BY DEF ServerReads, Read
<1> QED
    BY <1>1, <1>2, SizeOk

LEMMA ClientReadsOne ==
    ASSUME PathInv, NEW c \in Conns, ClientReads(c)
    PROVE  \E k : ReadSize(down[c], k) /\ ClientRecv(c, k)
<1>1. down[c] \in Stream
    BY DEF PathInv, Functions
<1>2. \/ down[c] # <<>> /\ ClientRecv(c, Len(down[c])) /\ UNCHANGED cuts
      \/ cuts < MaxCuts /\ cuts' = cuts + 1 /\ \E k \in 1..(Len(down[c]) - 1) : ClientRecv(c, k)
    BY DEF ClientReads, Read
<1> QED
    BY <1>1, <1>2, SizeOk

LEMMA ClientReadsKeep ==
    ASSUME PathInv, NEW c \in Conns, ClientReads(c)
    PROVE  PathInv'
<1>1. PICK k : ReadSize(down[c], k) /\ ClientRecv(c, k)
    BY ClientReadsOne
<1>2. /\ status[c] = "open" /\ k \in 1..Len(down[c]) /\ cuts' \in 0..MaxCuts
      /\ UNCHANGED <<conf, server, global, got, replied>>
    BY <1>1 DEF ClientRecv, ReadSize
<1>3. /\ OpenAt(c) /\ ivOf[c] \in Nat /\ down[c] \in Stream /\ up[c] \in Stream
      /\ server[c] \in ServerLocal /\ server[c].tls.status \in ServerStatus /\ global[c] \in Globals
    BY <1>2, IsOpen
<1>4. PICK p \in Stream, q \in Stream :
          /\ p = SubSeq(down[c], 1, k) /\ q = SubSeq(down[c], k + 1, Len(down[c]))
          /\ p # <<>> /\ p \o q = down[c]
    <2>1. PICK z \in Stream : z = <<>>
        BY Nothing
    <2>2. /\ z \o SubSeq(down[c], 1, k) \in Stream /\ SubSeq(down[c], k + 1, Len(down[c])) \in Stream
          /\ z \o SubSeq(down[c], 1, k) # <<>>
          /\ (z \o SubSeq(down[c], 1, k)) \o SubSeq(down[c], k + 1, Len(down[c])) = z \o down[c]
        BY <1>2, <1>3, Piece
    <2>3. PICK y \in Stream : y = SubSeq(down[c], 1, k)
        <3>1. k \in 0..Len(down[c])
            <4>1. PICK n \in Nat : Len(down[c]) = n
                BY <1>3, Nothing
            <4> QED
                BY <1>2, <4>1
        <3> QED
            BY <1>3, <3>1, Cut
    <2>4. z \o y = y /\ z \o down[c] = down[c]
        BY <1>3, <2>1, Nothing
    <2> QED
        BY <2>2, <2>3, <2>4
<1>5. FetchBase(c, ivOf[c], client[c], server[c], global[c], up[c], down[c], got[c], back[c],
                replied[c], p, q)
    BY <1>3, <1>4 DEF FetchBase, OpenAt
<1>6. down' = [down EXCEPT ![c] = q]
    BY <1>1, <1>4 DEF ClientRecv
<1>7. ASSUME NEW cl, NEW u, NEW bk, NEW st,
             client' = [client EXCEPT ![c] = cl], up' = [up EXCEPT ![c] = u],
             back' = [back EXCEPT ![c] = bk], status' = [status EXCEPT ![c] = st],
             ConnOk(c, class, peer[c].speaks, ivOf[c], cl, server[c], global[c], u, q,
                    got[c], bk, replied[c], st)
      PROVE  PathInv'
    <2>1. Moved(c, cl, server[c], global[c], u, q, got[c], bk, replied[c], st)
        BY <1>2, <1>6, <1>7, AsItWas DEF Moved
    <2> QED
        BY <1>2, <1>7, <2>1, MovedOk
<1>8. /\ client = [client EXCEPT ![c] = client[c]] /\ up = [up EXCEPT ![c] = up[c]]
      /\ back = [back EXCEPT ![c] = back[c]] /\ status = [status EXCEPT ![c] = "open"]
    BY <1>2, AsItWas
<1>9. CASE /\ class = "none" \/ ~peer[c].speaks
           /\ Taken(c, p) /\ UNCHANGED <<client, up, status>>
    <2>1. ConnOk(c, class, peer[c].speaks, ivOf[c], client[c], server[c], global[c], up[c], q,
                 got[c], back[c] \o Stripped(p), replied[c], "open")
        BY <1>5, <1>9, FetchPlain
    <2>2. back' = [back EXCEPT ![c] = back[c] \o Stripped(p)]
        BY <1>9 DEF Taken, Stripped
    <2> QED
        BY <1>7, <1>8, <1>9, <2>1, <2>2
<1>10. ASSUME NEW h, h = HttpClientDecode(client[c].http, p), class = "http", peer[c].speaks,
              client' = [client EXCEPT ![c].http = h.local], Taken(c, h.out), UNCHANGED <<up, status>>
       PROVE  PathInv'
    <2>1. ConnOk(c, class, peer[c].speaks, ivOf[c], [client[c] EXCEPT !.http = h.local], server[c],
                 global[c], up[c], q, got[c], back[c] \o Stripped(h.out), replied[c], "open")
        BY <1>5, <1>10, FetchHttp
    <2>2. back' = [back EXCEPT ![c] = back[c] \o Stripped(h.out)]
        BY <1>10 DEF Taken, Stripped
    <2>3. client' = [client EXCEPT ![c] = [client[c] EXCEPT !.http = h.local]]
        BY <1>10
    <2> QED
        BY <1>7, <1>8, <1>10, <2>1, <2>2, <2>3
<1>11. CASE status' = [status EXCEPT ![c] = "left"] /\ UNCHANGED <<client, up, back>>
    <2>1. ConnOk(c, class, peer[c].speaks, ivOf[c], client[c], server[c], global[c], up[c], q,
                 got[c], back[c], replied[c], "left")
        <3>1. "left" \in Statuses \ {"open"}
            BY DEF Statuses
        <3>2. PICK gm \in Globals : gm = global[c]
            BY <1>3
        <3>3. PICK t \in ServerLocal : t = server[c] /\ t.tls.status \in ServerStatus
            BY <1>3
        <3>4. PICK y \in Stream : y = up[c]
            BY <1>3
        <3>5. ConnOk(c, class, peer[c].speaks, ivOf[c], client[c], t, gm, y, down[c], got[c],
                     back[c], replied[c], "open")
            BY <1>3, <3>2, <3>3, <3>4 DEF OpenAt
        <3>6. ConnOk(c, class, peer[c].speaks, ivOf[c], client[c], t, gm, y, q, got[c],
                     back[c], replied[c], "left")
            BY <3>1, <3>3, <3>5, EndedOk
        <3> QED
            BY <3>2, <3>3, <3>4, <3>6
    <2> QED
        BY <1>7, <1>8, <1>11, <2>1
<1>12. ASSUME NEW d, d = TicketClientDecode(client[c].tls, c, p, peer[c].key),
              class = "tls", peer[c].speaks, d.ok, ~d.back,
              client' = [client EXCEPT ![c].tls = d.local], Taken(c, d.out), UNCHANGED <<up, status>>
       PROVE  PathInv'
    <2>1. ConnOk(c, class, peer[c].speaks, ivOf[c], [client[c] EXCEPT !.tls = d.local], server[c],
                 global[c], up[c], q, got[c], back[c] \o Stripped(d.out), replied[c], "open")
        BY <1>5, <1>12, FetchTls
    <2>2. back' = [back EXCEPT ![c] = back[c] \o Stripped(d.out)]
        BY <1>12 DEF Taken, Stripped
    <2>3. client' = [client EXCEPT ![c] = [client[c] EXCEPT !.tls = d.local]]
        BY <1>12
    <2> QED
        BY <1>7, <1>8, <1>12, <2>1, <2>2, <2>3
<1>13. ASSUME NEW d, d = TicketClientDecode(client[c].tls, c, p, peer[c].key),
              class = "tls", peer[c].speaks, d.ok, d.back,
              NEW e \in TicketClientEncode(d.local, c, <<>>),
              client' = [client EXCEPT ![c].tls = e.local], up' = [up EXCEPT ![c] = @ \o e.out],
              UNCHANGED <<back, status>>
       PROVE  PathInv'
    <2>1. ConnOk(c, class, peer[c].speaks, ivOf[c], [client[c] EXCEPT !.tls = e.local], server[c],
                 global[c], up[c] \o e.out, q, got[c], back[c], replied[c], "open")
        BY <1>5, <1>13, FetchReply
    <2>2. client' = [client EXCEPT ![c] = [client[c] EXCEPT !.tls = e.local]]
          /\ up' = [up EXCEPT ![c] = up[c] \o e.out]
        BY <1>13
    <2>3. back' = [back EXCEPT ![c] = back[c]] /\ status' = [status EXCEPT ![c] = "open"]
        BY <1>8, <1>13
    <2> QED
        BY <1>7, <2>1, <2>2, <2>3
<1>14. PICK d, h : /\ d = TicketClientDecode(client[c].tls, c, p, peer[c].key)
                   /\ h = HttpClientDecode(client[c].http, p)
    OBVIOUS
<1>15. \/ /\ class = "none" \/ ~peer[c].speaks
          /\ Taken(c, p)
          /\ UNCHANGED <<client, up, status>>
       \/ /\ class = "http" /\ peer[c].speaks
          /\ client' = [client EXCEPT ![c].http = h.local]
          /\ Taken(c, h.out)
          /\ UNCHANGED <<up, status>>
       \/ status' = [status EXCEPT ![c] = "left"] /\ UNCHANGED <<client, up, back>>
       \/ /\ class = "tls" /\ peer[c].speaks /\ d.ok /\ ~d.back
          /\ client' = [client EXCEPT ![c].tls = d.local]
          /\ Taken(c, d.out)
          /\ UNCHANGED <<up, status>>
       \/ /\ class = "tls" /\ peer[c].speaks /\ d.ok /\ d.back
          /\ \E e \in TicketClientEncode(d.local, c, <<>>) :
                /\ client' = [client EXCEPT ![c].tls = e.local]
                /\ up' = [up EXCEPT ![c] = @ \o e.out]
          /\ UNCHANGED <<back, status>>
    BY <1>1, <1>4, <1>14, Zenon DEF ClientRecv
<1> QED
    BY <1>9, <1>10, <1>11, <1>12, <1>13, <1>14, <1>15

-----------------------------------------------------------------------------
LEMMA ServerReadsKeep ==
    ASSUME PathInv, NEW c \in Conns, ServerReads(c)
    PROVE  PathInv'
<1>1. PICK k : ReadSize(up[c], k) /\ ServerRecv(c, k)
    BY ServerReadsOne
<1>2. /\ status[c] = "open" /\ k \in 1..Len(up[c]) /\ cuts' \in 0..MaxCuts
      /\ UNCHANGED <<conf, client, back, replied>>
    BY <1>1 DEF ServerRecv, ReadSize
<1>3. /\ OpenAt(c) /\ ivOf[c] \in Nat /\ down[c] \in Stream /\ up[c] \in Stream
      /\ server[c] \in ServerLocal /\ server[c].tls.status \in ServerStatus
      /\ server[c].buf \in Stream
    BY <1>2, IsOpen DEF ServerLocal
<1>4. PICK p \in Stream, q \in Stream :
          /\ p = server[c].buf \o SubSeq(up[c], 1, k) /\ q = SubSeq(up[c], k + 1, Len(up[c]))
          /\ p # <<>> /\ p \o q = server[c].buf \o up[c]
    <2>1. PICK h \in Stream, x \in Stream : h = server[c].buf /\ x = up[c]
        BY <1>3
    <2>2. /\ h \o SubSeq(x, 1, k) \in Stream /\ SubSeq(x, k + 1, Len(x)) \in Stream
          /\ h \o SubSeq(x, 1, k) # <<>>
          /\ (h \o SubSeq(x, 1, k)) \o SubSeq(x, k + 1, Len(x)) = h \o x
        BY <1>2, <2>1, Piece
    <2> QED
        BY <2>1, <2>2
<1>5. ReadBase(c, ivOf[c], client[c], server[c], global[c], up[c], down[c], got[c], back[c],
               replied[c], p, q)
    BY <1>3, <1>4 DEF ReadBase, OpenAt
<1>6. up' = [up EXCEPT ![c] = q]
    BY <1>1, <1>4 DEF ServerRecv
<1>7. ASSUME NEW sv, NEW gl, NEW dn, NEW g, NEW st,
             server' = [server EXCEPT ![c] = sv], global' = [global EXCEPT ![c] = gl],
             down' = [down EXCEPT ![c] = dn], got' = [got EXCEPT ![c] = g],
             status' = [status EXCEPT ![c] = st],
             ConnOk(c, class, peer[c].speaks, ivOf[c], client[c], sv, gl, q, dn, g, back[c],
                    replied[c], st)
      PROVE  PathInv'
    <2>1. Moved(c, client[c], sv, gl, q, dn, g, back[c], replied[c], st)
        BY <1>2, <1>6, <1>7, AsItWas DEF Moved
    <2> QED
        BY <1>2, <1>7, <2>1, MovedOk
<1>8. /\ server = [server EXCEPT ![c] = server[c]] /\ global = [global EXCEPT ![c] = global[c]]
      /\ down = [down EXCEPT ![c] = down[c]] /\ got = [got EXCEPT ![c] = got[c]]
      /\ status = [status EXCEPT ![c] = "open"]
    BY <1>2, AsItWas
<1>9. CASE /\ Waits(c, p) /\ server' = [server EXCEPT ![c].buf = p]
           /\ UNCHANGED <<global, got, down, status>>
    <2>1. ~server[c].init
        BY <1>9 DEF Waits
    <2>2. ConnOk(c, class, peer[c].speaks, ivOf[c], client[c], [server[c] EXCEPT !.buf = p],
                 global[c], q, down[c], got[c], back[c], replied[c], "open")
        BY <1>5, <2>1, WaitOk
    <2>3. server' = [server EXCEPT ![c] = [server[c] EXCEPT !.buf = p]]
        BY <1>9
    <2>4. /\ global' = [global EXCEPT ![c] = global[c]] /\ got' = [got EXCEPT ![c] = got[c]]
          /\ down' = [down EXCEPT ![c] = down[c]] /\ status' = [status EXCEPT ![c] = "open"]
        BY <1>8, <1>9
    <2> QED
        BY <1>7, <2>2, <2>3, <2>4
<1>10. ASSUME NEW d \in Deobfuscated(c, p)
       PROVE  /\ d.server.tls.status \in ServerStatus
              /\ d.global[c] \in Globals /\ d.global = [global EXCEPT ![c] = d.global[c]]
              /\ Kept(server[c], d.server) /\ d.ok \in BOOLEAN
              /\ Outcome(class, peer[c].speaks, ivOf[c], c, client[c], server[c], d, p, q,
                         Handed(server[c], got[c]), Written(client[c]))
    <2>1. global \in [Conns -> Globals] /\ global \in [Conns -> GlobalLocal]
        BY DEF PathInv, Functions, Globals
    <2>2. DecodedSide(c, d)
        BY <1>3, <1>4, <2>1, DecodeSide
    <2>3. d.global = [global EXCEPT ![c] = d.global[c]]
        BY <2>1, <2>2 DEF DecodedSide
    <2>4. Outcome(class, peer[c].speaks, ivOf[c], c, client[c], server[c], d, p, q,
                  Handed(server[c], got[c]), Written(client[c]))
        <3>1. Reads(c, ivOf[c], client[c], server[c], p, q, Handed(server[c], got[c]), Written(client[c]))
            BY <1>5, ReadReads
        <3> QED
            BY <2>1, <3>1, Decodes
    <2> QED
        BY <2>2, <2>3, <2>4 DEF DecodedSide, Outcome
<1>11. ASSUME NEW d \in Deobfuscated(c, p), global' = d.global,
              status' = [status EXCEPT ![c] = "refused"], UNCHANGED <<server, got, down>>
       PROVE  PathInv'
    <2>0. d.global[c] \in Globals /\ d.global = [global EXCEPT ![c] = d.global[c]]
        BY <1>10
    <2>1. ConnOk(c, class, peer[c].speaks, ivOf[c], client[c], server[c],
                 d.global[c], q, down[c], got[c], back[c], replied[c], "refused")
        <3>1. "refused" \in Statuses \ {"open"}
            BY DEF Statuses
        <3>2. PICK gm \in Globals : gm = d.global[c]
            BY <2>0
        <3>3. PICK t \in ServerLocal : t = server[c] /\ t.tls.status \in ServerStatus
            BY <1>3
        <3>4. PICK z \in Stream : z = down[c]
            BY <1>3
        <3>5. ConnOk(c, class, peer[c].speaks, ivOf[c], client[c], t, global[c], up[c], z, got[c],
                     back[c], replied[c], "open")
            BY <1>3, <3>3, <3>4 DEF OpenAt
        <3>6. ConnOk(c, class, peer[c].speaks, ivOf[c], client[c], t, gm, q, z, got[c],
                     back[c], replied[c], "refused")
            BY <3>1, <3>3, <3>5, EndedOk
        <3> QED
            BY <3>2, <3>3, <3>4, <3>6
    <2>2. /\ server' = [server EXCEPT ![c] = server[c]] /\ got' = [got EXCEPT ![c] = got[c]]
          /\ down' = [down EXCEPT ![c] = down[c]] /\ global' = [global EXCEPT ![c] = d.global[c]]
        BY <1>8, <1>11, <2>0
    <2> QED
        BY <1>7, <1>11, <2>1, <2>2
<1>12. ASSUME NEW d \in Deobfuscated(c, p), d.back, global' = d.global,
              NEW e \in TicketServerEncode(d.server.tls, d.global[Global(c)], <<>>),
              server' = [server EXCEPT ![c] = [d.server EXCEPT !.tls = e.local, !.buf = <<>>]],
              down' = [down EXCEPT ![c] = @ \o e.out], UNCHANGED <<got, status>>
       PROVE  PathInv'
    <2>1. Greets(class, peer[c].speaks, c, client[c], server[c], d, q)
        BY <1>10, <1>12 DEF Outcome, Passes, Fails
    <2>2. ConnOk(c, class, peer[c].speaks, ivOf[c], client[c],
                 [d.server EXCEPT !.tls = e.local, !.buf = <<>>], d.global[c], q, down[c] \o e.out,
                 got[c], back[c], replied[c], "open")
        BY <1>5, <1>10, <1>12, <2>1, GreetOk
    <2>3. down' = [down EXCEPT ![c] = down[c] \o e.out]
        BY <1>12
    <2>4. /\ got' = [got EXCEPT ![c] = got[c]] /\ status' = [status EXCEPT ![c] = "open"]
          /\ global' = [global EXCEPT ![c] = d.global[c]]
        BY <1>8, <1>10, <1>12
    <2>5. PICK sv : sv = [d.server EXCEPT !.tls = e.local, !.buf = <<>>]
        OBVIOUS
    <2>6. server' = [server EXCEPT ![c] = sv]
        BY <1>12, <2>5
    <2>7. ConnOk(c, class, peer[c].speaks, ivOf[c], client[c], sv, d.global[c], q, down[c] \o e.out,
                 got[c], back[c], replied[c], "open")
        BY <2>2, <2>5
    <2> QED
        BY <1>7, <2>3, <2>4, <2>6, <2>7
<1>13. ASSUME NEW d \in Deobfuscated(c, p), ~d.back, global' = d.global,
              server' = [server EXCEPT ![c] = Seen(d)], server[c].init,
              DecryptMore(c, OutOf(d, p)), UNCHANGED down
       PROVE  PathInv'
    <2>1. ReadMore(c, ivOf[c], client[c], server[c], d.global[c], q, down[c], got[c], back[c],
                   replied[c], d, p)
        BY <1>5, <1>10, <1>13, MoreOk
    <2>2. got' = [got EXCEPT ![c] = got[c] \o OutOf(d, p)] /\ UNCHANGED status
        BY <1>13 DEF DecryptMore
    <2>3. ConnOk(c, class, peer[c].speaks, ivOf[c], client[c], Seen(d), d.global[c], q, down[c],
                 got[c] \o OutOf(d, p), back[c], replied[c], "open")
        BY <2>1 DEF ReadMore
    <2>4. /\ down' = [down EXCEPT ![c] = down[c]] /\ status' = [status EXCEPT ![c] = "open"]
          /\ global' = [global EXCEPT ![c] = d.global[c]]
        BY <1>8, <1>10, <1>13, <2>2
    <2> QED
        BY <1>7, <1>13, <2>2, <2>3, <2>4
<1>14. ASSUME NEW d \in Deobfuscated(c, p), ~d.back, global' = d.global,
              server' = [server EXCEPT ![c] = Seen(d)], ~server[c].init,
              DecryptFirst(c, OutOf(d, p), p), UNCHANGED down
       PROVE  PathInv'
    <2>1. PICK o : o = OutOf(d, p)
        OBVIOUS
    <2>2. PICK st \in Statuses :
              /\ status' = [status EXCEPT ![c] = st]
              /\ st = "open" => /\ ~(Len(o) < 1) /\ o[1].t = "iv" /\ Len(o) # 1
                                /\ got' = [got EXCEPT ![c] = SubSeq(o, 2, Len(o))]
              /\ st # "open" => got' = [got EXCEPT ![c] = got[c]]
        <3>1. PICK key : status' = [status EXCEPT ![c] =
                             IF IvSeen(key) THEN "repeated"
                             ELSE IF Len(o) < IvLen THEN Underflow
                             ELSE IF o[1].t # "iv" \/ ~peer[c].key THEN "noise"
                             ELSE IF Len(o) = IvLen THEN "noHeader" ELSE "open"]
            BY <1>14, <2>1 DEF DecryptFirst
        <3>2. PICK st : st = IF IvSeen(key) THEN "repeated"
                             ELSE IF Len(o) < IvLen THEN Underflow
                             ELSE IF o[1].t # "iv" \/ ~peer[c].key THEN "noise"
                             ELSE IF Len(o) = IvLen THEN "noHeader" ELSE "open"
            OBVIOUS
        <3>3. st \in Statuses
            BY <3>2 DEF Statuses, Underflow
        <3>4. status' = [status EXCEPT ![c] = st]
            BY <3>1, <3>2
        <3>5. status'[c] = st
            BY <3>4 DEF PathInv, Functions
        <3>6. st = "open" => ~(Len(o) < 1) /\ o[1].t = "iv" /\ Len(o) # 1
            BY <3>2 DEF IvLen, Underflow
        <3>7. got' = [got EXCEPT ![c] = IF status'[c] = "open" THEN SubSeq(o, IvLen + 1, Len(o)) ELSE @]
            BY <1>14, <2>1 DEF DecryptFirst
        <3>8. IvLen + 1 = 2
            BY DEF IvLen
        <3> QED
            BY <3>3, <3>4, <3>5, <3>6, <3>7, <3>8
    <2>3. Seen(d) \in ServerLocal /\ Seen(d).tls.status \in ServerStatus
        BY <1>3, <1>10, SeenType
    <2>0. /\ down' = [down EXCEPT ![c] = down[c]] /\ global' = [global EXCEPT ![c] = d.global[c]]
          /\ d.global[c] \in Globals
        BY <1>8, <1>10, <1>14
    <2>4. CASE st = "open"
        <3>1. o # <<>>
            <4>1. Len(<<>>) < 1
                OBVIOUS
            <4> QED
                BY <2>2, <2>4, <4>1
        <3>2. ReadFirst(c, ivOf[c], client[c], d.global[c], q, down[c], back[c], replied[c], d, p)
            <4>1. /\ ReadBase(c, ivOf[c], client[c], server[c], global[c], up[c], down[c], got[c],
                              back[c], replied[c], p, q)
                  /\ Outcome(class, peer[c].speaks, ivOf[c], c, client[c], server[c], d, p, q,
                             Handed(server[c], got[c]), Written(client[c]))
                  /\ ~server[c].init /\ ~d.back /\ OutOf(d, p) # <<>> /\ OutOf(d, p)[1].t = "iv"
                  /\ Len(OutOf(d, p)) # 1 /\ d.global[c] \in Globals
                  /\ d.server.tls.status \in ServerStatus
                BY <1>5, <1>10, <1>14, <2>1, <2>2, <2>4, <3>1
            <4> QED
                BY <4>1, FirstOk
        <3>3. ConnOk(c, class, peer[c].speaks, ivOf[c], client[c], Seen(d), d.global[c], q, down[c],
                     SubSeq(o, 2, Len(o)), back[c], replied[c], st)
            BY <2>1, <2>4, <3>2 DEF ReadFirst
        <3> QED
            BY <1>7, <1>14, <2>0, <2>2, <2>4, <3>3
    <2>5. CASE st # "open"
        <3>1. ConnOk(c, class, peer[c].speaks, ivOf[c], client[c], Seen(d), d.global[c], q, down[c],
                     got[c], back[c], replied[c], st)
            BY <1>3, <1>4, <2>0, <2>2, <2>3, <2>5, EndedOk DEF OpenAt
        <3> QED
            BY <1>7, <1>14, <2>0, <2>2, <2>5, <3>1
    <2> QED
        BY <2>4, <2>5
<1>15. \/ Waits(c, p) /\ server' = [server EXCEPT ![c].buf = p] /\ UNCHANGED <<global, got, down, status>>
       \/ \E d \in Deobfuscated(c, p) :
             /\ global' = d.global
             /\ \/ status' = [status EXCEPT ![c] = "refused"] /\ UNCHANGED <<server, got, down>>
                \/ /\ d.back
                   /\ \E e \in TicketServerEncode(d.server.tls, d.global[Global(c)], <<>>) :
                         /\ server' = [server EXCEPT ![c] = [d.server EXCEPT !.tls = e.local, !.buf = <<>>]]
                         /\ down' = [down EXCEPT ![c] = @ \o e.out]
                   /\ UNCHANGED <<got, status>>
                \/ /\ ~d.back
                   /\ server' = [server EXCEPT ![c] = Seen(d)]
                   /\ IF server[c].init THEN DecryptMore(c, OutOf(d, p))
                      ELSE DecryptFirst(c, OutOf(d, p), p)
                   /\ UNCHANGED down
    BY <1>1, <1>4 DEF ServerRecv, Seen, OutOf
<1> QED
    BY <1>9, <1>11, <1>12, <1>13, <1>14, <1>15

LEMMA FirstShapes ==
    ASSUME NEW c, NEW k, NEW speaks, NEW v \in Nat, NEW cl, NEW sv,
           cl.tls = NewTicket, sv.tls = NewTicket, cl.http = NewHttp, sv.http = NewHttp,
           cl.units = 0, sv.buf = <<>>, ~sv.init, ~sv.plainSpoken, ~sv.sealed
    PROVE  Open(c, k, speaks, v, cl, sv, <<>>, <<>>, <<>>, <<>>, 0)
<1>1. PICK z \in Nat : z = 0
    OBVIOUS
<1>2. Span(v, z, z) = <<>> /\ Span(z, z, z) = <<>>
    BY SpanNil
<1>3. /\ cl.tls.status = 0 /\ sv.tls.status = 0 /\ cl.tls.sendBuf = <<>> /\ cl.tls.recvBuf = <<>>
      /\ sv.http.recvBuf = <<>> /\ ~sv.http.recvHeader /\ ~cl.http.sentHeader
      /\ ~cl.http.recvHeader /\ ~sv.http.sentHeader
    BY DEF NewTicket, NewHttp
<1>4. sv.buf \o <<>> = <<>>
    BY Nothing
<1>5. Written(cl) = z /\ Handed(sv, <<>>) = z /\ Answered(sv, 0) = z
    BY <1>1 DEF Written, Handed, Answered
<1>6. Opening(k, speaks, v, c, cl, sv, <<>>, z)
    <2>1. PlainOpening(k, v, sv, <<>>, z)
        BY <1>1, <1>2, <1>3 DEF PlainOpening
    <2>2. HttpOpening(v, cl, sv, <<>>, z)
        <3>1. ~(z > 0) /\ z = 0
            BY <1>1
        <3> QED
            BY <1>3, <3>1 DEF HttpOpening
    <2>3. TicketOpening(v, c, cl, sv, <<>>, z)
        BY <1>1, <1>3 DEF TicketOpening, TicketQuiet
    <2> QED
        BY <2>1, <2>2, <2>3 DEF Opening
<1>7. UpShape(k, speaks, v, c, cl, sv, <<>>, <<>>)
    BY <1>4, <1>5, <1>6 DEF UpShape
<1>8. OnWay(k, speaks, cl, sv, <<>>, z, z)
    <2>1. HttpDown(cl, sv, <<>>, z, z)
        BY <1>3 DEF HttpDown
    <2>2. TicketDown(cl, sv, <<>>, z, z)
        BY <1>3 DEF TicketDown
    <2> QED
        BY <1>1, <1>2, <2>1, <2>2 DEF OnWay
<1>9. DownShape(k, speaks, cl, sv, <<>>, <<>>, 0)
    <2>1. z \in 0..z /\ Taking(<<>>, z)
        BY <1>1 DEF Taking
    <2> QED
        BY <1>5, <1>8, <2>1 DEF DownShape
<1> QED
    BY <1>7, <1>9 DEF Open

LEMMA InitPath == Init => PathInv
<1> SUFFICES ASSUME Init PROVE PathInv
    OBVIOUS
<1>1. PICK tl \in TicketLocal, ht \in HttpLocal :
          tl = NewTicket /\ tl.status = 0 /\ ht = NewHttp
    <2>1. NewTicket \in TicketLocal /\ NewTicket.status = 0
        BY Nothing DEF NewTicket, TicketLocal
    <2>2. NewHttp \in HttpLocal
        BY Nothing DEF NewHttp, HttpLocal
    <2> QED
        BY <2>1, <2>2
<1>2. PICK cl \in ClientLocal : /\ cl = [tls |-> NewTicket, http |-> NewHttp, units |-> 0]
                                /\ cl.tls = tl /\ cl.http = ht /\ cl.units = 0
    <2>1. [tls |-> tl, http |-> ht, units |-> 0] \in ClientLocal
        BY DEF ClientLocal
    <2> QED
        BY <1>1, <2>1
<1>3. PICK sv \in ServerLocal :
          /\ sv = [tls |-> NewTicket, http |-> NewHttp, buf |-> <<>>, init |-> FALSE,
                   plainSpoken |-> FALSE, sealed |-> FALSE]
          /\ sv.tls = tl /\ sv.http = ht /\ sv.buf = <<>> /\ ~sv.init /\ ~sv.plainSpoken /\ ~sv.sealed
    <2>1. [tls |-> tl, http |-> ht, buf |-> <<>>, init |-> FALSE, plainSpoken |-> FALSE,
           sealed |-> FALSE] \in ServerLocal
        BY Nothing DEF ServerLocal
    <2> QED
        BY <1>1, <2>1
<1>4. NewTicketGlobal \in Globals
    BY DEF NewTicketGlobal, Globals, GlobalLocal, FewIds
<1>5. Functions
    <2>1. <<>> \in Stream /\ "open" \in Statuses
        BY Nothing DEF Statuses
    <2>2. /\ client = [c \in Conns |-> cl] /\ server = [c \in Conns |-> sv]
          /\ global = [c \in Conns |-> NewTicketGlobal]
        BY <1>2, <1>3 DEF Init
    <2> QED
        BY <1>4, <2>1, <2>2 DEF Init, Functions
<1>6. Given
    BY Bounds DEF Init, Given
<1>7. ASSUME NEW c \in Conns PROVE OkAt(c)
    <2>1. /\ client[c] = cl /\ server[c] = sv /\ global[c] = NewTicketGlobal
          /\ up[c] = <<>> /\ down[c] = <<>> /\ got[c] = <<>> /\ back[c] = <<>>
          /\ replied[c] = 0 /\ status[c] = "open"
        BY <1>2, <1>3 DEF Init
    <2>2. ivOf[c] \in Nat
        BY <1>6, PathAssumption DEF Given
    <2>3. Open(c, class, peer[c].speaks, ivOf[c], cl, sv, <<>>, <<>>, <<>>, <<>>, 0)
        BY <1>1, <1>2, <1>3, <2>2, FirstShapes
    <2>4. Typed(c, cl, sv, NewTicketGlobal, <<>>, <<>>, <<>>, 0, "open")
        <3>1. 0 \in 0..MaxReplies[c]
            BY Bounds
        <3>2. tl.status \in ClientStatus /\ tl.status \in ServerStatus
            BY <1>1 DEF ClientStatus, ServerStatus
        <3> QED
            BY <1>2, <1>3, <1>4, <3>1, <3>2, Nothing DEF Typed, Statuses
    <2>5. Delivered(cl, <<>>, <<>>, 0)
        <3>1. GotOk(<<>>)
            BY Nothing DEF GotOk
        <3>2. 0 \in 0..0 + 1 /\ Taking(<<>>, 0)
            BY DEF Taking
        <3>3. Len(<<>>) <= cl.units
            BY <1>2, Nothing
        <3> QED
            BY <3>1, <3>2, <3>3 DEF Delivered
    <2> QED
        BY <2>1, <2>3, <2>4, <2>5 DEF OkAt, ConnOk
<1> QED
    BY <1>5, <1>6, <1>7 DEF PathInv

LEMMA NextPath == PathInv /\ [Next]_vars => PathInv'
<1> SUFFICES ASSUME PathInv, [Next]_vars PROVE PathInv'
    OBVIOUS
<1>1. CASE UNCHANGED vars
    <2>1. /\ UNCHANGED <<plugin, compatible, method, peer, ivOf, client, server, global>>
          /\ UNCHANGED <<up, down, got, back, replied, status, cuts>>
        BY <1>1 DEF vars, conf, upward, downward
    <2>2. class' = class
        BY <2>1 DEF class
    <2>3. \A c \in Conns : OkAt(c)'
        BY <2>1, <2>2 DEF PathInv, OkAt
    <2> QED
        BY <2>1, <2>3 DEF PathInv, Given, Functions
<1>2. CASE Next
    BY <1>2, WritesKeep, ServerReadsKeep, ClientReadsKeep, RepliesKeep DEF Next
<1> QED
    BY <1>1, <1>2

-----------------------------------------------------------------------------
(* What the invariant says to the reader.                                  *)

LEMMA BackUnits ==
    ASSUME NEW bk, NEW n \in Nat, NEW b \in 0..n + 1, Taking(bk, b)
    PROVE  bk = Units(0, Len(bk)) /\ Len(bk) <= n
<1>1. PICK m \in Nat : m = IF b = 0 THEN 0 ELSE b - 1
    OBVIOUS
<1>2. m <= n
    BY <1>1
<1>3. bk = Units(0, m)
    <2>1. CASE b = 0
        <3>1. Units(0, 0) = <<>>
            BY DEF Units
        <3> QED
            BY <1>1, <2>1, <3>1 DEF Taking
    <2>2. CASE b # 0
        <3>1. PICK z \in Nat : z = 0
            OBVIOUS
        <3>2. Units(z, m) = Span(z, z + 1, z + m + 1)
            BY UnitsAre
        <3>3. z + 1 = 1 /\ z + m + 1 = b
            BY <1>1, <2>2, <3>1
        <3> QED
            BY <2>2, <3>1, <3>2, <3>3 DEF Taking
    <2> QED
        BY <2>1, <2>2
<1>4. Len(Units(0, m)) = m
    BY DEF Units
<1> QED
    BY <1>2, <1>3, <1>4

LEMMA PathIntact == PathInv => Intact
<1> SUFFICES ASSUME PathInv, NEW c \in Conns
             PROVE  /\ Len(got[c]) <= client[c].units
                    /\ \A i \in 1..Len(got[c]) :
                          got[c][i] \in {Mark("data", i)} \cup IF StrayHex THEN {Mark("bad", i)} ELSE {}
                    /\ \A i, j \in 1..Len(got[c]) : got[c][i].t = "bad" /\ got[c][j].t = "bad" => i = j
                    /\ back[c] = Units(0, Len(back[c])) /\ Len(back[c]) <= replied[c]
    BY DEF Intact
<1>1. Delivered(client[c], got[c], back[c], replied[c])
    BY DEF PathInv, OkAt, ConnOk
<1>2. replied[c] \in Nat
    BY DEF PathInv, Functions
<1>3. back[c] = Units(0, Len(back[c])) /\ Len(back[c]) <= replied[c]
    BY <1>1, <1>2, BackUnits DEF Delivered
<1> QED
    BY <1>1, <1>3 DEF Delivered, GotOk

LEMMA PathTypes == PathInv /\ IvInv => TypeOK
<1> SUFFICES ASSUME PathInv, IvInv PROVE TypeOK
    OBVIOUS
<1>1. ASSUME NEW c \in Conns
      PROVE  /\ client[c].tls.status \in {0, 1, 8} /\ server[c].tls.status \in {0, 2, 3, 8}
             /\ client[c].units \in {0, FirstWrite, MaxUnits} /\ replied[c] \in 0..MaxReplies[c]
             /\ up[c] \in Seq(AtomType) /\ down[c] \in Seq(AtomType)
             /\ got[c] \in Seq(AtomType) /\ back[c] \in Seq(AtomType)
             /\ server[c].buf \in Seq(AtomType)
             /\ Cardinality(global[c].ids) <= 1
             /\ status[c] \in {"open", "refused", "left", "repeated", "short", "noise", "noHeader",
                               "exit"}
    <2>1. Typed(c, client[c], server[c], global[c], up[c], down[c], back[c], replied[c], status[c])
        BY DEF PathInv, OkAt, ConnOk
    <2>2. Cardinality(global[c].ids) <= 1
        <3>1. FewIds(global[c].ids)
            BY <2>1 DEF Typed, Globals
        <3>2. ASSUME NEW S, FewIds(S) PROVE Cardinality(S) <= 1
            <4>1. CASE S = {}
                <5>1. Cardinality(S) = 0
                    BY <4>1, FS_EmptySet
                <5> QED
                    BY <5>1
            <4>2. ASSUME NEW x, S = {x} PROVE Cardinality(S) <= 1
                <5>1. Cardinality(S) = 1
                    BY <4>2, FS_Singleton
                <5> QED
                    BY <5>1
            <4> QED
                BY <3>2, <4>1, <4>2 DEF FewIds
        <3> QED
            BY <3>1, <3>2
    <2>3. got[c] \in Stream
        BY DEF PathInv, Functions
    <2> QED
        BY <2>1, <2>2, <2>3 DEF Typed, ClientStatus, ServerStatus, Statuses, Stream, ServerLocal
<1>2. Cardinality(CacheKeys(ivCache)) < IvCapacity
    BY DEF IvInv, CacheOK
<1> QED
    BY <1>1, <1>2 DEF TypeOK, PathInv, Given

(***************************************************************************)
(* The type invariant of the path: the statuses of the two plug-in ends,   *)
(* the buffers of TicketAuth and what is on its way keep their shapes, and *)
(* iv_cache stays below its capacity, through accept_cb, server_recv_cb    *)
(* and remote_recv_cb.                                                     *)
(***************************************************************************)
THEOREM PathTypesHold == Spec => []TypeOK
<1>1. PathInv /\ IvInv /\ [Next]_vars => (PathInv /\ IvInv)'
    BY NextPath, NextIv
<1>2. Init => PathInv /\ IvInv
    BY InitPath, InitIv
<1> QED
    BY <1>1, <1>2, PathTypes, PTL DEF Spec

(***************************************************************************)
(* What server_recv_cb hands to the relay is what the client wrote, and    *)
(* what reaches the client is what remote_recv_cb sent, in order and once  *)
(* each, through no plug-in, http_simple or tls1.2_ticket_auth, wherever   *)
(* TCP cuts the stream; only the one unit that Intact names may be wrong.  *)
(***************************************************************************)
THEOREM UnitsIntact == Spec => []Intact
<1> QED
    BY InitPath, NextPath, PathIntact, PTL DEF Spec

-----------------------------------------------------------------------------
(* Why a first read is good: what stands in the way of it is a fault of its *)
(* own client or a flight that was cut.                                     *)

Faulty(c, p) ==
    \/ ~InOnePiece(c, p) \/ ~peer[c].key
    \/ class = "tls" /\ peer[c].late /\ peer[c].speaks
    \/ class = "http" /\ peer[c].host # "listed" /\ peer[c].speaks

\* a read that has all of its flight, and is good or is understood all the same
Uncut(c, p, d) == InOnePiece(c, p) /\ (Faulty(c, p) => d.ok /\ ~d.back)

\* Only a client that does not speak the plug-in is turned away, and what is
\* decrypted begins with the IV, which the end of a URL may have spoilt, and has
\* more behind it.
IvFirst(x) ==
    Len(x) \in Nat \ {0, 1} /\ (x[1].t = "iv" \/ (class = "http" /\ StrayHex /\ x[1].t = "bad"))
StartsWell(c, d, p) ==
    /\ ~d.ok => class # "none" /\ ~peer[c].speaks
    /\ ~d.back => IvFirst(OutOf(d, p))

\* what a read of a stranger's, or with no plug-in, begins with
LEMMA PlainStart ==
    ASSUME NEW v \in Nat, NEW p \in Stream, NEW q \in Stream, p # <<>>, NEW w \in Nat,
           p \o q = Span(v, 0, w)
    PROVE  p[1].t = "iv"
<1>1. PICK z \in Nat : z = 0 /\ z <= w
    OBVIOUS
<1>2. SpanParts(v, z, w, p, q)
    BY <1>1, SpanSplit
<1>3. PICK m \in Nat : z <= m /\ p = Span(v, z, m)
    BY <1>2 DEF SpanParts
<1> QED
    BY <1>1, <1>3, PlainFirst

LEMMA FirstNone ==
    ASSUME NEW c, NEW v, NEW cl, NEW sv, NEW p, NEW q, NEW r, NEW w,
           Reads(c, v, cl, sv, p, q, r, w), ~sv.init, Len(p) > 2,
           NEW d \in Deobfuscated(c, p), class = "none"
    PROVE  StartsWell(c, d, p)
<1>1. /\ v \in Nat /\ p \in Stream /\ q \in Stream /\ p # <<>> /\ w \in Nat /\ r = 0
    BY DEF Reads
<1>2. d.out = p /\ d.ok /\ OutOf(d, p) = p
    BY DEF Deobfuscated, OutOf
<1>3. p \o q = Span(v, 0, w)
    BY DEF Reads, Opening, PlainOpening
<1>4. p[1].t = "iv"
    BY <1>1, <1>3, PlainStart
<1>5. Len(p) \in Nat
    BY <1>1, Nothing
<1>6. Len(p) \in Nat \ {0, 1}
    <2>1. PICK a \in Nat : a = Len(p)
        BY <1>5
    <2>2. a > 2
        BY <2>1
    <2> QED
        BY <2>1, <2>2
<1> QED
    BY <1>2, <1>4, <1>6 DEF StartsWell, IvFirst

\* A client that does not speak the plug-in is not understood and let through.
LEMMA FirstStranger ==
    ASSUME NEW c, NEW v, NEW cl, NEW sv, NEW p, NEW q, NEW r, NEW w,
           Reads(c, v, cl, sv, p, q, r, w), ~sv.init, Len(p) > 2,
           NEW d \in Deobfuscated(c, p), class # "none", ~peer[c].speaks
    PROVE  StartsWell(c, d, p)
<1>1. /\ v \in Nat /\ p \in Stream /\ q \in Stream /\ p # <<>> /\ w \in Nat /\ r = 0
      /\ sv = server[c]
    BY DEF Reads
<1>2. p \o q = Span(v, 0, w)
    BY DEF Reads, Opening, PlainOpening
<1>3. p[1].t = "iv"
    BY <1>1, <1>2, PlainStart
<1>4. ~d.ok
    <2>1. CASE class = "http"
        <3>1. PICK e \in HttpServerDecode(sv.http, p, peer[c]) : d.ok = e.ok
            BY <1>1, <2>1 DEF Deobfuscated
        <3>2. sv.http.recvBuf = <<>> /\ ~sv.http.recvHeader
            BY <2>1 DEF Reads, Opening, PlainOpening
        <3>3. sv.http.recvBuf \o p = p
            BY <1>1, <3>2, Nothing
        <3>4. e = HttpAnswer(PassThrough(sv.http), <<>>, FALSE)
            BY <1>3, <3>2, <3>3 DEF HttpServerDecode
        <3> QED
            BY <3>1, <3>4 DEF HttpAnswer
    <2>2. CASE class = "tls"
        <3>1. d.ok = TicketServerDecode(sv.tls, global[Global(c)], p, peer[c]).ok
            BY <1>1, <2>2 DEF Deobfuscated
        <3>2. sv.tls.status = 0
            BY <2>2 DEF Reads, Opening, PlainOpening
        <3>3. TicketServerDecode(sv.tls, global[Global(c)], p, peer[c])
                = Refused([sv.tls EXCEPT !.status = 2], global[Global(c)])
            BY <1>3, <3>2 DEF TicketServerDecode, Hello
        <3> QED
            BY <3>1, <3>3 DEF Refused
    <2> QED
        BY <2>1, <2>2, ClassType
<1>5. OutOf(d, p) = p
    BY <1>4 DEF OutOf
<1>6. Len(p) \in Nat
    BY <1>1, Nothing
<1> QED
    BY <1>3, <1>5, <1>6 DEF StartsWell, IvFirst

LEMMA PieceHttp ==
    ASSUME NEW c, NEW p, NEW d, Uncut(c, p, d), ~server[c].init, class = "http", peer[c].speaks
    PROVE  EndAt(p) # 0 /\ Len(p) > 5 /\ (d.ok \/ peer[c].host = "listed")
BY DEF Uncut, Faulty, InOnePiece, IvLen

\* A request read with its head and more than the IV, for a host that is let in.
LEMMA FirstHttp ==
    ASSUME NEW c, NEW v, NEW cl, NEW sv, NEW p, NEW q, NEW r, NEW w,
           Reads(c, v, cl, sv, p, q, r, w), ~sv.init,
           NEW d \in Deobfuscated(c, p), Uncut(c, p, d), class = "http", peer[c].speaks
    PROVE  StartsWell(c, d, p)
<1>1. /\ v \in Nat /\ p \in Stream /\ q \in Stream /\ p # <<>> /\ r = 0 /\ w \in Nat
      /\ sv \in ServerLocal /\ sv = server[c] /\ HttpOpening(v, cl, sv, p \o q, w)
    BY DEF Reads, Opening
<1>2. EndAt(p) # 0 /\ Len(p) > 5 /\ (d.ok \/ peer[c].host = "listed")
    BY <1>1, PieceHttp
<1>3. PICK e \in HttpServerDecode(sv.http, p, peer[c]) : d.out = e.out /\ d.ok = e.ok
    BY <1>1 DEF Deobfuscated
<1>4. sv.http.recvBuf = <<>> /\ ~sv.http.recvHeader
    BY <1>1 DEF HttpOpening
<1>5. p \o q # <<>>
    BY <1>1, NothingJoined
<1>6. PICK n \in 1..w : IsHeaded(v, n, w, p \o q)
    BY <1>1, <1>5 DEF HttpOpening
<1>7. n \in Nat \ {0} /\ n <= w /\ n \in Nat
    BY <1>1
<1>8. HeadStart(v, n, p)
    BY <1>1, <1>6, <1>7, HeadedPrefix
<1>9. Len(p) \in Nat /\ 1 \in 1..Len(p)
    BY <1>1, <1>2, Nothing
<1>10. p[1].t = "get"
    <2>1. p[1] = HeadedAtom(v, n, 1)
        BY <1>8, <1>9 DEF HeadStart
    <2>2. HeadedAtom(v, n, 1) = Mark("get", 0)
        BY DEF HeadedAtom
    <2> QED
        BY <2>1, <2>2, HttpMarks
<1>11. sv.http.recvBuf \o p = p
    BY <1>1, <1>4, Nothing
<1>12. Len(p) >= n + 4 /\ EndAt(p) = n + 4
    <2>1. Len(p) < n + 4 => EndAt(p) = 0
        BY <1>1, <1>7, <1>8, EndAtHead
    <2>2. Len(p) >= n + 4 => EndAt(p) = n + 4
        BY <1>1, <1>7, <1>8, EndAtHead
    <2> QED
        BY <1>2, <1>7, <1>9, <2>1, <2>2
<1>13. PICK l2 : e \in FullHead(l2, p, p, peer[c])
    BY <1>2, <1>4, <1>10, <1>11 DEF HttpServerDecode
<1>14. PICK url \in UrlOf(p) :
           \E g : e = HttpAnswer(g, url \o SubSeq(p, EndAt(p) + 1, Len(p)), url # <<>>)
    <2>1. HostRead(peer[c].host) = "listed" \/ e # HttpAnswer(PassThrough(l2), <<>>, FALSE)
        BY <1>2, <1>3 DEF HostRead, HttpAnswer
    <2> QED
        BY <1>13, <2>1 DEF FullHead
<1>15. IsOut(v, n, url)
    BY <1>1, <1>7, <1>8, <1>12, OutUrl
<1>16. url \in Stream /\ Len(url) = n /\ url # <<>>
    BY <1>7, <1>15, Nothing DEF IsOut
<1>17. PICK y \in Stream : y = SubSeq(p, EndAt(p) + 1, Len(p)) /\ Len(y) = Len(p) - (n + 4)
    <2>1. PICK k \in 0..Len(p) : k = n + 4
        BY <1>7, <1>9, <1>12
    <2>2. SubSeq(p, k + 1, Len(p)) \in Stream /\ Len(SubSeq(p, k + 1, Len(p))) = Len(p) - k
        BY <1>1, Cut
    <2> QED
        BY <1>12, <2>1, <2>2
<1>18. OutOf(d, p) = url \o y /\ d.ok = TRUE
    <2>1. PICK g : e = HttpAnswer(g, url \o SubSeq(p, EndAt(p) + 1, Len(p)), url # <<>>)
        BY <1>14
    <2>2. e.out = url \o y /\ e.ok = TRUE
        BY <1>16, <1>17, <2>1 DEF HttpAnswer
    <2> QED
        BY <1>3, <2>2 DEF OutOf
<1>19. /\ Len(url \o y) = Len(url) + Len(y)
       /\ \A i \in 1..Len(url) : (url \o y)[i] = url[i]
    BY <1>16, <1>17, Joined
<1>20. Len(url \o y) \in Nat \ {0, 1}
    <2>1. Len(url \o y) = n + (Len(p) - (n + 4))
        BY <1>16, <1>17, <1>19
    <2> QED
        BY <1>2, <1>7, <1>9, <2>1
<1>21. (url \o y)[1] = url[1]
    BY <1>7, <1>16, <1>19
<1>22. url[1] = PlainAtom(v, 1) \/ (StrayHex /\ url[1] = Spoilt(v, 1))
    BY <1>7, <1>15 DEF IsOut
<1>23. PlainAtom(v, 1).t = "iv" /\ Spoilt(v, 1).t = "bad"
    BY <1>1, PlainType, SpoiltType
<1> QED
    BY <1>18, <1>20, <1>21, <1>22, <1>23 DEF StartsWell, IvFirst

\* What the handshake knows besides PathInv: a server that has said nothing has
\* seen no other hello, and one that has replied knows the id of its client; the
\* first record that waits, or follows the finish, is the client's first write.
Learnt(c, sv, gl) ==
    class = "tls" => /\ sv.tls.status = 0 => gl.hellos = {}
                     /\ sv.tls.status = 3 => gl.ids = {c}

LeadsWith(x) == x # <<>> /\ x[1] = HeadAtom(FirstWrite + 1)
Followed(in) == Len(in) > FinishLength /\ in[FinishLength + 1] = HeadAtom(FirstWrite + 1)
Queued(c, cl, sv, in) ==
    class = "tls" /\ peer[c].speaks =>
        /\ cl.tls.status = 1 => LeadsWith(cl.tls.sendBuf)
        /\ cl.tls.status = 8 /\ sv.tls.status = 3 => Followed(in)

LEMMA PieceHello ==
    ASSUME NEW c, NEW p, ~Faulty(c, p), ~server[c].init, class = "tls", peer[c].speaks,
           server[c].tls.status = 0
    PROVE  Len(p) = HelloLength /\ peer[c].key /\ ~peer[c].late
BY DEF Faulty, InOnePiece

LEMMA PieceFinish ==
    ASSUME NEW c, NEW p, InOnePiece(c, p), ~server[c].init, class = "tls", peer[c].speaks,
           server[c].tls.status = 3
    PROVE  Len(p) >= FinishLength + 1 /\ Len(p) >= FinishLength + 1 + p[FinishLength + 1].v
BY DEF InOnePiece

\* a hello that is understood is answered, and a finish is the work of the key
LEMMA Understood ==
    ASSUME NEW l, NEW g, NEW p, NEW r
    PROVE  /\ Hello(l, g, p, r).ok => Hello(l, g, p, r).back
           /\ Finish(l, g, p, r).ok /\ g.ids # {} => r.key
BY DEF Hello, Finish, Refused, Decoded, Signed

\* the hello, read as it was sent
LEMMA FirstHello ==
    ASSUME NEW c \in Conns, NEW p \in Stream, NEW q \in Stream, p # <<>>,
           p \o q = Flight("hello", HelloLength, c), ~Faulty(c, p), ~server[c].init,
           class = "tls", peer[c].speaks, NEW l, l = server[c].tls, l.status = 0,
           NEW g, g.hellos = {}
    PROVE  /\ TicketServerDecode(l, g, p, peer[c]).ok
           /\ TicketServerDecode(l, g, p, peer[c]).back
<1>1. Len(p) = HelloLength /\ peer[c].key /\ ~peer[c].late
    BY PieceHello
<1>2. HelloLength \in Nat \ {0}
    BY TicketAssumption
<1>3. PICK f \in Stream :
          /\ f = Flight("hello", HelloLength, c) /\ Len(f) = HelloLength
          /\ f[1].t = "hello" /\ f[1].c = c
    BY <1>2, FlightType
<1>4. p = f
    <2>1. PICK z \in Stream : z = <<>>
        BY Nothing
    <2>2. p \o q = f \o z
        BY <1>3, <2>1, Nothing
    <2>3. Len(f) = Len(p)
        BY <1>1, <1>3
    <2> QED
        BY <2>2, <2>3, SameEnds
<1>5. TicketServerDecode(l, g, p, peer[c]) = Hello(l, g, p, peer[c])
    BY DEF TicketServerDecode
<1>6. PICK met : met = [g EXCEPT !.ids = {c}]
    OBVIOUS
<1>7. ~HaveSame(g, c) /\ Signed(p[1], c, peer[c].key)
    BY <1>1, <1>3, <1>4 DEF HaveSame, Signed
<1>8. Hello(l, g, p, peer[c]) = Decoded([l EXCEPT !.status = 2], ListAdded(met, c), <<>>, TRUE)
    BY <1>1, <1>3, <1>4, <1>6, <1>7 DEF Hello
<1> QED
    BY <1>5, <1>8 DEF Decoded

\* the first record behind the finish, which is all there
WholeRecord(v, x, q, n) ==
    /\ Unpack(x).ok
    /\ \E y \in Stream : Unpack(x).out = Span(v, 0, n) \o y

LEMMA FirstRecord ==
    ASSUME NEW v \in Nat, NEW x \in Stream, NEW q \in Stream, NEW w \in Nat,
           Framed(v, x \o q, 0, w), NEW n \in Nat, n > 0,
           x # <<>>, x[1].v = n, Len(x) >= n + 1
    PROVE  WholeRecord(v, x, q, n)
<1>1. x \o q # <<>> /\ (x \o q)[1] = x[1]
    BY FirstOfJoined
<1>2. PICK z \in Nat : z = 0
    OBVIOUS
<1>3. PICK xq \in Stream : xq = x \o q /\ xq # <<>> /\ First(v, xq, z, w)
    <2>1. x \o q \in Stream
        BY Joined
    <2>2. First(v, x \o q, z, w)
        BY <1>2, FramedFirst
    <2> QED
        BY <1>1, <2>1, <2>2
<1>4. PICK y \in Stream, m \in Nat :
          z <= m /\ m <= w /\ xq = Behind(v, y, z, m) /\ Framed(v, y, m, w)
    BY <1>3 DEF First
<1>5. PICK s \in Stream : /\ s = Span(v, z, m) /\ Len(s) = m
    <2>1. Span(v, z, m) \in Stream /\ Len(Span(v, z, m)) = m - z
        BY <1>4, SpanType
    <2> QED
        BY <1>2, <2>1
<1>6. PICK rc \in Stream :
          /\ rc = Record(s) /\ Len(rc) = m + 1 /\ rc # <<>> /\ rc[1].v = m
          /\ x \o q = rc \o y
    <2>1. Record(s) \in Stream /\ Len(Record(s)) = m + 1 /\ Record(s)[1].v = m
        BY <1>5, RecordType
    <2>2. Record(s) # <<>>
        BY <2>1, Nothing
    <2> QED
        BY <1>3, <1>4, <1>5, <2>1, <2>2 DEF Behind
<1>7. m = n
    BY <1>1, <1>6, FirstOfJoined
<1>8. Within(rc, x)
    BY <1>6, <1>7, Nothing DEF Within
<1>9. PICK u \in Stream : x = rc \o u /\ y = u \o q
    <2>1. Overlap(x, q, rc, y)
        BY <1>6, <1>8, Levi
    <2> QED
        BY <2>1 DEF Overlap
<1>10. Unpack(u).ok /\ Unpack(u).out \in Stream
    <2>1. Peels(v, u, q, m, w)
        <3>1. Framed(v, u \o q, m, w)
            BY <1>4, <1>9
        <3> QED
            BY <3>1, UnpackFramed
    <2>2. PICK e \in Nat : m <= e /\ Unpack(u).out = Span(v, m, e)
        BY <2>1 DEF Peels
    <2> QED
        BY <2>1, <2>2, SpanType DEF Peels
<1>11. Unpack(x) = Unpacked(TRUE, Unpack(u).rest, s \o Unpack(u).out)
    <2>1. Len(Record(s) \o u) > 1
        <3>1. Len(rc \o u) >= n + 1 /\ Len(rc \o u) \in Nat
            BY <1>9, Nothing
        <3> QED
            BY <1>6, <3>1
    <2>2. Unpack(Record(s) \o u) = Unpacked(TRUE, Unpack(u).rest, s \o Unpack(u).out)
        BY <1>10, <2>1, UnpackRecord
    <2> QED
        BY <1>6, <1>9, <2>2
<1>12. Unpack(x).ok /\ Unpack(x).out = Span(v, 0, n) \o Unpack(u).out
    BY <1>2, <1>5, <1>7, <1>11 DEF Unpacked
<1> QED
    BY <1>10, <1>12 DEF WholeRecord

\* the finish, read with the first record behind it
FinishRead(c, v, cl, sv, p, q, w, g) ==
    /\ c \in Conns /\ v \in Nat /\ p \in Stream /\ q \in Stream /\ p # <<>> /\ w \in Nat
    /\ sv \in ServerLocal /\ sv = server[c] /\ ~sv.init
    /\ TicketFinish(v, c, cl, sv, p \o q, w) /\ Followed(p \o q)
    /\ InOnePiece(c, p) /\ peer[c].key
    /\ class = "tls" /\ peer[c].speaks /\ g.ids = {c}
FinishGood(e) == e.ok /\ ~e.back /\ Len(e.out) \in Nat \ {0, 1} /\ e.out[1].t = "iv"

LEMMA FirstFinish ==
    ASSUME NEW c, NEW v, NEW cl, NEW sv, NEW p, NEW q, NEW w, NEW g,
           FinishRead(c, v, cl, sv, p, q, w, g)
    PROVE  FinishGood(TicketServerDecode(sv.tls, g, p, peer[c]))
<1> USE DEF FinishRead
<1>0. PICK e : e = TicketServerDecode(sv.tls, g, p, peer[c])
    OBVIOUS
<1>1. sv.tls.status = 3 /\ w > 0 /\ sv.tls \in TicketLocal
    BY DEF TicketFinish, ServerLocal
<1>2. PICK k \in Nat : k = FinishLength /\ k > 0 /\ FinishLength \in Nat \ {0}
    BY TicketAssumption
<1>3. PICK f \in Stream, x \in Stream :
          /\ f = Flight("finish", FinishLength, c) /\ Len(f) = k
          /\ p \o q = f \o x /\ Framed(v, x, 0, w)
    <2>1. PICK f \in Stream : f = Flight("finish", FinishLength, c) /\ Len(f) = k
        BY <1>2, FlightType
    <2>2. PICK x \in Stream :
              p \o q = Flight("finish", FinishLength, c) \o x /\ Framed(v, x, 0, w)
        BY DEF TicketFinish
    <2> QED
        BY <2>1, <2>2
<1>4. /\ Len(p) \in Nat /\ Len(p) >= k + 1 /\ Len(p) >= k + 1 + p[k + 1].v
      /\ peer[c].key
    BY <1>1, <1>2, PieceFinish, Nothing
<1>5. PICK y \in Stream : /\ p = f \o y /\ x = y \o q /\ y = SubSeq(p, k + 1, Len(p))
    <2>1. Within(f, p)
        BY <1>2, <1>3, <1>4 DEF Within
    <2>2. Overlap(p, q, f, x)
        BY <1>3, <2>1, Levi
    <2> QED
        BY <1>3, <2>2 DEF Overlap
<1>6. /\ Len(p) = k + Len(y) /\ Len(y) \in Nat
      /\ \A i \in 1..Len(y) : p[k + i] = y[i]
    <2>1. /\ Len(f \o y) = Len(f) + Len(y) /\ Len(y) \in Nat
          /\ \A i \in 1..Len(y) : (f \o y)[Len(f) + i] = y[i]
        BY Joined
    <2> QED
        BY <1>3, <1>5, <2>1
<1>7. y # <<>> /\ p[k + 1] = y[1]
    <2>1. Len(y) > 0 /\ 1 \in 1..Len(y)
        BY <1>2, <1>4, <1>6
    <2> QED
        BY <1>6, <2>1, Nothing
<1>8. (p \o q)[k + 1] = p[k + 1]
    <2>1. \A i \in 1..Len(p) : (p \o q)[i] = p[i]
        BY Joined
    <2> QED
        BY <1>2, <1>4, <2>1
<1>9. PICK n \in Nat : n = FirstWrite + 1 /\ n > 2 /\ y[1].v = n
    <2>1. y[1] = HeadAtom(FirstWrite + 1)
        BY <1>2, <1>7, <1>8 DEF Followed
    <2> QED
        BY <2>1, Bounds DEF HeadAtom
<1>10. Len(y) >= n + 1
    BY <1>2, <1>4, <1>6, <1>7, <1>9
<1>11. WholeRecord(v, y, q, n)
    <2>1. Framed(v, y \o q, 0, w)
        BY <1>3, <1>5
    <2> QED
        BY <1>7, <1>9, <1>10, <2>1, FirstRecord
<1>12. PICK s \in Stream, z \in Stream :
           /\ Unpack(y).ok /\ Unpack(y).out = s \o z
           /\ Len(s) = n /\ s[1].t = "iv"
    <2>1. PICK z \in Stream : Unpack(y).ok /\ Unpack(y).out = Span(v, 0, n) \o z
        BY <1>11 DEF WholeRecord
    <2>2. /\ Span(v, 0, n) \in Stream /\ Len(Span(v, 0, n)) = n
          /\ \A i \in 1..n : Span(v, 0, n)[i] = PlainAtom(v, i)
        BY OutSpanAtoms
    <2>3. Span(v, 0, n)[1].t = "iv"
        <3>1. Span(v, 0, n)[1] = PlainAtom(v, 1)
            BY <1>9, <2>2
        <3>2. v \in Nat
            OBVIOUS
        <3>3. PlainAtom(v, 1).t = "iv"
            BY <3>2, PlainType
        <3> QED
            BY <3>1, <3>3
    <2> QED
        BY <2>1, <2>2, <2>3
<1>13. /\ Len(s \o z) = n + Len(z) /\ Len(z) \in Nat
       /\ (s \o z)[1] = s[1]
    <2>1. /\ Len(s \o z) = Len(s) + Len(z) /\ Len(z) \in Nat
          /\ \A i \in 1..Len(s) : (s \o z)[i] = s[i]
        BY Joined
    <2> QED
        BY <1>9, <1>12, <2>1
<1>14. Len(s \o z) > 1
    BY <1>9, <1>13
<1>15. p[1].t = "finish" /\ p[1].c = c
    <2>1. LeadsOff("finish", FinishLength, c, p, q, x)
        BY <1>2, <1>3 DEF LeadsOff
    <2> QED
        BY <2>1, FlightFirst
<1>16. PICK l : /\ l = [sv.tls EXCEPT !.status = 8, !.recvBuf = y] /\ l.recvBuf = y
    <2>1. [sv.tls EXCEPT !.status = 8, !.recvBuf = y].recvBuf = y
        BY <1>1 DEF TicketLocal
    <2> QED
        BY <2>1
<1>17. e = Reassembled(l, g, <<>>)
    <2>1. Signed(p[1], c, peer[c].key)
        BY <1>4, <1>15 DEF Signed
    <2>2. e = Finish(sv.tls, g, p, peer[c])
        BY <1>0, <1>1 DEF TicketServerDecode
    <2>3. Len(p) >= FinishLength
        BY <1>2, <1>4
    <2> QED
        BY <1>2, <1>5, <1>15, <1>16, <2>1, <2>2, <2>3 DEF Finish
<1>18. l.recvBuf \o <<>> = y
    BY <1>16, Nothing
<1>19. e = Decoded([l EXCEPT !.recvBuf = Unpack(y).rest], g, Unpack(y).out, FALSE)
    BY <1>12, <1>17, <1>18 DEF Reassembled
<1> QED
    BY <1>0, <1>12, <1>13, <1>14, <1>19 DEF Decoded, FinishGood

LEMMA FirstTls ==
    ASSUME NEW c, NEW v, NEW cl, NEW sv, NEW p, NEW q, NEW r, NEW w,
           Reads(c, v, cl, sv, p, q, r, w), ~sv.init,
           Learnt(c, sv, global[c]), Queued(c, cl, sv, p \o q),
           NEW d \in Deobfuscated(c, p), Uncut(c, p, d), class = "tls", peer[c].speaks
    PROVE  StartsWell(c, d, p)
<1>1. /\ c \in Conns /\ v \in Nat /\ p \in Stream /\ q \in Stream /\ p # <<>> /\ r = 0 /\ w \in Nat
      /\ sv \in ServerLocal /\ sv = server[c] /\ TicketOpening(v, c, cl, sv, p \o q, w)
    BY DEF Reads, Opening
<1>2. PICK e : /\ e = TicketServerDecode(sv.tls, global[c], p, peer[c])
               /\ d.ok = e.ok /\ d.back = e.back /\ d.out = e.out
    BY <1>1 DEF Deobfuscated, Global
<1>3. p \o q # <<>>
    BY <1>1, NothingJoined
<1>4. CASE sv.tls.status = 0 /\ p \o q = Flight("hello", HelloLength, c)
    <2>1. global[c].hellos = {}
        BY <1>4 DEF Learnt
    <2>2. PICK l, g : l = sv.tls /\ g = global[c]
        OBVIOUS
    <2>0. ~Faulty(c, p)
        <3>1. e = Hello(l, g, p, peer[c])
            BY <1>2, <1>4, <2>2 DEF TicketServerDecode
        <3> QED
            BY <1>2, <3>1, Understood DEF Uncut
    <2>3. TicketServerDecode(l, g, p, peer[c]).ok /\ TicketServerDecode(l, g, p, peer[c]).back
        BY <1>1, <1>4, <2>0, <2>1, <2>2, FirstHello
    <2>4. d.ok /\ d.back
        BY <1>2, <2>2, <2>3
    <2> QED
        BY <2>4 DEF StartsWell
<1>5. CASE TicketFinish(v, c, cl, sv, p \o q, w)
    <2>1. global[c].ids = {c} /\ Followed(p \o q)
        BY <1>5 DEF Learnt, Queued, TicketFinish
    <2>0. InOnePiece(c, p) /\ peer[c].key
        <3>1. e = Finish(sv.tls, global[c], p, peer[c])
            BY <1>2, <1>5 DEF TicketFinish, TicketServerDecode
        <3>2. e.ok => peer[c].key
            BY <2>1, <3>1, Understood
        <3> QED
            BY <1>2, <3>2 DEF Uncut, Faulty
    <2>2. FinishRead(c, v, cl, sv, p, q, w, global[c])
        BY <1>1, <1>5, <2>0, <2>1 DEF FinishRead
    <2>3. FinishGood(e)
        BY <1>2, <2>2, FirstFinish
    <2> QED
        BY <1>2, <2>3 DEF StartsWell, IvFirst, OutOf, FinishGood
<1> QED
    BY <1>1, <1>3, <1>4, <1>5 DEF TicketOpening, TicketQuiet, TicketHello

\* A first read that is not cut and is good starts well.
LEMMA FirstReads ==
    ASSUME NEW c, NEW v, NEW cl, NEW sv, NEW p, NEW q, NEW r, NEW w,
           Reads(c, v, cl, sv, p, q, r, w), ~sv.init, Len(p) > 2,
           Learnt(c, sv, global[c]), Queued(c, cl, sv, p \o q),
           NEW d \in Deobfuscated(c, p), Uncut(c, p, d)
    PROVE  StartsWell(c, d, p)
BY ClassType, FirstNone, FirstStranger, FirstHttp, FirstTls

\* Faulty or not, what is decrypted first has no IV but the client's in front.
OwnIv(v, out) == out = <<>> \/ out[1].t \notin {"iv", "bad"} \/ out[1].v = v

LEMMA FirstIv ==
    ASSUME NEW k, NEW speaks, NEW v \in Nat, NEW c, NEW cl, NEW sv, NEW d, NEW p, NEW q, NEW r, NEW w,
           Outcome(k, speaks, v, c, cl, sv, d, p, q, r, w), ~sv.init, ~d.back
    PROVE  OwnIv(v, OutOf(d, p))
<1>1. PICK x : x = OutOf(d, p)
    OBVIOUS
<1>2. CASE Passes(k, speaks, v, cl, sv, d, p, q, r, w)
    <2>1. PICK m \in Nat : IsOut(v, m, x)
        BY <1>1, <1>2 DEF Passes
    <2>2. x \in Stream /\ Len(x) = m
        BY <2>1 DEF IsOut
    <2>3. CASE x # <<>>
        <3>1. 1 \in 1..m
            BY <2>2, <2>3, Nothing
        <3>2. x[1] = PlainAtom(v, 1) \/ x[1] = Spoilt(v, 1)
            BY <2>1, <3>1 DEF IsOut
        <3>3. PlainAtom(v, 1).v = v /\ Spoilt(v, 1).v = v
            BY DEF PlainAtom, Spoilt, Mark
        <3> QED
            BY <1>1, <3>2, <3>3 DEF OwnIv
    <2> QED
        BY <1>1, <2>3 DEF OwnIv
<1>3. CASE Fails(sv, d, p)
    BY <1>3 DEF Fails, OwnIv
<1> QED
    BY <1>2, <1>3 DEF Outcome, Greets

-----------------------------------------------------------------------------
(* The handshake as its two ends see it, for the values of one connection.  *)

\* A flight of the server's that was read in one piece leaves nothing behind.
NoReplyFirst(x) == x = <<>> \/ x[1].t # "reply"
Whole(c, cl, dn, ct) ==
    class = "tls" /\ peer[c].speaks /\ ~ct =>
        /\ cl.tls.status = 1 => dn = <<>> \/ dn = Flight("reply", ReplyLength, c)
        /\ cl.tls.status = 8 => NoReplyFirst(cl.tls.recvBuf \o dn)

Shaken(c, cl, sv, gl, in, dn, ct) ==
    Learnt(c, sv, gl) /\ Queued(c, cl, sv, in) /\ Whole(c, cl, dn, ct)

LEMMA FramedNoReply ==
    ASSUME NEW v \in Nat, NEW x, NEW a, NEW b, Framed(v, x, a, b)
    PROVE  NoReplyFirst(x)
<1>1. First(v, x, a, b)
    BY FramedFirst
<1>2. CASE x = <<>>
    BY <1>2 DEF NoReplyFirst
<1>3. ASSUME NEW y \in Stream, NEW m \in Nat, a <= m, x = Behind(v, y, a, m)
      PROVE  NoReplyFirst(x)
    <2>1. a \in Nat
        BY FramedType
    <2>2. PICK s \in Stream : s = Span(v, a, m)
        BY <1>3, <2>1, SpanType
    <2>3. PICK rc \in Stream : rc = Record(s) /\ rc # <<>> /\ rc[1].t = "head"
        <3>1. Record(s) \in Stream /\ Len(s) \in Nat /\ Len(Record(s)) = Len(s) + 1
              /\ Record(s)[1].t = "head"
            BY RecordType
        <3>2. Len(Record(s)) # 0
            BY <3>1
        <3> QED
            BY <3>1, <3>2, Nothing
    <2>4. x = rc \o y
        BY <1>3, <2>2, <2>3 DEF Behind
    <2>5. x[1] = rc[1]
        BY <2>3, <2>4, FirstOfJoined
    <2> QED
        BY <2>3, <2>5 DEF NoReplyFirst
<1> QED
    BY <1>1, <1>2, <1>3 DEF First

\* Once a connection is decrypted its handshake is through.
LEMMA ShakenOver ==
    ASSUME NEW c, NEW v, NEW cl, NEW sv, NEW x, NEW g, NEW gl, NEW in,
           UpShape(class, peer[c].speaks, v, c, cl, sv, x, g), sv.init
    PROVE  Learnt(c, sv, gl) /\ Queued(c, cl, sv, in)
<1>1. Ongoing(class, peer[c].speaks, v, cl, sv, x, Handed(sv, g), Written(cl))
    BY DEF UpShape
<1>2. class = "tls" /\ peer[c].speaks => cl.tls.status = 8 /\ sv.tls.status = 8
    BY <1>1 DEF Ongoing
<1>3. class = "tls" /\ ~peer[c].speaks => sv.tls.status = 2
    BY <1>1 DEF Ongoing
<1> QED
    BY <1>2, <1>3 DEF Learnt, Queued

LEMMA FollowedMore ==
    ASSUME NEW in \in Stream, NEW out \in Stream, Followed(in)
    PROVE  Followed(in \o out)
<1>1. FinishLength \in Nat \ {0}
    BY TicketAssumption
<1>2. /\ Len(in) \in Nat /\ Len(out) \in Nat /\ Len(in \o out) = Len(in) + Len(out)
      /\ \A i \in 1..Len(in) : (in \o out)[i] = in[i]
    BY Joined
<1>3. Len(in) > FinishLength /\ in[FinishLength + 1] = HeadAtom(FirstWrite + 1)
    BY DEF Followed
<1>4. FinishLength + 1 \in 1..Len(in)
    BY <1>1, <1>2, <1>3
<1>5. Len(in \o out) > FinishLength
    BY <1>1, <1>2, <1>3
<1> QED
    BY <1>2, <1>3, <1>4, <1>5 DEF Followed

\* A write of the client: its first record is the one that leads.
LEMMA WriteShaken ==
    ASSUME NEW c, NEW v \in Nat, NEW cl, NEW sv, NEW gl, NEW x, NEW dn, NEW g, NEW bk, NEW n, NEW ct,
           ConnOk(c, class, peer[c].speaks, v, cl, sv, gl, x, dn, g, bk, n, "open"),
           Shaken(c, cl, sv, gl, sv.buf \o x, dn, ct),
           cl = client[c], cl.units < MaxUnits,
           NEW e \in Obfuscated(c, Data(v, cl.units)), e.out \in Stream,
           NEW kl, kl = [e.client EXCEPT !.units = Next1(cl.units)], kl.tls = e.client.tls
    PROVE  Shaken(c, kl, sv, gl, sv.buf \o (x \o e.out), dn, ct)
<1>1. Learnt(c, sv, gl) /\ Queued(c, cl, sv, sv.buf \o x) /\ Whole(c, cl, dn, ct)
    BY DEF Shaken
<1>2. CASE ~(class = "tls" /\ peer[c].speaks)
    BY <1>1, <1>2 DEF Shaken, Queued, Whole
<1>3. CASE class = "tls" /\ peer[c].speaks
    <2>1. /\ x \in Stream /\ sv.buf \in Stream /\ cl.tls \in TicketLocal /\ cl \in ClientLocal
          /\ cl.tls.status \in {0, 1, 8} /\ cl.units \in {0, FirstWrite, MaxUnits}
          /\ cl.tls.sendBuf \in Stream
        BY DEF ConnOk, Typed, ServerLocal, ClientLocal, ClientStatus, TicketLocal
    <2>2. PICK b \in Nat : Len(Data(v, cl.units)) = b /\ Data(v, cl.units) \in Stream /\ b > 0
                           /\ (cl.units = 0 => b = FirstWrite + 1)
        <3>1. PICK i \in Nat, j \in Nat :
                  /\ Data(v, cl.units) = Span(v, i, j) /\ i < j
                  /\ (cl.units = 0 => i = 0 /\ j = FirstWrite + 1)
            <4>1. PICK m \in {0, FirstWrite, MaxUnits} : m = cl.units /\ m < MaxUnits
                BY <2>1
            <4>2. /\ Data(v, m) = Span(v, IF m = 0 THEN 0 ELSE m + 1, Next1(m) + 1)
                  /\ m \in Nat /\ Next1(m) \in Nat /\ Next1(m) # 0 /\ m < Next1(m)
                BY <4>1, DataSpan
            <4>3. m = 0 => Next1(m) = FirstWrite
                BY DEF Next1
            <4>4. PICK i \in Nat : i = IF m = 0 THEN 0 ELSE m + 1
                BY <4>2
            <4>5. PICK j \in Nat : j = Next1(m) + 1
                BY <4>2
            <4>6. i < j
                BY <4>2, <4>4, <4>5
            <4> QED
                BY <4>1, <4>2, <4>3, <4>4, <4>5, <4>6
        <3>2. Span(v, i, j) \in Stream /\ Len(Span(v, i, j)) = j - i
            BY <3>1, SpanType
        <3> QED
            BY <3>1, <3>2
    <2>3. PICK data \in Stream : data = Data(v, cl.units) /\ data # <<>> /\ Len(data) = b
        BY <2>2, Nothing
    <2>4. PICK t \in TicketClientEncode(cl.tls, c, data) :
              e.client.tls = t.local /\ e.out = t.out
        <3>1. PICK t \in TicketClientEncode(cl.tls, c, data) :
                  e = [client |-> [cl EXCEPT !.tls = t.local], out |-> t.out]
            BY <1>3, <2>3 DEF Obfuscated
        <3>2. e.client.tls = t.local /\ e.out = t.out
            BY <2>1, <3>1 DEF ClientLocal
        <3> QED
            BY <3>2
    <2>5. kl.tls = t.local
        BY <2>4
    <2>6. /\ Record(data) \in Stream /\ Record(data) # <<>> /\ Record(data)[1] = HeadAtom(b)
        <3>1. /\ Record(data) \in Stream /\ Len(Record(data)) = b + 1
              /\ Record(data) = <<HeadAtom(b)>> \o data /\ <<HeadAtom(b)>> \in Stream
              /\ Len(<<HeadAtom(b)>>) = 1
            BY <2>3, RecordType
        <3>2. PICK h \in Stream : h = <<HeadAtom(b)>> /\ h # <<>> /\ h[1] = HeadAtom(b)
            BY <3>1, Nothing
        <3>3. (h \o data)[1] = h[1] /\ h \o data # <<>>
            BY <3>2, FirstOfJoined
        <3> QED
            BY <3>1, <3>2, <3>3
    <2>7. PICK rc \in Stream : rc = Record(data) /\ rc # <<>> /\ rc[1] = HeadAtom(b)
        BY <2>6
    <2>8. CASE cl.tls.status = 8
        <3>1. t.local = cl.tls
            BY <2>4, <2>8 DEF TicketClientEncode
        <3>2. sv.buf \o (x \o e.out) = (sv.buf \o x) \o e.out /\ sv.buf \o x \in Stream
            <4>1. PICK h \in Stream, o \in Stream : h = sv.buf /\ o = e.out
                BY <2>1
            <4>2. PICK y \in Stream : y = x
                BY <2>1
            <4>3. h \o (y \o o) = (h \o y) \o o
                BY Assoc
            <4>4. h \o y \in Stream
                BY Joined
            <4> QED
                BY <4>1, <4>2, <4>3, <4>4
        <3>3. Queued(c, kl, sv, sv.buf \o (x \o e.out))
            BY <1>1, <2>5, <2>8, <3>1, <3>2, FollowedMore DEF Queued
        <3>4. Whole(c, kl, dn, ct)
            BY <1>1, <2>5, <3>1 DEF Whole
        <3> QED
            BY <1>1, <3>3, <3>4 DEF Shaken
    <2>9. CASE cl.tls.status = 0
        <3>1. cl.units = 0 /\ cl.tls.sendBuf = <<>>
            <4>1. UpShape(class, peer[c].speaks, v, c, cl, sv, x, g)
                BY DEF ConnOk, Open
            <4>2. ~sv.init
                <5>1. sv.init => Ongoing(class, peer[c].speaks, v, cl, sv, x, Handed(sv, g), Written(cl))
                    BY <4>1 DEF UpShape
                <5> QED
                    BY <1>3, <2>9, <5>1 DEF Ongoing
            <4>3. TicketOpening(v, c, cl, sv, sv.buf \o x, Written(cl))
                BY <1>3, <4>1, <4>2 DEF UpShape, Opening
            <4>4. Written(cl) = 0 /\ cl.tls.sendBuf = <<>>
                BY <2>9, <4>3 DEF TicketOpening, TicketQuiet, TicketHello, TicketFinish
            <4>5. cl.units \in Nat
                BY <2>1 DEF ClientLocal
            <4> QED
                BY <4>4, <4>5 DEF Written
        <3>2. dn = <<>>
            <4>1. DownShape(class, peer[c].speaks, cl, sv, dn, bk, n)
                BY DEF ConnOk, Open
            <4>2. \E i, j : TicketDown(cl, sv, dn, i, j)
                BY <1>3, <4>1 DEF DownShape, OnWay
            <4> QED
                BY <2>9, <4>2 DEF TicketDown
        <3>3. t.local = [cl.tls EXCEPT !.status = 1, !.sendBuf = cl.tls.sendBuf \o rc]
            BY <2>4, <2>7, <2>9 DEF TicketClientEncode
        <3>4. t.local.status = 1 /\ t.local.sendBuf = rc
            <4>1. cl.tls.sendBuf \o rc = rc
                BY <3>1, Nothing
            <4> QED
                BY <2>1, <3>3, <4>1 DEF TicketLocal
        <3>5. LeadsWith(kl.tls.sendBuf) /\ kl.tls.status = 1
            BY <2>2, <2>5, <2>7, <3>1, <3>4 DEF LeadsWith
        <3> QED
            BY <1>1, <3>2, <3>5 DEF Shaken, Queued, Whole
    <2>10. CASE cl.tls.status = 1
        <3>0. t = [local |-> [cl.tls EXCEPT !.sendBuf = cl.tls.sendBuf \o rc], out |-> <<>>]
            <4>1. data # <<>> /\ rc = Record(data)
                BY <2>3, <2>7
            <4>2. t \in {[local |-> [cl.tls EXCEPT !.sendBuf = cl.tls.sendBuf \o Record(data)], out |-> <<>>]}
                BY <2>10, <4>1 DEF TicketClientEncode
            <4> QED
                BY <4>1, <4>2
        <3>1. t.local = [cl.tls EXCEPT !.sendBuf = cl.tls.sendBuf \o rc]
            BY <3>0
        <3>2. t.local.status = 1 /\ t.local.sendBuf = cl.tls.sendBuf \o rc
            BY <2>1, <2>10, <3>1 DEF TicketLocal
        <3>3. LeadsWith(cl.tls.sendBuf)
            BY <1>1, <1>3, <2>10 DEF Queued
        <3>4. PICK y \in Stream : y = cl.tls.sendBuf /\ LeadsWith(y)
            BY <2>1, <3>3
        <3>5. LeadsWith(y \o rc)
            BY <3>4, FirstOfJoined DEF LeadsWith
        <3>6. LeadsWith(kl.tls.sendBuf) /\ kl.tls.status = 1
            BY <2>5, <3>2, <3>4, <3>5
        <3> QED
            BY <1>1, <2>10, <3>6 DEF Shaken, Queued, Whole
    <2> QED
        BY <2>1, <2>8, <2>9, <2>10
<1> QED
    BY <1>2, <1>3

\* The reply to the hello is the first the server says.
GreetRead(c, v, cl, sv, gl, x, dn, g, bk, n, p, q, d, e, ct) ==
    /\ ReadBase(c, v, cl, sv, gl, x, dn, g, bk, n, p, q)
    /\ Shaken(c, cl, sv, gl, p \o q, dn, ct)
    /\ Kept(sv, d.server) /\ Greets(class, peer[c].speaks, c, cl, sv, d, q)
    /\ e \in TicketServerEncode(d.server.tls, d.global[Global(c)], <<>>)

LEMMA GreetShaken ==
    ASSUME NEW c, NEW v, NEW cl, NEW sv, NEW gl, NEW x, NEW dn, NEW g, NEW bk, NEW n,
           NEW p, NEW q, NEW d, NEW e, NEW ct,
           GreetRead(c, v, cl, sv, gl, x, dn, g, bk, n, p, q, d, e, ct),
           NEW t, t.tls = e.local, NEW in, NEW cm
    PROVE  Shaken(c, cl, t, d.global[c], in, dn \o e.out, cm)
<1> SUFFICES ASSUME ReadBase(c, v, cl, sv, gl, x, dn, g, bk, n, p, q),
                    Shaken(c, cl, sv, gl, p \o q, dn, ct),
                    Kept(sv, d.server), Greets(class, peer[c].speaks, c, cl, sv, d, q),
                    e \in TicketServerEncode(d.server.tls, d.global[Global(c)], <<>>)
             PROVE  Shaken(c, cl, t, d.global[c], in, dn \o e.out, cm)
    BY DEF GreetRead
<1>1. /\ class = "tls" /\ peer[c].speaks /\ ~sv.init /\ cl.tls.status = 1
      /\ d.server.tls.status = 2 /\ d.global[c].ids = {c} /\ d.server.tls \in TicketLocal
    BY DEF Greets, Kept, ServerLocal
<1>2. e.local = [d.server.tls EXCEPT !.status = 3] /\ e.out = Flight("reply", ReplyLength, c)
    BY <1>1 DEF TicketServerEncode, Global
<1>3. t.tls.status = 3
    BY <1>1, <1>2 DEF TicketLocal
<1>4. dn = <<>>
    <2>1. /\ p \in Stream /\ q \in Stream /\ p # <<>> /\ p \o q = sv.buf \o x
          /\ UpShape(class, peer[c].speaks, v, c, cl, sv, x, g)
          /\ DownShape(class, peer[c].speaks, cl, sv, dn, bk, n)
        BY ReadTypes DEF ReadBase
    <2>2. TicketOpening(v, c, cl, sv, sv.buf \o x, Written(cl))
        BY <1>1, <2>1 DEF UpShape, Opening
    <2>3. sv.buf \o x # <<>>
        BY <2>1, NothingJoined
    <2>4. sv.tls.status = 0
        BY <1>1, <2>2, <2>3 DEF TicketOpening, TicketQuiet, TicketHello, TicketFinish
    <2>5. \E i, j : TicketDown(cl, sv, dn, i, j)
        BY <1>1, <2>1 DEF DownShape, OnWay
    <2> QED
        BY <1>1, <2>4, <2>5 DEF TicketDown
<1>5. dn \o e.out = Flight("reply", ReplyLength, c)
    <2>1. Flight("reply", ReplyLength, c) \in Stream
        <3>1. ReplyLength \in Nat \ {0} /\ c \in Conns
            BY TicketAssumption, ReadTypes
        <3> QED
            BY <3>1, FlightType
    <2> QED
        BY <1>2, <1>4, <2>1, Nothing
<1>6. Queued(c, cl, sv, p \o q)
    BY DEF Shaken
<1> QED
    BY <1>1, <1>3, <1>5, <1>6 DEF Shaken, Learnt, Queued, Whole

\* What is said behind nothing, or behind what is no reply, is no reply.
LEMMA BehindNoReply ==
    ASSUME NEW h \in Stream, NEW x \in Stream, NEW y \in Stream,
           NoReplyFirst(h \o x), NoReplyFirst(y)
    PROVE  NoReplyFirst(h \o (x \o y))
<1>1. h \o (x \o y) = (h \o x) \o y /\ h \o x \in Stream
    <2>1. h \o (x \o y) = (h \o x) \o y
        BY Assoc
    <2>2. h \o x \in Stream
        BY Joined
    <2> QED
        BY <2>1, <2>2
<1>2. CASE h \o x = <<>>
    BY <1>1, <1>2, Nothing
<1>3. CASE h \o x # <<>>
    <2>1. PICK z \in Stream : z = h \o x
        BY <1>1
    <2>2. (z \o y)[1] = z[1]
        BY <1>3, <2>1, FirstOfJoined
    <2> QED
        BY <1>1, <1>3, <2>1, <2>2 DEF NoReplyFirst
<1> QED
    BY <1>2, <1>3

LEMMA ReplyShaken ==
    ASSUME NEW c, NEW v, NEW cl, NEW sv, NEW gl, NEW x, NEW dn, NEW g, NEW bk, NEW n, NEW ct,
           ConnOk(c, class, peer[c].speaks, v, cl, sv, gl, x, dn, g, bk, n, "open"),
           Whole(c, cl, dn, ct), sv = server[c], g # <<>>, NEW k \in Nat,
           NEW e \in Reobfuscated(c, Sealed(sv, Units(n, k))), e.out \in Stream
    PROVE  Whole(c, cl, dn \o e.out, ct)
<1>1. CASE ~(class = "tls" /\ peer[c].speaks)
    BY <1>1 DEF Whole
<1>2. CASE class = "tls" /\ peer[c].speaks
    <2>1. /\ UpShape(class, peer[c].speaks, v, c, cl, sv, x, g)
          /\ DownShape(class, peer[c].speaks, cl, sv, dn, bk, n)
          /\ n \in Nat /\ dn \in Stream /\ cl \in ClientLocal
        BY Bounds DEF ConnOk, Open, Typed
    <2>2. sv.init
        BY <2>1 DEF UpShape
    <2>3. cl.tls.status = 8 /\ sv.tls.status = 8 /\ ~sv.plainSpoken
        BY <1>2, <2>1, <2>2 DEF UpShape, Ongoing
    <2>4. e.out \in Records(Sealed(sv, Units(n, k)))
        <3>1. PICK t \in TicketServerEncode(sv.tls, global[Global(c)], Sealed(sv, Units(n, k))) :
                  e.out = t.out
            BY <1>2, <2>3 DEF Reobfuscated
        <3> QED
            BY <2>3, <3>1 DEF TicketServerEncode
    <2>5. NoReplyFirst(e.out)
        <3>1. ~sv.sealed => n = 0
            BY <2>1 DEF DownShape
        <3>2. PICK i \in Nat, j \in Nat : i = Answered(sv, n) /\ j = n + k + 1 /\ i <= j
            <4>1. Answered(sv, n) \in Nat /\ Answered(sv, n) <= n + k + 1
                BY <2>1 DEF Answered
            <4> QED
                BY <2>1, <4>1
        <3>3. Sealed(sv, Units(n, k)) = Span(0, i, j)
            BY <2>1, <3>1, <3>2, SealedSpan
        <3>4. PICK z \in Nat : z = 0
            OBVIOUS
        <3>5. PICK r \in Records(Span(z, i, j)) : r = e.out
            BY <2>4, <3>3, <3>4
        <3>6. Framed(z, r, i, j)
            BY <3>2, RecordsFramed
        <3> QED
            BY <3>5, <3>6, FramedNoReply
    <2>6. PICK h \in Stream, y \in Stream : h = cl.tls.recvBuf /\ y = e.out
        BY <2>1 DEF ClientLocal, TicketLocal
    <2>7. ~ct => NoReplyFirst(h \o dn)
        BY <1>2, <2>3, <2>6 DEF Whole
    <2>8. ~ct => NoReplyFirst(h \o (dn \o y))
        BY <2>1, <2>5, <2>6, <2>7, BehindNoReply
    <2> QED
        BY <2>3, <2>6, <2>8 DEF Whole
<1> QED
    BY <1>1, <1>2

-----------------------------------------------------------------------------
(* What a client takes of the server's flight and of the records behind it. *)

\* Behind its handshake a client is given records.
RecordsTaken(c, cl, p, q, e) == e.ok /\ ~e.back /\ NoReplyFirst(e.local.recvBuf \o q)

LEMMA FetchRecords ==
    ASSUME NEW c, NEW v, NEW cl, NEW sv, NEW gl, NEW x, NEW dn, NEW g, NEW bk, NEW n,
           NEW p, NEW q, FetchBase(c, v, cl, sv, gl, x, dn, g, bk, n, p, q),
           class = "tls", peer[c].speaks, cl.tls.status = 8,
           NoReplyFirst(cl.tls.recvBuf \o dn), NEW key
    PROVE  RecordsTaken(c, cl, p, q, TicketClientDecode(cl.tls, c, p, key))
<1>1. /\ p \in Stream /\ q \in Stream /\ cl \in ClientLocal /\ p \o q = dn
      /\ DownShape(class, peer[c].speaks, cl, sv, dn, bk, n) /\ Answered(sv, n) \in Nat
    <2>1. FetchBase(c, v, cl, sv, gl, x, dn, g, bk, n, p, q)
        OBVIOUS
    <2>2. /\ p \in Stream /\ q \in Stream /\ cl \in ClientLocal /\ n \in Nat
        BY <2>1, Bounds DEF FetchBase, ConnOk, Open, Typed
    <2>3. p \o q = dn /\ DownShape(class, peer[c].speaks, cl, sv, dn, bk, n)
        BY <2>1 DEF FetchBase, ConnOk, Open
    <2>4. Answered(sv, n) \in Nat
        BY <2>2 DEF Answered
    <2> QED
        BY <2>2, <2>3, <2>4
<1>2. PICK b \in Nat : TicketDown(cl, sv, dn, b, Answered(sv, n))
    <2>1. PICK b \in 0..Answered(sv, n) : TicketDown(cl, sv, dn, b, Answered(sv, n))
        BY <1>1 DEF DownShape, OnWay
    <2> QED
        BY <1>1, <2>1
<1>3. PICK l \in TicketLocal : l = cl.tls
    BY <1>1 DEF ClientLocal
<1>4. PICK z \in Nat, s \in Nat : z = 0 /\ s = Answered(sv, n) /\ Framed(z, l.recvBuf \o (p \o q), b, s)
    BY <1>1, <1>2, <1>3 DEF TicketDown, NoReplyFirst
<1>5. Reassembly(z, l, NewTicketGlobal, p, q, b, s)
    BY <1>1, <1>4, Reassembles
<1>6. PICK m \in Nat, y \in Stream :
          /\ Framed(z, y \o q, m, s)
          /\ Reassembled(l, NewTicketGlobal, p)
                = Decoded([l EXCEPT !.recvBuf = y], NewTicketGlobal, Span(z, b, m), FALSE)
    BY <1>5 DEF Reassembly
<1>7. PICK e : e = TicketClientDecode(cl.tls, c, p, key)
    OBVIOUS
<1>8. e = Decoded([l EXCEPT !.recvBuf = y], NewTicketGlobal, Span(z, b, m), FALSE)
    BY <1>3, <1>6, <1>7 DEF TicketClientDecode
<1>9. e.ok /\ ~e.back /\ e.local.recvBuf = y
    <2>1. e.ok = TRUE /\ e.back = FALSE /\ e.local = [l EXCEPT !.recvBuf = y]
        BY <1>8 DEF Decoded
    <2> QED
        BY <2>1 DEF TicketLocal
<1>10. NoReplyFirst(y \o q)
    BY <1>6, FramedNoReply
<1> QED
    BY <1>7, <1>9, <1>10 DEF RecordsTaken

\* The finish and what had waited for it, said when the reply is there.
ReplyRead(c, v, cl, sv, gl, x, dn, g, bk, n, p, q, key, d, e, ct, cm, kl) ==
    /\ FetchBase(c, v, cl, sv, gl, x, dn, g, bk, n, p, q)
    /\ class = "tls" /\ peer[c].speaks
    /\ d = TicketClientDecode(cl.tls, c, p, key) /\ d.ok /\ d.back
    /\ e \in TicketClientEncode(d.local, c, <<>>)
    /\ Shaken(c, cl, sv, gl, sv.buf \o x, dn, ct)
    /\ (~cm => q = <<>>) /\ kl.tls = e.local

LEMMA FinishShaken ==
    ASSUME NEW c, NEW v, NEW cl, NEW sv, NEW gl, NEW x, NEW dn, NEW g, NEW bk, NEW n,
           NEW p, NEW q, NEW key, NEW d, NEW e, NEW ct, NEW cm, NEW kl,
           ReplyRead(c, v, cl, sv, gl, x, dn, g, bk, n, p, q, key, d, e, ct, cm, kl)
    PROVE  Shaken(c, kl, sv, gl, sv.buf \o (x \o e.out), q, cm)
<1> SUFFICES ASSUME FetchBase(c, v, cl, sv, gl, x, dn, g, bk, n, p, q),
                    class = "tls", peer[c].speaks,
                    d = TicketClientDecode(cl.tls, c, p, key), d.ok, d.back,
                    e \in TicketClientEncode(d.local, c, <<>>),
                    Shaken(c, cl, sv, gl, sv.buf \o x, dn, ct),
                    ~cm => q = <<>>, kl.tls = e.local
             PROVE  Shaken(c, kl, sv, gl, sv.buf \o (x \o e.out), q, cm)
    BY DEF ReplyRead
<1>1. /\ c \in Conns /\ v \in Nat /\ cl \in ClientLocal /\ sv \in ServerLocal
      /\ x \in Stream /\ q \in Stream /\ Written(cl) \in Nat
      /\ UpShape(class, peer[c].speaks, v, c, cl, sv, x, g)
    BY FetchTypes
<1>2. PICK b \in Nat : TakeBase(c, cl, sv, p, q, b, Answered(sv, n))
    BY FetchFrom
<1>3. d.local = cl.tls /\ cl.tls.status = 1 /\ cl.tls.recvBuf = <<>> /\ sv.tls.status = 3
    <2>1. TlsRead(cl, sv, d, q, b, Answered(sv, n))
        BY <1>2, TakeTls
    <2> QED
        BY <2>1 DEF TlsRead, TlsAnswered
<1>4. ~sv.init
    <2>1. sv.init => sv.tls.status = 8
        BY <1>1 DEF UpShape, Ongoing
    <2> QED
        BY <1>3, <2>1
<1>5. sv.buf \o x = <<>>
    <2>1. TicketOpening(v, c, cl, sv, sv.buf \o x, Written(cl))
        BY <1>1, <1>4 DEF UpShape, Opening
    <2> QED
        BY <1>3, <2>1 DEF TicketOpening, TicketQuiet, TicketHello, TicketFinish
<1>6. sv.buf = <<>> /\ x = <<>>
    <2>1. sv.buf \in Stream
        BY <1>1 DEF ServerLocal
    <2> QED
        BY <1>1, <1>5, <2>1, NothingJoined
<1>7. PICK l \in TicketLocal : l = cl.tls
    BY <1>1 DEF ClientLocal
<1>8. PICK y \in Stream : y = l.sendBuf /\ LeadsWith(y)
    <2>1. LeadsWith(cl.tls.sendBuf)
        BY <1>3 DEF Shaken, Queued
    <2> QED
        BY <1>7, <2>1 DEF TicketLocal
<1>9. PICK rc \in Stream : rc = Record(<<>>)
    BY Nothing, RecordType
<1>10. e = [local |-> [l EXCEPT !.status = 8, !.sendBuf = <<>>],
            out |-> Flight("finish", FinishLength, c) \o (y \o rc)]
    <2>1. e \in TicketClientEncode(l, c, <<>>)
        BY <1>3, <1>7
    <2>2. e \in {[local |-> [l EXCEPT !.status = 8, !.sendBuf = <<>>],
                  out |-> Flight("finish", FinishLength, c) \o (l.sendBuf \o Record(<<>>))]}
        <3>1. l.status = 1 /\ ~(l.status = 8) /\ ~(l.status = 0)
            BY <1>3, <1>7
        <3> QED
            BY <2>1, <3>1, Zenon DEF TicketClientEncode
    <2> QED
        BY <1>8, <1>9, <2>2
<1>11. kl.tls.status = 8 /\ kl.tls.recvBuf = <<>>
    <2>1. kl.tls = [l EXCEPT !.status = 8, !.sendBuf = <<>>]
        BY <1>10
    <2> QED
        BY <1>3, <1>7, <2>1 DEF TicketLocal
<1>12. PICK f \in Stream : f = Flight("finish", FinishLength, c) /\ Len(f) = FinishLength
    BY <1>1, TicketAssumption, FlightType
<1>13. PICK r \in Stream : r = y \o rc /\ LeadsWith(r)
    <2>1. y \o rc \in Stream
        BY Joined
    <2>2. LeadsWith(y \o rc)
        BY <1>8, FirstOfJoined DEF LeadsWith
    <2> QED
        BY <2>1, <2>2
<1>14. e.out = f \o r /\ f \o r \in Stream
    <2>1. f \o r \in Stream
        BY Joined
    <2> QED
        BY <1>10, <1>12, <1>13, <2>1
<1>15. Followed(f \o r)
    <2>1. PICK k \in Nat : k = FinishLength
        BY TicketAssumption
    <2>2. PICK m \in Nat : m = Len(r) /\ m # 0
        BY <1>13, Nothing DEF LeadsWith
    <2>3. 1 \in 1..Len(r)
        BY <2>2
    <2>4. Len(f \o r) = k + m /\ (f \o r)[k + 1] = r[1]
        <3>1. /\ Len(f \o r) = Len(f) + Len(r)
              /\ \A i \in 1..Len(r) : (f \o r)[Len(f) + i] = r[i]
            BY Joined
        <3>2. (f \o r)[Len(f) + 1] = r[1]
            BY <2>3, <3>1
        <3> QED
            BY <1>12, <2>1, <2>2, <3>1, <3>2
    <2>5. k + m > k
        BY <2>2
    <2> QED
        BY <1>13, <2>1, <2>4, <2>5 DEF Followed, LeadsWith
<1>16. sv.buf \o (x \o e.out) = f \o r
    BY <1>6, <1>14, Nothing
<1>17. Queued(c, kl, sv, sv.buf \o (x \o e.out))
    BY <1>11, <1>15, <1>16 DEF Queued
<1>18. Whole(c, kl, q, cm)
    <2>1. ~cm => kl.tls.recvBuf \o q = <<>>
        BY <1>11, Nothing
    <2> QED
        BY <1>11, <2>1 DEF Whole, NoReplyFirst
<1> QED
    BY <1>17, <1>18 DEF Shaken

\* Records taken by the client.
TakenRead(c, v, cl, sv, gl, x, dn, g, bk, n, p, q, key, d, in, ct, cm, kl) ==
    /\ FetchBase(c, v, cl, sv, gl, x, dn, g, bk, n, p, q)
    /\ class = "tls" /\ peer[c].speaks
    /\ d = TicketClientDecode(cl.tls, c, p, key) /\ d.ok /\ ~d.back
    /\ Shaken(c, cl, sv, gl, in, dn, ct)
    /\ (~cm => ~ct) /\ kl.tls = d.local

LEMMA TakenShaken ==
    ASSUME NEW c, NEW v, NEW cl, NEW sv, NEW gl, NEW x, NEW dn, NEW g, NEW bk, NEW n,
           NEW p, NEW q, NEW key, NEW d, NEW in, NEW ct, NEW cm, NEW kl,
           TakenRead(c, v, cl, sv, gl, x, dn, g, bk, n, p, q, key, d, in, ct, cm, kl)
    PROVE  Shaken(c, kl, sv, gl, in, q, cm)
<1> SUFFICES ASSUME FetchBase(c, v, cl, sv, gl, x, dn, g, bk, n, p, q),
                    class = "tls", peer[c].speaks,
                    d = TicketClientDecode(cl.tls, c, p, key), d.ok, ~d.back,
                    Shaken(c, cl, sv, gl, in, dn, ct),
                    ~cm => ~ct, kl.tls = d.local
             PROVE  Shaken(c, kl, sv, gl, in, q, cm)
    BY DEF TakenRead
<1>1. PICK b \in Nat : TakeBase(c, cl, sv, p, q, b, Answered(sv, n))
    BY FetchFrom
<1>2. cl.tls.status = 8 /\ kl.tls.status = 8
    <2>1. TlsRead(cl, sv, d, q, b, Answered(sv, n))
        BY <1>1, TakeTls
    <2> QED
        BY <2>1 DEF TlsRead, TlsTakes
<1>3. Queued(c, kl, sv, in)
    BY <1>2 DEF Shaken, Queued
<1>4. ~cm => NoReplyFirst(kl.tls.recvBuf \o q)
    <2>1. ~ct => NoReplyFirst(cl.tls.recvBuf \o dn)
        BY <1>2 DEF Shaken, Whole
    <2>2. ~ct => RecordsTaken(c, cl, p, q, d)
        BY <1>2, <2>1, FetchRecords
    <2> QED
        BY <2>2 DEF RecordsTaken
<1> QED
    BY <1>2, <1>3, <1>4 DEF Shaken, Whole

\* A client leaves for its own key or for a flight that was cut.
LEMMA LeftCause ==
    ASSUME NEW c, NEW v, NEW cl, NEW sv, NEW gl, NEW x, NEW dn, NEW g, NEW bk, NEW n,
           NEW p, NEW q, FetchBase(c, v, cl, sv, gl, x, dn, g, bk, n, p, q),
           class = "tls", peer[c].speaks, NEW key,
           ~TicketClientDecode(cl.tls, c, p, key).ok,
           NEW ct, Whole(c, cl, dn, ct),
           NEW cm, ~cm => ~ct /\ (cl.tls.status # 8 => q = <<>>)
    PROVE  cm \/ ~key
<1> SUFFICES ASSUME ~cm, key PROVE FALSE
    OBVIOUS
<1>1. /\ p \in Stream /\ q \in Stream /\ p # <<>> /\ p \o q = dn /\ c \in Conns
      /\ DownShape(class, peer[c].speaks, cl, sv, dn, bk, n)
    BY Bounds DEF FetchBase, ConnOk, Open, Typed
<1>2. cl.tls.status \in {0, 1, 8}
    BY DEF FetchBase, ConnOk, Typed, ClientStatus
<1>3. CASE cl.tls.status = 8
    <2>1. NoReplyFirst(cl.tls.recvBuf \o dn)
        BY <1>3 DEF Whole
    <2>2. RecordsTaken(c, cl, p, q, TicketClientDecode(cl.tls, c, p, key))
        BY <1>3, <2>1, FetchRecords
    <2> QED
        BY <2>2 DEF RecordsTaken
<1>4. CASE cl.tls.status # 8
    <2>1. p = dn
        BY <1>1, <1>4, Nothing
    <2>2. \E i, j : TicketDown(cl, sv, dn, i, j)
        BY <1>1 DEF DownShape, OnWay
    <2>3. cl.tls.status = 1
        BY <1>1, <1>2, <1>4, <2>1, <2>2 DEF TicketDown
    <2>4. p = Flight("reply", ReplyLength, c)
        BY <1>1, <2>1, <2>3 DEF Whole
    <2>5. PICK k \in Nat : k = ReplyLength /\ 1 \in 1..k /\ k >= ReplyLeast /\ k # 0
        BY TicketAssumption
    <2>6. Len(p) = k /\ p[1].t = "reply" /\ p[1].c = c /\ p[1].v = 1
        <3>1. PICK f \in Stream :
                  /\ f = Flight("reply", ReplyLength, c) /\ Len(f) = k
                  /\ \A i \in 1..k : f[i].t = "reply" /\ f[i].c = c /\ f[i].v = i
            BY <1>1, <2>5, FlightType
        <3> QED
            BY <2>4, <2>5, <3>1
    <2>7. TicketClientDecode(cl.tls, c, p, key) = Decoded(cl.tls, NewTicketGlobal, <<>>, TRUE)
        BY <2>3, <2>5, <2>6 DEF TicketClientDecode, Signed
    <2>8. Decoded(cl.tls, NewTicketGlobal, <<>>, TRUE).ok = TRUE
        BY DEF Decoded
    <2> QED
        BY <2>7, <2>8
<1> QED
    BY <1>3, <1>4

-----------------------------------------------------------------------------
(* Nothing but a connection's own client and path ends it: the invariant.   *)

\* an IV in the cache is that of a connection which has shown it
KeysKnown ==
    \A k \in CacheKeys(ivCache) :
        Len(k) = 1 /\ k[1].t \in {"iv", "bad"} =>
            \E d \in Conns : server[d].init /\ ivOf[d] = k[1].v

ShakenAt(c) ==
    Shaken(c, client[c], server[c], global[c], server[c].buf \o up[c], down[c], cut[c])

CauseInv ==
    /\ PathInv /\ cut \in [Conns -> BOOLEAN] /\ KeysKnown /\ RefusedForCause
    /\ \A c \in Conns : status[c] = "open" => ShakenAt(c)

\* Excused, of the values a step gives
Excuse(c, st, ct) ==
    \/ ct \/ ~peer[c].key
    \/ class # "none" /\ ~peer[c].speaks /\ ~compatible
    \/ class = "tls" /\ peer[c].late /\ peer[c].speaks
    \/ class = "http" /\ peer[c].host # "listed" /\ peer[c].speaks
    \/ class = "http" /\ StrayHex /\ st = "noise"
    \/ st = "repeated" /\ \E d \in Conns \ {c} : ivOf[d] = ivOf[c]

\* the process exits on a cut flight only
Exits(st, ct) == st = "exit" => method = "sodium" /\ class # "none" /\ ct

CutTo(c, cm) == cm \in BOOLEAN /\ cut' = [cut EXCEPT ![c] = cm]

LEMMA CauseMoved ==
    ASSUME CauseInv, PathInv', NEW c \in Conns, UNCHANGED conf,
           NEW cl, NEW sv, NEW gl, NEW u, NEW dn, NEW g, NEW bk, NEW n, NEW st,
           Moved(c, cl, sv, gl, u, dn, g, bk, n, st),
           NEW cm, CutTo(c, cm), KeysKnown',
           st = "open" => Shaken(c, cl, sv, gl, sv.buf \o u, dn, cm),
           st # "open" => Excuse(c, st, cm), Exits(st, cm)
    PROVE  CauseInv'
<1>1. /\ plugin' = plugin /\ compatible' = compatible /\ peer' = peer /\ ivOf' = ivOf
      /\ class' = class /\ method' = method
    BY DEF conf, class
<1>2. Functions /\ cut \in [Conns -> BOOLEAN]
    BY DEF CauseInv, PathInv
<1>3. /\ client'[c] = cl /\ server'[c] = sv /\ global'[c] = gl /\ up'[c] = u /\ down'[c] = dn
      /\ status'[c] = st /\ cut'[c] = cm
    BY <1>2 DEF Functions, Moved, CutTo
<1>4. \A d \in Conns \ {c} :
          /\ client'[d] = client[d] /\ server'[d] = server[d] /\ global'[d] = global[d]
          /\ up'[d] = up[d] /\ down'[d] = down[d] /\ status'[d] = status[d] /\ cut'[d] = cut[d]
    BY <1>2 DEF Functions, Moved, CutTo
<1>5. cut' \in [Conns -> BOOLEAN]
    BY <1>2 DEF CutTo
<1>6. ASSUME NEW d \in Conns, status'[d] # "open" PROVE Excused(d)'
    <2>1. CASE d = c
        <3>1. Excuse(c, st, cm)
            BY <1>3, <1>6, <2>1
        <3> QED
            BY <1>1, <1>3, <2>1, <3>1 DEF Excused, Excuse
    <2>2. CASE d # c
        <3>1. Excused(d)
            BY <1>4, <1>6, <2>2 DEF CauseInv, RefusedForCause
        <3>2. status'[d] = status[d] /\ cut'[d] = cut[d]
            BY <1>4, <2>2
        <3> QED
            BY <1>1, <3>1, <3>2 DEF Excused
    <2> QED
        BY <2>1, <2>2
<1>7. ASSUME NEW d \in Conns, status'[d] = "open" PROVE ShakenAt(d)'
    <2>1. CASE d = c
        <3>1. Shaken(c, cl, sv, gl, sv.buf \o u, dn, cm)
            BY <1>3, <1>7, <2>1
        <3>2. Shaken(c, client'[c], server'[c], global'[c], server'[c].buf \o up'[c], down'[c], cut'[c])
            BY <1>3, <3>1
        <3> QED
            BY <1>1, <2>1, <3>2 DEF ShakenAt, Shaken, Learnt, Queued, Whole
    <2>2. CASE d # c
        <3>1. ShakenAt(d)
            BY <1>4, <1>7, <2>2 DEF CauseInv
        <3>2. Shaken(d, client'[d], server'[d], global'[d], server'[d].buf \o up'[d], down'[d], cut'[d])
            BY <1>4, <2>2, <3>1 DEF ShakenAt
        <3> QED
            BY <1>1, <3>2 DEF ShakenAt, Shaken, Learnt, Queued, Whole
    <2> QED
        BY <2>1, <2>2
<1>8. ASSUME NEW d \in Conns, status'[d] = "exit"
      PROVE  method' = "sodium" /\ class' # "none" /\ cut'[d]
    <2>1. CASE d = c
        BY <1>1, <1>3, <1>8, <2>1 DEF Exits
    <2>2. CASE d # c
        BY <1>1, <1>4, <1>8, <2>2 DEF CauseInv, RefusedForCause
    <2> QED
        BY <2>1, <2>2
<1> QED
    BY <1>5, <1>6, <1>7, <1>8 DEF CauseInv, RefusedForCause

\* a step of a connection that stays open, and one that ends it
LEMMA CauseGoesOn ==
    ASSUME CauseInv, PathInv', NEW c \in Conns, UNCHANGED conf,
           NEW cl, NEW sv, NEW gl, NEW u, NEW dn, NEW g, NEW bk, NEW n,
           Moved(c, cl, sv, gl, u, dn, g, bk, n, "open"),
           NEW cm, CutTo(c, cm), KeysKnown', Shaken(c, cl, sv, gl, sv.buf \o u, dn, cm)
    PROVE  CauseInv'
<1>1. PICK st : st = "open"
    OBVIOUS
<1>2. Moved(c, cl, sv, gl, u, dn, g, bk, n, st) /\ Exits(st, cm)
    BY <1>1 DEF Exits
<1> QED
    BY <1>1, <1>2, CauseMoved

LEMMA CauseEnds ==
    ASSUME CauseInv, PathInv', NEW c \in Conns, UNCHANGED conf,
           NEW cl, NEW sv, NEW gl, NEW u, NEW dn, NEW g, NEW bk, NEW n, NEW st,
           Moved(c, cl, sv, gl, u, dn, g, bk, n, st), st # "open",
           NEW cm, CutTo(c, cm), KeysKnown', Excuse(c, st, cm), Exits(st, cm)
    PROVE  CauseInv'
BY CauseMoved

\* a step that presents no key
LEMMA KeysSame ==
    ASSUME CauseInv, NEW c \in Conns, UNCHANGED <<conf, ivCache>>,
           NEW sv, server' = [server EXCEPT ![c] = sv], server[c].init => sv.init
    PROVE  KeysKnown'
<1>1. ivCache' = ivCache /\ ivOf' = ivOf
    BY DEF conf
<1>2. server \in [Conns -> ServerLocal]
    BY DEF CauseInv, PathInv, Functions
<1>3. \A d \in Conns : server[d].init => server'[d].init
    BY <1>2
<1> QED
    BY <1>1, <1>3 DEF CauseInv, KeysKnown

LEMMA KeysOf ==
    ASSUME NEW ch, NEW key, NEW data, NEW n
    PROVE  /\ CacheKeys(Inserted(ch, key, data, n)) \subseteq CacheKeys(ch) \cup {key}
           /\ CacheKeys(Touched(ch, key)) \subseteq CacheKeys(ch)
<1>1. ASSUME NEW x, NEW S PROVE CacheKeys(Dropped(x, S)) = CacheKeys(x) \ S
    BY DEF CacheKeys, Dropped
<1>2. ASSUME NEW d PROVE CacheKeys(Appended(ch, key, d)) = (CacheKeys(ch) \ {key}) \cup {key}
    <2>1. CacheKeys(Dropped(ch, {key})) = CacheKeys(ch) \ {key}
        BY <1>1
    <2> QED
        BY <2>1 DEF Appended, CacheKeys
<1>3. CacheKeys(Inserted(ch, key, data, n)) \subseteq CacheKeys(ch) \cup {key}
    BY <1>1, <1>2 DEF Inserted
<1>4. CacheKeys(Touched(ch, key)) \subseteq CacheKeys(ch)
    BY <1>2 DEF Touched
<1> QED
    BY <1>3, <1>4

\* A connection that presents a key has shown its own IV if it has shown one.
LEMMA KeysMore ==
    ASSUME CauseInv, NEW c \in Conns, UNCHANGED conf, NEW key, Checked(key),
           NEW sv, server' = [server EXCEPT ![c] = sv], sv.init,
           Len(key) = 1 /\ key[1].t \in {"iv", "bad"} => key[1].v = ivOf[c]
    PROVE  KeysKnown'
<1>1. ivOf' = ivOf
    BY DEF conf
<1>2. server \in [Conns -> ServerLocal]
    BY DEF CauseInv, PathInv, Functions
<1>3. server'[c].init /\ \A d \in Conns : server[d].init => server'[d].init
    BY <1>2
<1>4. CacheKeys(ivCache') \subseteq CacheKeys(ivCache) \cup {key}
    <2>1. ivCache' = Touched(ivCache, key) \/ ivCache' = Inserted(ivCache, key, "used", IvCapacity)
        BY DEF Checked
    <2> QED
        BY <2>1, KeysOf
<1> SUFFICES ASSUME NEW k \in CacheKeys(ivCache'), Len(k) = 1, k[1].t \in {"iv", "bad"}
             PROVE  \E d \in Conns : server'[d].init /\ ivOf[d] = k[1].v
    BY <1>1 DEF KeysKnown
<1>5. CASE k \in CacheKeys(ivCache)
    <2>1. PICK d \in Conns : server[d].init /\ ivOf[d] = k[1].v
        BY <1>5 DEF CauseInv, KeysKnown
    <2> QED
        BY <1>3, <2>1
<1>6. CASE k = key
    BY <1>3, <1>6
<1> QED
    BY <1>4, <1>5, <1>6

LEMMA OpenShaken ==
    ASSUME CauseInv, NEW c \in Conns, status[c] = "open"
    PROVE  Shaken(c, client[c], server[c], global[c], server[c].buf \o up[c], down[c], cut[c])
BY DEF CauseInv, ShakenAt

LEMMA CutAsItWas ==
    ASSUME CauseInv, NEW c \in Conns
    PROVE  cut' = cut => CutTo(c, cut[c])
BY DEF CauseInv, CutTo

LEMMA WritesCause ==
    ASSUME CauseInv, NEW c \in Conns, Writes(c)
    PROVE  CauseInv'
<1>0. PathInv /\ PathInv'
    BY WritesKeep DEF CauseInv
<1>1. /\ status[c] = "open" /\ client[c].units < MaxUnits
      /\ UNCHANGED <<conf, server, global, got, down, back, replied, status, cuts, ivCache, cut>>
    BY DEF Writes, ClientWrite, downward, crypto
<1>2. PICK e \in Obfuscated(c, Data(ivOf[c], client[c].units)) :
          /\ client' = [client EXCEPT ![c] = [e.client EXCEPT !.units = Next1(client[c].units)]]
          /\ up' = [up EXCEPT ![c] = @ \o e.out]
    BY DEF Writes, ClientWrite, Data, Next1, Iv
<1>3. PICK kl : kl = [e.client EXCEPT !.units = Next1(client[c].units)]
    OBVIOUS
<1>4. up' = [up EXCEPT ![c] = up[c] \o e.out]
    BY <1>2
<1>5. Moved(c, kl, server[c], global[c], up[c] \o e.out, down[c], got[c], back[c], replied[c], "open")
    BY <1>0, <1>1, <1>2, <1>3, <1>4, AsItWas DEF Moved
<1>6. OpenAt(c) /\ ivOf[c] \in Nat
    BY <1>0, <1>1, IsOpen
<1>7. e.out \in Stream /\ kl.tls = e.client.tls
    <2>1. Wrote(c, ivOf[c], kl, server[c], global[c], up[c], down[c], got[c], back[c], replied[c], e)
        BY <1>1, <1>2, <1>3, <1>6, WriteOk DEF OpenAt
    <2> QED
        BY <2>1 DEF Wrote
<1>8. Shaken(c, client[c], server[c], global[c], server[c].buf \o up[c], down[c], cut[c])
    BY <1>1, OpenShaken
<1>9. Shaken(c, kl, server[c], global[c], server[c].buf \o (up[c] \o e.out), down[c], cut[c])
    BY <1>1, <1>2, <1>3, <1>6, <1>7, <1>8, WriteShaken DEF OpenAt
<1>10. KeysKnown'
    <2>1. server' = [server EXCEPT ![c] = server[c]]
        BY <1>0, <1>1, AsItWas
    <2> QED
        BY <1>1, <2>1, KeysSame
<1>11. CutTo(c, cut[c])
    BY <1>1, CutAsItWas
<1>12. UNCHANGED conf
    BY <1>1
<1> QED
    BY <1>0, <1>5, <1>9, <1>10, <1>11, <1>12, CauseGoesOn

LEMMA RepliesCause ==
    ASSUME CauseInv, NEW c \in Conns, Replies(c)
    PROVE  CauseInv'
<1>0. PathInv /\ PathInv'
    BY RepliesKeep DEF CauseInv
<1>1. PICK k \in ReplySizes : RemoteRecv(c, k)
    BY DEF Replies
<1>2. /\ status[c] = "open" /\ got[c] # <<>> /\ replied[c] + k <= MaxReplies[c]
      /\ UNCHANGED <<conf, client, global, up, got, back, status, cuts, ivCache, cut>>
    BY <1>1 DEF Replies, RemoteRecv, upward, crypto
<1>3. PICK e \in Reobfuscated(c, Sealed(server[c], Units(replied[c], k))) :
          /\ server' = [server EXCEPT ![c] = [e.server EXCEPT !.sealed = TRUE]]
          /\ down' = [down EXCEPT ![c] = @ \o e.out]
    BY <1>1 DEF RemoteRecv, Encrypted, Sealed
<1>4. replied' = [replied EXCEPT ![c] = replied[c] + k] /\ down' = [down EXCEPT ![c] = down[c] \o e.out]
    BY <1>1, <1>3 DEF RemoteRecv
<1>5. PICK t : t = [e.server EXCEPT !.sealed = TRUE]
    OBVIOUS
<1>6. Moved(c, client[c], t, global[c], up[c], down[c] \o e.out,
            got[c], back[c], replied[c] + k, "open")
    BY <1>0, <1>2, <1>3, <1>4, <1>5, AsItWas DEF Moved
<1>7. OpenAt(c) /\ k \in Nat
    BY <1>0, <1>2, IsOpen, PathAssumption
<1>8. e.out \in Stream /\ SameEnd(server[c], t)
    BY <1>2, <1>3, <1>5, <1>7, ReplyOk DEF OpenAt
<1>9. Shaken(c, client[c], server[c], global[c], server[c].buf \o up[c], down[c], cut[c])
    BY <1>2, OpenShaken
<1>10. Whole(c, client[c], down[c] \o e.out, cut[c])
    BY <1>2, <1>3, <1>7, <1>8, <1>9, ReplyShaken DEF OpenAt, Shaken
<1>11. Shaken(c, client[c], t, global[c], t.buf \o up[c], down[c] \o e.out, cut[c])
    BY <1>8, <1>9, <1>10 DEF Shaken, Learnt, Queued, SameEnd
<1>12. KeysKnown'
    BY <1>2, <1>3, <1>5, <1>8, KeysSame DEF SameEnd
<1>13. CutTo(c, cut[c])
    BY <1>2, CutAsItWas
<1>14. UNCHANGED conf
    BY <1>2
<1> QED
    BY <1>0, <1>6, <1>11, <1>12, <1>13, <1>14, CauseGoesOn

\* What a client's read makes of cut: true, or the read took a flight whole.
ClientCut(c, q, cm) ==
    /\ CutTo(c, cm)
    /\ ~cm => ~cut[c]
    /\ class = "tls" /\ peer[c].speaks /\ ~cm /\ client[c].tls.status # 8 => q = <<>>

LEMMA ClientCuts ==
    ASSUME CauseInv, NEW c \in Conns, NEW k \in 1..Len(down[c]), ClientRecv(c, k),
           NEW q, q = SubSeq(down[c], k + 1, Len(down[c]))
    PROVE  \E cm : ClientCut(c, q, cm)
<1>1. down[c] \in Stream /\ cut[c] \in BOOLEAN
    BY DEF CauseInv, PathInv, Functions
<1>2. PICK n \in Nat : Len(down[c]) = n
    BY <1>1, Nothing
<1>3. PICK piece, h :
          cut' = [cut EXCEPT ![c] = @ \/ /\ k < Len(down[c]) /\ peer[c].speaks
                                         /\ \/ class = "tls" /\ client[c].tls.status # 8
                                            \/ class = "http" /\ ~h.local.recvHeader
                                               /\ piece[k] = EndMark[1]]
    BY Zenon DEF ClientRecv
<1>4. PICK cm : cm = (cut[c] \/ /\ k < Len(down[c]) /\ peer[c].speaks
                                /\ \/ class = "tls" /\ client[c].tls.status # 8
                                   \/ class = "http" /\ ~h.local.recvHeader
                                      /\ piece[k] = EndMark[1])
    OBVIOUS
<1>5. cm \in BOOLEAN /\ (~cm => ~cut[c])
    BY <1>1, <1>4, Zenon
<1>6. cut' = [cut EXCEPT ![c] = cm]
    BY <1>3, <1>4
<1>7. ASSUME class = "tls", peer[c].speaks, ~cm, client[c].tls.status # 8
      PROVE  q = <<>>
    <2>1. ~(k < Len(down[c]))
        BY <1>4, <1>7
    <2>2. k = Len(down[c])
        BY <1>2, <2>1
    <2>3. k \in 0..Len(down[c])
        BY <1>2
    <2>4. q \in Stream /\ Len(q) = Len(down[c]) - k
        BY <1>1, <2>3, Cut
    <2>5. Len(q) = 0
        BY <1>2, <2>2, <2>4
    <2> QED
        BY <2>4, <2>5, Nothing
<1> QED
    BY <1>5, <1>6, <1>7 DEF ClientCut, CutTo

LEMMA ClientReadsCause ==
    ASSUME CauseInv, NEW c \in Conns, ClientReads(c)
    PROVE  CauseInv'
<1>0. PathInv /\ PathInv'
    BY ClientReadsKeep DEF CauseInv
<1>1. PICK k : ReadSize(down[c], k) /\ ClientRecv(c, k)
    BY <1>0, ClientReadsOne
<1>2. /\ status[c] = "open" /\ k \in 1..Len(down[c])
      /\ UNCHANGED <<conf, server, global, got, replied, ivCache>>
    BY <1>1 DEF ClientRecv, ReadSize, crypto
<1>3. /\ OpenAt(c) /\ ivOf[c] \in Nat /\ down[c] \in Stream
    BY <1>0, <1>2, IsOpen
<1>4. PICK p \in Stream, q \in Stream :
          /\ p = SubSeq(down[c], 1, k) /\ q = SubSeq(down[c], k + 1, Len(down[c]))
          /\ p # <<>> /\ p \o q = down[c]
    <2>1. k \in 0..Len(down[c]) /\ k # 0
        <3>1. PICK n \in Nat : Len(down[c]) = n
            BY <1>3, Nothing
        <3> QED
            BY <1>2, <3>1
    <2>2. PICK y \in Stream, z \in Stream :
              /\ y = SubSeq(down[c], 1, k) /\ z = SubSeq(down[c], k + 1, Len(down[c]))
              /\ y \o z = down[c] /\ Len(y) = k
        BY <1>3, <2>1, Cut
    <2>3. y # <<>>
        BY <2>1, <2>2, Nothing
    <2> QED
        BY <2>2, <2>3
<1>5. FetchBase(c, ivOf[c], client[c], server[c], global[c], up[c], down[c], got[c], back[c],
                replied[c], p, q)
    BY <1>3, <1>4 DEF FetchBase, OpenAt
<1>6. down' = [down EXCEPT ![c] = q]
    BY <1>1, <1>4 DEF ClientRecv
<1>7. PICK cm : ClientCut(c, q, cm)
    BY <1>1, <1>2, <1>4, ClientCuts
<1>8. CutTo(c, cm) /\ (~cm => ~cut[c]) /\ UNCHANGED conf
    BY <1>2, <1>7 DEF ClientCut
<1>9. KeysKnown'
    <2>1. server' = [server EXCEPT ![c] = server[c]] /\ UNCHANGED <<conf, ivCache>>
        BY <1>0, <1>2, AsItWas
    <2> QED
        BY <2>1, KeysSame
<1>10. Shaken(c, client[c], server[c], global[c], server[c].buf \o up[c], down[c], cut[c])
    BY <1>2, OpenShaken
<1>11. ASSUME NEW cl, NEW u, NEW bk, NEW st,
              client' = [client EXCEPT ![c] = cl], up' = [up EXCEPT ![c] = u],
              back' = [back EXCEPT ![c] = bk], status' = [status EXCEPT ![c] = st]
       PROVE  Moved(c, cl, server[c], global[c], u, q, got[c], bk, replied[c], st)
    BY <1>0, <1>2, <1>6, <1>11, AsItWas DEF Moved
<1>12. /\ client = [client EXCEPT ![c] = client[c]] /\ up = [up EXCEPT ![c] = up[c]]
       /\ back = [back EXCEPT ![c] = back[c]] /\ status = [status EXCEPT ![c] = "open"]
    BY <1>0, <1>2, AsItWas
<1>13. ASSUME NEW cl, NEW u, NEW bk,
              client' = [client EXCEPT ![c] = cl], up' = [up EXCEPT ![c] = u],
              back' = [back EXCEPT ![c] = bk], UNCHANGED status,
              Shaken(c, cl, server[c], global[c], server[c].buf \o u, q, cm)
       PROVE  CauseInv'
    <2>1. status' = [status EXCEPT ![c] = "open"]
        BY <1>12, <1>13
    <2>2. Moved(c, cl, server[c], global[c], u, q, got[c], bk, replied[c], "open")
        BY <1>11, <1>13, <2>1
    <2> QED
        BY <1>0, <1>8, <1>9, <1>13, <2>2, CauseGoesOn
<1>14. ASSUME NEW out, Taken(c, out)
       PROVE  back' = [back EXCEPT ![c] = back[c] \o Stripped(out)]
    BY <1>14 DEF Taken, Stripped
<1>15. CASE /\ class = "none" \/ ~peer[c].speaks
            /\ Taken(c, p) /\ UNCHANGED <<client, up, status>>
    <2>1. Shaken(c, client[c], server[c], global[c], server[c].buf \o up[c], q, cm)
        BY <1>10, <1>15 DEF Shaken, Queued, Whole
    <2>2. client' = [client EXCEPT ![c] = client[c]] /\ up' = [up EXCEPT ![c] = up[c]]
        BY <1>12, <1>15
    <2>3. back' = [back EXCEPT ![c] = back[c] \o Stripped(p)]
        BY <1>14, <1>15
    <2> QED
        BY <1>13, <1>15, <2>1, <2>2, <2>3
<1>16. ASSUME NEW h, class = "http", peer[c].speaks,
              client' = [client EXCEPT ![c].http = h.local], Taken(c, h.out), UNCHANGED <<up, status>>
       PROVE  CauseInv'
    <2>1. PICK kl : kl = [client[c] EXCEPT !.http = h.local]
        OBVIOUS
    <2>2. Shaken(c, kl, server[c], global[c], server[c].buf \o up[c], q, cm)
        BY <1>16 DEF Shaken, Learnt, Queued, Whole
    <2>3. client' = [client EXCEPT ![c] = kl] /\ up' = [up EXCEPT ![c] = up[c]]
        BY <1>12, <1>16, <2>1
    <2>4. back' = [back EXCEPT ![c] = back[c] \o Stripped(h.out)]
        BY <1>14, <1>16
    <2> QED
        BY <1>13, <1>16, <2>2, <2>3, <2>4
<1>17. ASSUME class = "tls", peer[c].speaks,
              ~TicketClientDecode(client[c].tls, c, p, peer[c].key).ok,
              status' = [status EXCEPT ![c] = "left"], UNCHANGED <<client, up, back>>
       PROVE  CauseInv'
    <2>1. cm \/ ~peer[c].key
        <3>1. Whole(c, client[c], down[c], cut[c])
            BY <1>10 DEF Shaken
        <3>2. ~cm => ~cut[c] /\ (client[c].tls.status # 8 => q = <<>>)
            BY <1>7, <1>17 DEF ClientCut
        <3>3. PICK key : key = peer[c].key
            OBVIOUS
        <3> QED
            BY <1>5, <1>17, <3>1, <3>2, <3>3, LeftCause
    <2>2. PICK st : st = "left"
        OBVIOUS
    <2>3. Excuse(c, st, cm) /\ st # "open" /\ Exits(st, cm)
        BY <2>1, <2>2 DEF Excuse, Exits
    <2>4. Moved(c, client[c], server[c], global[c], up[c], q, got[c], back[c], replied[c], st)
        BY <1>11, <1>12, <1>17, <2>2
    <2> QED
        BY <1>0, <1>8, <1>9, <2>3, <2>4, CauseEnds
<1>18. ASSUME NEW d, d = TicketClientDecode(client[c].tls, c, p, peer[c].key),
              class = "tls", peer[c].speaks, d.ok, ~d.back,
              client' = [client EXCEPT ![c].tls = d.local], Taken(c, d.out), UNCHANGED <<up, status>>
       PROVE  CauseInv'
    <2>0. PICK kl : kl = [client[c] EXCEPT !.tls = d.local] /\ kl.tls = d.local
        <3>1. client[c] \in ClientLocal
            BY <1>0, <1>2, IsOpen
        <3>2. [client[c] EXCEPT !.tls = d.local].tls = d.local
            BY <3>1 DEF ClientLocal
        <3> QED
            BY <3>2
    <2>1. Shaken(c, kl, server[c], global[c], server[c].buf \o up[c], q, cm)
        <3>1. PICK key, in : /\ key = peer[c].key /\ d = TicketClientDecode(client[c].tls, c, p, key)
                             /\ in = server[c].buf \o up[c]
            BY <1>18
        <3>2. class = "tls" /\ peer[c].speaks /\ d.ok /\ ~d.back /\ (~cm => ~cut[c])
            BY <1>8, <1>18
        <3>3. Shaken(c, client[c], server[c], global[c], in, down[c], cut[c])
            BY <1>10, <3>1
        <3>4. Shaken(c, kl, server[c], global[c], in, q, cm)
            <4>1. TakenRead(c, ivOf[c], client[c], server[c], global[c], up[c], down[c], got[c],
                            back[c], replied[c], p, q, key, d, in, cut[c], cm, kl)
                BY <1>5, <2>0, <3>1, <3>2, <3>3 DEF TakenRead
            <4> QED
                BY <4>1, TakenShaken
        <3> QED
            BY <3>1, <3>4
    <2>2. back' = [back EXCEPT ![c] = back[c] \o Stripped(d.out)]
        BY <1>14, <1>18
    <2>3. client' = [client EXCEPT ![c] = kl] /\ up' = [up EXCEPT ![c] = up[c]]
        BY <1>12, <1>18, <2>0
    <2> QED
        BY <1>13, <1>18, <2>1, <2>2, <2>3
<1>19. ASSUME NEW d, d = TicketClientDecode(client[c].tls, c, p, peer[c].key),
              class = "tls", peer[c].speaks, d.ok, d.back,
              NEW e \in TicketClientEncode(d.local, c, <<>>),
              client' = [client EXCEPT ![c].tls = e.local], up' = [up EXCEPT ![c] = @ \o e.out],
              UNCHANGED <<back, status>>
       PROVE  CauseInv'
    <2>0. PICK kl : kl = [client[c] EXCEPT !.tls = e.local] /\ kl.tls = e.local
        <3>1. client[c] \in ClientLocal
            BY <1>0, <1>2, IsOpen
        <3>2. [client[c] EXCEPT !.tls = e.local].tls = e.local
            BY <3>1 DEF ClientLocal
        <3> QED
            BY <3>2
    <2>1. ~cm => q = <<>>
        <3>1. PICK b \in Nat : TakeBase(c, client[c], server[c], p, q, b, Answered(server[c], replied[c]))
            BY <1>5, FetchFrom
        <3>2. TlsRead(client[c], server[c], d, q, b, Answered(server[c], replied[c]))
            BY <1>19, <3>1, TakeTls
        <3>3. client[c].tls.status = 1
            BY <1>19, <3>2 DEF TlsRead, TlsAnswered
        <3> QED
            BY <1>7, <1>19, <3>3 DEF ClientCut
    <2>2. Shaken(c, kl, server[c], global[c], server[c].buf \o (up[c] \o e.out), q, cm)
        <3>1. PICK key : key = peer[c].key /\ d = TicketClientDecode(client[c].tls, c, p, key)
            BY <1>19
        <3>2. class = "tls" /\ peer[c].speaks /\ d.ok /\ d.back
            BY <1>19
        <3>3. ReplyRead(c, ivOf[c], client[c], server[c], global[c], up[c], down[c], got[c],
                        back[c], replied[c], p, q, key, d, e, cut[c], cm, kl)
            BY <1>5, <1>10, <1>19, <2>0, <2>1, <3>1, <3>2 DEF ReplyRead
        <3> QED
            BY <3>3, FinishShaken
    <2>3. client' = [client EXCEPT ![c] = kl] /\ up' = [up EXCEPT ![c] = up[c] \o e.out]
          /\ back' = [back EXCEPT ![c] = back[c]]
        BY <1>12, <1>19, <2>0
    <2> QED
        BY <1>13, <1>19, <2>2, <2>3
<1>20. PICK d, h : /\ d = TicketClientDecode(client[c].tls, c, p, peer[c].key)
                   /\ h = HttpClientDecode(client[c].http, p)
    OBVIOUS
<1>21. \/ /\ class = "none" \/ ~peer[c].speaks
          /\ Taken(c, p)
          /\ UNCHANGED <<client, up, status>>
       \/ /\ class = "http" /\ peer[c].speaks
          /\ client' = [client EXCEPT ![c].http = h.local]
          /\ Taken(c, h.out)
          /\ UNCHANGED <<up, status>>
       \/ /\ class = "tls" /\ peer[c].speaks /\ ~d.ok
          /\ status' = [status EXCEPT ![c] = "left"]
          /\ UNCHANGED <<client, up, back>>
       \/ /\ class = "tls" /\ peer[c].speaks /\ d.ok /\ ~d.back
          /\ client' = [client EXCEPT ![c].tls = d.local]
          /\ Taken(c, d.out)
          /\ UNCHANGED <<up, status>>
       \/ /\ class = "tls" /\ peer[c].speaks /\ d.ok /\ d.back
          /\ \E e \in TicketClientEncode(d.local, c, <<>>) :
                /\ client' = [client EXCEPT ![c].tls = e.local]
                /\ up' = [up EXCEPT ![c] = @ \o e.out]
          /\ UNCHANGED <<back, status>>
    BY <1>1, <1>4, <1>20, Zenon DEF ClientRecv
<1> QED
    BY <1>15, <1>16, <1>17, <1>18, <1>19, <1>20, <1>21

-----------------------------------------------------------------------------
(* A read of the server.                                                   *)

ServerCut(c, p, cm) == CutTo(c, cm) /\ (~cm => ~cut[c] /\ InOnePiece(c, p))

LEMMA ServerCuts ==
    ASSUME CauseInv, NEW c \in Conns, NEW p,
           cut' = [cut EXCEPT ![c] = @ \/ ~InOnePiece(c, p)]
    PROVE  \E cm : ServerCut(c, p, cm)
<1>1. cut[c] \in BOOLEAN
    BY DEF CauseInv
<1>2. PICK cm : cm = (cut[c] \/ ~InOnePiece(c, p))
    OBVIOUS
<1>3. cm \in BOOLEAN /\ (~cm => ~cut[c] /\ InOnePiece(c, p))
    BY <1>1, <1>2, Zenon
<1>4. cut' = [cut EXCEPT ![c] = cm]
    BY <1>2
<1> QED
    BY <1>3, <1>4 DEF ServerCut, CutTo

LEMMA FaultExcuses ==
    ASSUME NEW c, NEW p, NEW cm, ServerCut(c, p, cm), Faulty(c, p), NEW st
    PROVE  Excuse(c, st, cm)
BY DEF ServerCut, Faulty, Excuse

LEMMA EnoughRead ==
    ASSUME NEW c, NEW p \in Stream, ~Waits(c, p), ~server[c].init
    PROVE  Len(p) > 2
<1>1. PICK n \in Nat : Len(p) = n
    BY Nothing
<1> QED
    BY <1>1 DEF Waits, IvLen

\* what is known of a read before its connection has been heard, and of its
\* outcome
FirstRead(c, p, q, d) ==
    /\ ReadBase(c, ivOf[c], client[c], server[c], global[c], up[c], down[c], got[c], back[c],
                replied[c], p, q)
    /\ ~Waits(c, p) /\ ~server[c].init /\ d \in Deobfuscated(c, p)
    /\ Shaken(c, client[c], server[c], global[c], p \o q, down[c], cut[c])
    /\ Outcome(class, peer[c].speaks, ivOf[c], c, client[c], server[c], d, p, q,
               Handed(server[c], got[c]), Written(client[c]))

LEMMA FirstStarts ==
    ASSUME NEW c, NEW p, NEW q, NEW d, FirstRead(c, p, q, d), Uncut(c, p, d)
    PROVE  StartsWell(c, d, p)
<1>1. Reads(c, ivOf[c], client[c], server[c], p, q, Handed(server[c], got[c]), Written(client[c]))
    BY ReadReads DEF FirstRead
<1>2. Len(p) > 2
    BY EnoughRead DEF FirstRead, ReadBase
<1>3. Learnt(c, server[c], global[c]) /\ Queued(c, client[c], server[c], p \o q)
    BY DEF FirstRead, Shaken
<1> QED
    BY <1>1, <1>2, <1>3, FirstReads DEF FirstRead

\* a first read presents its client's IV, or what is none
LEMMA FirstKey ==
    ASSUME NEW c, NEW p, NEW q, NEW d, FirstRead(c, p, q, d), ~d.back
    PROVE  /\ OwnIv(ivOf[c], OutOf(d, p))
           /\ OutOf(d, p) = <<>> => Len(IvKey(OutOf(d, p), p)) = 2
<1>1. OwnIv(ivOf[c], OutOf(d, p))
    <2>1. PICK k, s, r, w : /\ k = class /\ s = peer[c].speaks /\ r = Handed(server[c], got[c])
                            /\ w = Written(client[c])
        OBVIOUS
    <2>2. Outcome(k, s, ivOf[c], c, client[c], server[c], d, p, q, r, w)
        BY <2>1 DEF FirstRead
    <2>3. ~server[c].init /\ ivOf[c] \in Nat
        BY DEF FirstRead, ReadBase
    <2> QED
        BY <2>2, <2>3, FirstIv
<1>2. ASSUME OutOf(d, p) = <<>>
      PROVE  Len(IvKey(OutOf(d, p), p)) = 2
    <2>1. Len(p) > 2 /\ p \in Stream /\ Len(p) \in Nat
        BY EnoughRead, Nothing DEF FirstRead, ReadBase
    <2>2. PICK k \in 0..Len(p) : k = 2
        BY <2>1
    <2>3. Len(SubSeq(p, 1, k)) = k
        BY <2>1, Cut
    <2> QED
        BY <1>2, <2>2, <2>3 DEF IvKey
<1> QED
    BY <1>1, <1>2

\* A read that is not understood, and not let through.
LEMMA RefusedCause ==
    ASSUME NEW c, NEW p, NEW q, NEW d, d \in Deobfuscated(c, p), ~d.ok, ~compatible,
           Outcome(class, peer[c].speaks, ivOf[c], c, client[c], server[c], d, p, q,
                   Handed(server[c], got[c]), Written(client[c])),
           ~server[c].init => FirstRead(c, p, q, d),
           NEW cm, ServerCut(c, p, cm), NEW st
    PROVE  Excuse(c, st, cm)
<1>1. CASE server[c].init
    <2>1. Passes(class, peer[c].speaks, ivOf[c], client[c], server[c], d, p, q,
                 Handed(server[c], got[c]), Written(client[c]))
        BY <1>1 DEF Outcome, Fails, Greets
    <2>2. class # "none"
        BY DEF Deobfuscated
    <2>3. ~peer[c].speaks
        BY <2>1, <2>2 DEF Passes
    <2> QED
        BY <2>2, <2>3 DEF Excuse
<1>2. CASE ~server[c].init /\ Faulty(c, p)
    BY <1>2, FaultExcuses
<1>3. CASE ~server[c].init /\ ~Faulty(c, p)
    <2>1. StartsWell(c, d, p)
        BY <1>3, FirstStarts DEF Uncut, Faulty
    <2> QED
        BY <2>1 DEF StartsWell, Excuse
<1> QED
    BY <1>1, <1>2, <1>3

\* what ss_decrypt makes of the first bytes
FirstStatus(c, key, out) ==
    IF IvSeen(key) THEN "repeated"
    ELSE IF Len(out) < IvLen THEN Underflow
    ELSE IF out[1].t # "iv" \/ ~peer[c].key THEN "noise"
    ELSE IF Len(out) = IvLen THEN "noHeader" ELSE "open"

LEMMA DecryptCause ==
    ASSUME CauseInv, NEW c \in Conns, NEW p, NEW q, NEW d, FirstRead(c, p, q, d), ~d.back,
           NEW out, out = OutOf(d, p), NEW key, key = IvKey(out, p),
           NEW st, st = FirstStatus(c, key, out), st # "open",
           NEW cm, ServerCut(c, p, cm)
    PROVE  Excuse(c, st, cm)
<1>1. CASE Faulty(c, p)
    BY <1>1, FaultExcuses
<1>2. CASE ~Faulty(c, p)
    <2>1. IvFirst(out) /\ peer[c].key
        <3>1. StartsWell(c, d, p)
            BY <1>2, FirstStarts DEF Uncut, Faulty
        <3> QED
            BY <1>2, <3>1 DEF StartsWell, Faulty
    <2>2. Len(out) \in Nat \ {0, 1} /\ out # <<>> /\ out[1].t \in {"iv", "bad"}
        BY <2>1 DEF IvFirst
    <2>3. key = <<out[1]>> /\ Len(key) = 1 /\ key[1] = out[1]
        BY <2>2 DEF IvKey
    <2>4. CASE IvSeen(key)
        <3>1. PICK e \in Conns : server[e].init /\ ivOf[e] = key[1].v
            BY <2>2, <2>3, <2>4 DEF CauseInv, KeysKnown, IvSeen
        <3>2. OwnIv(ivOf[c], out)
            BY FirstKey
        <3>3. key[1].v = ivOf[c]
            BY <2>2, <2>3, <3>2 DEF OwnIv
        <3>4. ~server[c].init
            BY DEF FirstRead
        <3>5. e \in Conns \ {c} /\ ivOf[e] = ivOf[c]
            BY <3>1, <3>3, <3>4
        <3>6. st = "repeated"
            BY <2>4 DEF FirstStatus
        <3> QED
            BY <3>5, <3>6 DEF Excuse
    <2>5. CASE ~IvSeen(key)
        <3>1. out[1].t # "iv" /\ st = "noise"
            BY <2>1, <2>2, <2>5 DEF FirstStatus, IvLen
        <3> QED
            BY <2>1, <3>1 DEF IvFirst, Excuse
    <2> QED
        BY <2>4, <2>5
<1> QED
    BY <1>1, <1>2

\* A first read that leaves less than an IV was cut.
LEMMA NothingIsCut ==
    ASSUME NEW c, NEW p, NEW q, NEW d, FirstRead(c, p, q, d), ~d.back, Len(OutOf(d, p)) < 1
    PROVE  class # "none" /\ ~InOnePiece(c, p)
<1>1. Len(p) > 2 /\ Len(p) \in Nat
    BY EnoughRead, Nothing DEF FirstRead, ReadBase
<1>2. OutOf(d, p) # p
    BY <1>1
<1>3. d.ok
    BY <1>2 DEF OutOf
<1>4. class # "none"
    BY <1>2, <1>3 DEF FirstRead, Deobfuscated, OutOf
<1>5. ASSUME InOnePiece(c, p) PROVE FALSE
    <2>1. StartsWell(c, d, p)
        BY <1>3, <1>5, FirstStarts DEF Uncut
    <2>2. Len(OutOf(d, p)) \in Nat \ {0, 1}
        BY <2>1 DEF StartsWell, IvFirst
    <2> QED
        BY <2>2
<1> QED
    BY <1>4, <1>5

LEMMA ExitCause ==
    ASSUME NEW c, NEW p, NEW q, NEW d, FirstRead(c, p, q, d), ~d.back,
           NEW key, NEW st, st = FirstStatus(c, key, OutOf(d, p)), NEW cm, ServerCut(c, p, cm)
    PROVE  Exits(st, cm)
<1> SUFFICES ASSUME st = "exit" PROVE method = "sodium" /\ class # "none" /\ cm
    BY DEF Exits
<1>1. method = "sodium" /\ Len(OutOf(d, p)) < 1
    BY DEF FirstStatus, Underflow, IvLen
<1> QED
    BY <1>1, NothingIsCut DEF ServerCut

\* Once the server has decrypted, of the handshake only the reply is left.
LEMMA OpenOver ==
    ASSUME PathInv, PathInv', NEW c \in Conns, UNCHANGED conf,
           NEW cl, NEW sv, NEW gl, NEW u, NEW dn, NEW g, NEW bk, NEW n,
           Moved(c, cl, sv, gl, u, dn, g, bk, n, "open"), sv.init,
           NEW ct, Whole(c, cl, dn, ct)
    PROVE  Shaken(c, cl, sv, gl, sv.buf \o u, dn, ct)
<1>1. peer' = peer /\ ivOf' = ivOf /\ class' = class
    BY DEF conf, class
<1>2. /\ client'[c] = cl /\ server'[c] = sv /\ global'[c] = gl /\ up'[c] = u /\ down'[c] = dn
      /\ got'[c] = g /\ back'[c] = bk /\ replied'[c] = n /\ status'[c] = "open"
    BY DEF PathInv, Functions, Moved
<1>3. OkAt(c)'
    BY DEF PathInv
<1>4. ConnOk(c, class', peer'[c].speaks, ivOf'[c], client'[c], server'[c], global'[c], up'[c],
             down'[c], got'[c], back'[c], replied'[c], status'[c])
    BY <1>3, Zenon DEF OkAt
<1>5. ConnOk(c, class, peer[c].speaks, ivOf[c], cl, sv, gl, u, dn, g, bk, n, "open")
    BY <1>1, <1>2, <1>4
<1>6. ivOf[c] \in Nat
    BY PathAssumption DEF PathInv, Given
<1>7. UpShape(class, peer[c].speaks, ivOf[c], c, cl, sv, u, g)
    BY <1>5 DEF ConnOk, Open
<1>8. PICK in : in = sv.buf \o u
    OBVIOUS
<1>9. Learnt(c, sv, gl) /\ Queued(c, cl, sv, in)
    <2>1. PICK v \in Nat : v = ivOf[c]
        BY <1>6
    <2> QED
        BY <1>7, <2>1, ShakenOver
<1> QED
    BY <1>8, <1>9 DEF Shaken

LEMMA ServerReadsCause ==
    ASSUME CauseInv, NEW c \in Conns, ServerReads(c)
    PROVE  CauseInv'
<1>0. PathInv /\ PathInv'
    BY ServerReadsKeep DEF CauseInv
<1>1. PICK k : ReadSize(up[c], k) /\ ServerRecv(c, k)
    BY <1>0, ServerReadsOne
<1>2. /\ status[c] = "open" /\ k \in 1..Len(up[c])
      /\ UNCHANGED <<conf, client, back, replied>>
    BY <1>1 DEF ServerRecv, ReadSize
<1>3. /\ OpenAt(c) /\ ivOf[c] \in Nat /\ up[c] \in Stream /\ down[c] \in Stream
      /\ server[c] \in ServerLocal /\ server[c].tls.status \in ServerStatus
      /\ server[c].buf \in Stream
    BY <1>0, <1>2, IsOpen DEF ServerLocal
<1>4. PICK p \in Stream, q \in Stream :
          /\ p = server[c].buf \o SubSeq(up[c], 1, k) /\ q = SubSeq(up[c], k + 1, Len(up[c]))
          /\ p # <<>> /\ p \o q = server[c].buf \o up[c]
    <2>1. PICK h \in Stream, x \in Stream : h = server[c].buf /\ x = up[c]
        BY <1>3
    <2>2. /\ h \o SubSeq(x, 1, k) \in Stream /\ SubSeq(x, k + 1, Len(x)) \in Stream
          /\ h \o SubSeq(x, 1, k) # <<>>
          /\ (h \o SubSeq(x, 1, k)) \o SubSeq(x, k + 1, Len(x)) = h \o x
        BY <1>2, <2>1, Piece
    <2> QED
        BY <2>1, <2>2
<1>5. ReadBase(c, ivOf[c], client[c], server[c], global[c], up[c], down[c], got[c], back[c],
               replied[c], p, q)
    BY <1>3, <1>4 DEF ReadBase, OpenAt
<1>6. up' = [up EXCEPT ![c] = q] /\ UNCHANGED conf
    BY <1>1, <1>2, <1>4 DEF ServerRecv
<1>7. ASSUME NEW sv, NEW gl, NEW dn, NEW g, NEW st,
             server' = [server EXCEPT ![c] = sv], global' = [global EXCEPT ![c] = gl],
             down' = [down EXCEPT ![c] = dn], got' = [got EXCEPT ![c] = g],
             status' = [status EXCEPT ![c] = st]
      PROVE  Moved(c, client[c], sv, gl, q, dn, g, back[c], replied[c], st)
    BY <1>0, <1>2, <1>6, <1>7, AsItWas DEF Moved
<1>8. /\ server = [server EXCEPT ![c] = server[c]] /\ global = [global EXCEPT ![c] = global[c]]
      /\ down = [down EXCEPT ![c] = down[c]] /\ got = [got EXCEPT ![c] = got[c]]
      /\ status = [status EXCEPT ![c] = "open"]
    BY <1>0, <1>2, AsItWas
<1>9. Shaken(c, client[c], server[c], global[c], p \o q, down[c], cut[c])
    BY <1>2, <1>4, OpenShaken
<1>10. CASE /\ Waits(c, p) /\ server' = [server EXCEPT ![c].buf = p]
            /\ UNCHANGED <<global, got, down, crypto, status, cut>>
    <2>1. PICK t : /\ t = [server[c] EXCEPT !.buf = p]
                   /\ t.tls = server[c].tls /\ t.buf = p /\ t.init = server[c].init
        <3>1. PICK s \in ServerLocal : s = server[c]
            BY <1>3
        <3>2. /\ [s EXCEPT !.buf = p].tls = s.tls /\ [s EXCEPT !.buf = p].buf = p
              /\ [s EXCEPT !.buf = p].init = s.init
            BY DEF ServerLocal
        <3> QED
            BY <3>1, <3>2
    <2>2. server' = [server EXCEPT ![c] = t]
        BY <1>10, <2>1
    <2>3. /\ global' = [global EXCEPT ![c] = global[c]] /\ got' = [got EXCEPT ![c] = got[c]]
          /\ down' = [down EXCEPT ![c] = down[c]] /\ status' = [status EXCEPT ![c] = "open"]
        BY <1>8, <1>10
    <2>4. Moved(c, client[c], t, global[c], q, down[c], got[c], back[c], replied[c], "open")
        BY <1>7, <2>2, <2>3
    <2>5. Shaken(c, client[c], t, global[c], t.buf \o q, down[c], cut[c])
        BY <1>9, <2>1 DEF Shaken, Learnt, Queued
    <2>6. KeysKnown'
        <3>1. ivCache' = ivCache
            BY <1>10 DEF crypto
        <3> QED
            BY <1>6, <2>1, <2>2, <3>1, KeysSame
    <2>7. CutTo(c, cut[c])
        BY <1>10, CutAsItWas
    <2> QED
        BY <1>0, <1>6, <2>4, <2>5, <2>6, <2>7, CauseGoesOn
<1>11. ASSUME NEW d \in Deobfuscated(c, p)
       PROVE  /\ d.global[c] \in Globals /\ d.global = [global EXCEPT ![c] = d.global[c]]
              /\ Kept(server[c], d.server) /\ d.ok \in BOOLEAN
              /\ Outcome(class, peer[c].speaks, ivOf[c], c, client[c], server[c], d, p, q,
                         Handed(server[c], got[c]), Written(client[c]))
    <2>1. global \in [Conns -> Globals] /\ global \in [Conns -> GlobalLocal]
        BY <1>0 DEF PathInv, Functions, Globals
    <2>2. DecodedSide(c, d)
        BY <1>3, <1>4, <2>1, DecodeSide
    <2>3. d.global = [global EXCEPT ![c] = d.global[c]]
        BY <2>1, <2>2 DEF DecodedSide
    <2>4. Outcome(class, peer[c].speaks, ivOf[c], c, client[c], server[c], d, p, q,
                  Handed(server[c], got[c]), Written(client[c]))
        <3>1. Reads(c, ivOf[c], client[c], server[c], p, q, Handed(server[c], got[c]), Written(client[c]))
            BY <1>5, ReadReads
        <3> QED
            BY <2>1, <3>1, Decodes
    <2> QED
        BY <2>2, <2>3, <2>4 DEF DecodedSide, Outcome
<1>12. ASSUME ~Waits(c, p), ~server[c].init, NEW d \in Deobfuscated(c, p)
       PROVE  FirstRead(c, p, q, d)
    BY <1>5, <1>9, <1>11, <1>12 DEF FirstRead
<1>13. ASSUME NEW cm, ServerCut(c, p, cm)
       PROVE  CutTo(c, cm) /\ Whole(c, client[c], down[c], cm)
    BY <1>9, <1>13 DEF ServerCut, Shaken, Whole
<1>14. ASSUME NEW cm, ServerCut(c, p, cm), ~Waits(c, p), NEW d \in Deobfuscated(c, p), ~d.ok,
              ~compatible, global' = d.global, status' = [status EXCEPT ![c] = "refused"],
              UNCHANGED <<server, got, down, crypto>>
       PROVE  CauseInv'
    <2>1. PICK st : st = "refused"
        OBVIOUS
    <2>2. /\ server' = [server EXCEPT ![c] = server[c]] /\ got' = [got EXCEPT ![c] = got[c]]
          /\ down' = [down EXCEPT ![c] = down[c]] /\ global' = [global EXCEPT ![c] = d.global[c]]
          /\ status' = [status EXCEPT ![c] = st]
        BY <1>8, <1>11, <1>14, <2>1
    <2>3. Moved(c, client[c], server[c], d.global[c], q, down[c], got[c], back[c], replied[c], st)
        BY <1>7, <2>2
    <2>4. Excuse(c, st, cm) /\ Exits(st, cm)
        BY <1>11, <1>12, <1>14, <2>1, RefusedCause DEF Exits
    <2>5. KeysKnown'
        <3>1. ivCache' = ivCache
            BY <1>14 DEF crypto
        <3> QED
            BY <1>6, <2>2, <3>1, KeysSame
    <2> QED
        BY <1>0, <1>6, <1>13, <1>14, <2>1, <2>3, <2>4, <2>5, CauseEnds
<1>15. ASSUME NEW cm, ServerCut(c, p, cm), NEW d \in Deobfuscated(c, p), d.back, global' = d.global,
              NEW e \in TicketServerEncode(d.server.tls, d.global[Global(c)], <<>>),
              server' = [server EXCEPT ![c] = [d.server EXCEPT !.tls = e.local, !.buf = <<>>]],
              down' = [down EXCEPT ![c] = @ \o e.out], UNCHANGED <<got, crypto, status>>
       PROVE  CauseInv'
    <2>1. Greets(class, peer[c].speaks, c, client[c], server[c], d, q) /\ Kept(server[c], d.server)
        BY <1>11, <1>15 DEF Outcome, Passes, Fails
    <2>2. PICK t : /\ t = [d.server EXCEPT !.tls = e.local, !.buf = <<>>] /\ t.tls = e.local
                   /\ t.init = d.server.init
        <3>1. PICK s \in ServerLocal : s = d.server
            BY <2>1 DEF Kept
        <3>2. /\ [s EXCEPT !.tls = e.local, !.buf = <<>>].tls = e.local
              /\ [s EXCEPT !.tls = e.local, !.buf = <<>>].init = s.init
            BY DEF ServerLocal
        <3> QED
            BY <3>1, <3>2
    <2>3. /\ server' = [server EXCEPT ![c] = t] /\ got' = [got EXCEPT ![c] = got[c]]
          /\ down' = [down EXCEPT ![c] = down[c] \o e.out]
          /\ global' = [global EXCEPT ![c] = d.global[c]] /\ status' = [status EXCEPT ![c] = "open"]
        BY <1>8, <1>11, <1>15, <2>2
    <2>4. Moved(c, client[c], t, d.global[c], q, down[c] \o e.out, got[c], back[c], replied[c], "open")
        BY <1>7, <2>3
    <2>5. Shaken(c, client[c], t, d.global[c], t.buf \o q, down[c] \o e.out, cm)
        <3>1. GreetRead(c, ivOf[c], client[c], server[c], global[c], up[c], down[c], got[c], back[c],
                        replied[c], p, q, d, e, cut[c])
            BY <1>5, <1>9, <1>15, <2>1 DEF GreetRead
        <3> QED
            BY <2>2, <3>1, GreetShaken
    <2>6. KeysKnown'
        <3>1. ivCache' = ivCache
            BY <1>15 DEF crypto
        <3>2. server[c].init => t.init
            BY <2>1, <2>2 DEF Kept
        <3> QED
            BY <1>6, <2>3, <3>1, <3>2, KeysSame
    <2> QED
        BY <1>0, <1>6, <1>13, <1>15, <2>4, <2>5, <2>6, CauseGoesOn
<1>16. ASSUME NEW d \in Deobfuscated(c, p)
       PROVE  Seen(d).init
    BY <1>3, <1>11, <1>16, SeenType
<1>17. ASSUME NEW cm, ServerCut(c, p, cm), NEW d \in Deobfuscated(c, p), ~d.back, global' = d.global,
              server' = [server EXCEPT ![c] = Seen(d)], server[c].init,
              DecryptMore(c, OutOf(d, p)), UNCHANGED down
       PROVE  CauseInv'
    <2>1. PICK t, g : t = Seen(d) /\ t.init /\ g = got[c] \o OutOf(d, p)
        BY <1>16
    <2>2. /\ server' = [server EXCEPT ![c] = t] /\ got' = [got EXCEPT ![c] = g]
          /\ down' = [down EXCEPT ![c] = down[c]] /\ status' = [status EXCEPT ![c] = "open"]
          /\ global' = [global EXCEPT ![c] = d.global[c]]
        BY <1>8, <1>11, <1>17, <2>1 DEF DecryptMore
    <2>3. Moved(c, client[c], t, d.global[c], q, down[c], g, back[c], replied[c], "open")
        BY <1>7, <2>2
    <2>4. Shaken(c, client[c], t, d.global[c], t.buf \o q, down[c], cm)
        BY <1>0, <1>6, <1>13, <1>17, <2>1, <2>3, OpenOver
    <2>5. KeysKnown'
        <3>1. ivCache' = ivCache
            BY <1>17 DEF DecryptMore, crypto
        <3> QED
            BY <1>6, <2>1, <2>2, <3>1, KeysSame
    <2> QED
        BY <1>0, <1>6, <1>13, <1>17, <2>3, <2>4, <2>5, CauseGoesOn
<1>18. ASSUME NEW cm, ServerCut(c, p, cm), ~Waits(c, p), NEW d \in Deobfuscated(c, p), ~d.back,
              global' = d.global, server' = [server EXCEPT ![c] = Seen(d)], ~server[c].init,
              DecryptFirst(c, OutOf(d, p), p), UNCHANGED down
       PROVE  CauseInv'
    <2>1. FirstRead(c, p, q, d)
        BY <1>12, <1>18
    <2>2. PICK t, out, key : t = Seen(d) /\ t.init /\ out = OutOf(d, p) /\ key = IvKey(out, p)
        BY <1>16
    <2>3. PICK st : st = FirstStatus(c, key, out)
        OBVIOUS
    <2>4. Checked(key) /\ status' = [status EXCEPT ![c] = st]
        BY <1>18, <2>2, <2>3 DEF DecryptFirst, FirstStatus
    <2>5. PICK g : got' = [got EXCEPT ![c] = g]
        <3>1. got' = [got EXCEPT ![c] = IF status'[c] = "open" THEN SubSeq(out, IvLen + 1, Len(out))
                                        ELSE got[c]]
            BY <1>18, <2>2 DEF DecryptFirst
        <3> QED
            BY <3>1
    <2>6. /\ server' = [server EXCEPT ![c] = t] /\ down' = [down EXCEPT ![c] = down[c]]
          /\ global' = [global EXCEPT ![c] = d.global[c]]
        BY <1>8, <1>11, <1>18, <2>2
    <2>7. Moved(c, client[c], t, d.global[c], q, down[c], g, back[c], replied[c], st)
        BY <1>7, <2>4, <2>5, <2>6
    <2>8. KeysKnown'
        <3>1. OwnIv(ivOf[c], out) /\ (out = <<>> => Len(key) = 2)
            BY <1>18, <2>1, <2>2, FirstKey
        <3>2. Len(key) = 1 /\ key[1].t \in {"iv", "bad"} => key[1].v = ivOf[c]
            <4>1. out # <<>> => key = <<out[1]>>
                BY <2>2 DEF IvKey
            <4>2. out # <<>> => key[1] = out[1]
                BY <4>1
            <4> QED
                BY <3>1, <4>2 DEF OwnIv
        <3> QED
            BY <1>6, <2>2, <2>4, <2>6, <3>2, KeysMore
    <2>9. CASE st = "open"
        <3>1. Moved(c, client[c], t, d.global[c], q, down[c], g, back[c], replied[c], "open")
            BY <2>7, <2>9
        <3>2. Shaken(c, client[c], t, d.global[c], t.buf \o q, down[c], cm)
            BY <1>0, <1>6, <1>13, <1>18, <2>2, <3>1, OpenOver
        <3> QED
            BY <1>0, <1>6, <1>13, <1>18, <2>8, <3>1, <3>2, CauseGoesOn
    <2>10. CASE st # "open"
        <3>1. Excuse(c, st, cm) /\ Exits(st, cm)
            BY <1>18, <2>1, <2>2, <2>3, <2>10, DecryptCause, ExitCause
        <3> QED
            BY <1>0, <1>6, <1>13, <1>18, <2>7, <2>8, <2>10, <3>1, CauseEnds
    <2> QED
        BY <2>9, <2>10
<1>19. \/ /\ Waits(c, p) /\ server' = [server EXCEPT ![c].buf = p]
          /\ UNCHANGED <<global, got, down, crypto, status, cut>>
       \/ /\ ~Waits(c, p) /\ cut' = [cut EXCEPT ![c] = @ \/ ~InOnePiece(c, p)]
          /\ \E d \in Deobfuscated(c, p) :
             /\ global' = d.global
             /\ \/ /\ ~d.ok /\ ~compatible /\ status' = [status EXCEPT ![c] = "refused"]
                   /\ UNCHANGED <<server, got, down, crypto>>
                \/ /\ d.back
                   /\ \E e \in TicketServerEncode(d.server.tls, d.global[Global(c)], <<>>) :
                         /\ server' = [server EXCEPT ![c] = [d.server EXCEPT !.tls = e.local, !.buf = <<>>]]
                         /\ down' = [down EXCEPT ![c] = @ \o e.out]
                   /\ UNCHANGED <<got, crypto, status>>
                \/ /\ ~d.back
                   /\ server' = [server EXCEPT ![c] = Seen(d)]
                   /\ IF server[c].init THEN DecryptMore(c, OutOf(d, p))
                      ELSE DecryptFirst(c, OutOf(d, p), p)
                   /\ UNCHANGED down
    BY <1>1, <1>4 DEF ServerRecv, Seen, OutOf
<1>20. CASE ~Waits(c, p) /\ cut' = [cut EXCEPT ![c] = @ \/ ~InOnePiece(c, p)]
    <2>1. PICK cm : ServerCut(c, p, cm)
        BY <1>20, ServerCuts
    <2> QED
        BY <1>14, <1>15, <1>17, <1>18, <1>19, <1>20, <2>1
<1> QED
    BY <1>10, <1>19, <1>20

LEMMA InitCause == Init => CauseInv
<1> SUFFICES ASSUME Init PROVE CauseInv
    OBVIOUS
<1>1. PathInv
    BY InitPath
<1>2. cut \in [Conns -> BOOLEAN] /\ \A c \in Conns : status[c] = "open"
    BY DEF Init
<1>3. KeysKnown
    <2>1. CacheKeys(ivCache) = {}
        BY EmptyCacheSound DEF Init
    <2> QED
        BY <2>1 DEF KeysKnown
<1>4. ASSUME NEW c \in Conns PROVE ShakenAt(c)
    <2>1. /\ client[c].tls = NewTicket /\ server[c].tls = NewTicket
          /\ global[c] = NewTicketGlobal
        BY DEF Init
    <2>2. NewTicket.status = 0 /\ NewTicketGlobal.hellos = {}
        BY DEF NewTicket, NewTicketGlobal
    <2> QED
        BY <2>1, <2>2 DEF ShakenAt, Shaken, Learnt, Queued, Whole
<1> QED
    BY <1>1, <1>2, <1>3, <1>4 DEF CauseInv, RefusedForCause

LEMMA NextCause == CauseInv /\ [Next]_vars => CauseInv'
<1> SUFFICES ASSUME CauseInv, [Next]_vars PROVE CauseInv'
    OBVIOUS
<1>1. CASE UNCHANGED vars
    <2>1. PathInv'
        BY NextPath DEF CauseInv
    <2>2. /\ UNCHANGED <<plugin, compatible, method, peer, ivOf, client, server, global>>
          /\ UNCHANGED <<up, down, ivCache, status, cut>>
        BY <1>1 DEF vars, conf, upward, downward, crypto
    <2>3. class' = class
        BY <2>2 DEF class
    <2>4. KeysKnown'
        BY <2>2 DEF CauseInv, KeysKnown
    <2>5. RefusedForCause'
        BY <2>2, <2>3 DEF CauseInv, RefusedForCause, Excused
    <2>6. ASSUME NEW c \in Conns, status'[c] = "open" PROVE ShakenAt(c)'
        <3>1. ShakenAt(c)
            BY <2>2, <2>6 DEF CauseInv
        <3> QED
            BY <2>2, <2>3, <3>1 DEF ShakenAt, Shaken, Learnt, Queued, Whole
    <2> QED
        BY <2>1, <2>2, <2>4, <2>5, <2>6 DEF CauseInv
<1>2. CASE Next
    BY <1>2, WritesCause, ServerReadsCause, ClientReadsCause, RepliesCause DEF Next
<1> QED
    BY <1>1, <1>2

\* A connection is ended only for what its own client did, its path did to one of
\* its flights, or another client with the same IV: what server_recv_cb refuses,
\* and what ss_decrypt and the client's decoder give up on, is never the work of
\* another connection or of how data shares its reads, for any number of clients,
\* plug-ins, lengths of flights and reads.  The process exits, and ends them all,
\* only on a flight that was cut in front of a cipher of libsodium.
THEOREM EndsForCause == Spec => []RefusedForCause
<1>1. CauseInv => RefusedForCause
    BY DEF CauseInv
<1> QED
    BY <1>1, InitCause, NextCause, PTL DEF Spec
=============================================================================
