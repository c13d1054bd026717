------------------------------ MODULE CacheProofs ------------------------------
(***************************************************************************)
(* What the operations of the cache preserve and return, for any keys,     *)
(* any data and any capacity of at least 2.                                *)
(***************************************************************************)
EXTENDS Cache, FiniteSetTheorems, TLAPS

\* a finite hash and a relation on its keys
IsCache(ch) ==
    /\ ch = [item |-> ch.item, older |-> ch.older]
    /\ ch.item = [k \in CacheKeys(ch) |-> ch.item[k]]
    /\ IsFiniteSet(CacheKeys(ch))
    /\ ch.older \subseteq CacheKeys(ch) \X CacheKeys(ch)

\* the relation is total, and every set of keys has an oldest one
Ordered(ch) ==
    /\ \A j, k \in CacheKeys(ch) :
           j # k => ((<<j, k>> \in ch.older) # (<<k, j>> \in ch.older))
    /\ \A S \in SUBSET CacheKeys(ch) :
           S # {} => \E m \in S : \A j \in S : <<j, m>> \notin ch.older

Sound(ch) == IsCache(ch) /\ Ordered(ch)

\* The empty cache is sound (cache_create).
LEMMA EmptyCacheSound == Sound(EmptyCache) /\ CacheKeys(EmptyCache) = {}
<1>1. CacheKeys(EmptyCache) = {}
  BY DEF EmptyCache, CacheKeys
<1>2. IsFiniteSet({})
  BY FS_EmptySet
<1>3. IsCache(EmptyCache)
  BY <1>1, <1>2 DEF EmptyCache, CacheKeys, IsCache
<1>4. QED
  BY <1>1, <1>3 DEF Sound, Ordered

\* cache_remove and cache_clear take exactly the named keys out and leave the
\* entries and the order of the others alone.
LEMMA DroppedSound ==
  ASSUME NEW ch, NEW S, IsCache(ch)
  PROVE  /\ IsCache(Dropped(ch, S))
         /\ Ordered(ch) => Ordered(Dropped(ch, S))
         /\ CacheKeys(Dropped(ch, S)) = CacheKeys(ch) \ S
         /\ \A k \in CacheKeys(ch) \ S : Dropped(ch, S).item[k] = ch.item[k]
         /\ \A j, k \in CacheKeys(ch) \ S :
                (<<j, k>> \in Dropped(ch, S).older) <=> (<<j, k>> \in ch.older)
<1> DEFINE D == Dropped(ch, S)
<1>1. CacheKeys(D) = CacheKeys(ch) \ S
  BY DEF Dropped, CacheKeys
<1>2. \A k \in CacheKeys(ch) \ S : D.item[k] = ch.item[k]
  BY DEF Dropped, CacheKeys
<1>3. D.older = {p \in ch.older : p[1] \notin S /\ p[2] \notin S}
  BY DEF Dropped
<1>4. \A j, k \in CacheKeys(ch) \ S : (<<j, k>> \in D.older) <=> (<<j, k>> \in ch.older)
  BY <1>3
<1>5. IsFiniteSet(CacheKeys(ch) \ S)
  BY FS_Subset DEF IsCache
<1>6. D.older \subseteq CacheKeys(D) \X CacheKeys(D)
  BY <1>1, <1>3 DEF IsCache
<1>7. D.item = [k \in CacheKeys(D) |-> D.item[k]]
  BY DEF Dropped, CacheKeys
<1>8. D = [item |-> D.item, older |-> D.older]
  BY DEF Dropped
<1>9. IsCache(D)
  BY <1>1, <1>5, <1>6, <1>7, <1>8 DEF IsCache
<1>10. ASSUME Ordered(ch) PROVE Ordered(D)
  <2>1. \A j, k \in CacheKeys(D) :
            j # k => ((<<j, k>> \in D.older) # (<<k, j>> \in D.older))
    BY <1>1, <1>4, <1>10 DEF Ordered
  <2>2. ASSUME NEW T \in SUBSET CacheKeys(D), T # {}
        PROVE  \E m \in T : \A j \in T : <<j, m>> \notin D.older
    <3>1. T \in SUBSET CacheKeys(ch)
      BY <1>1, <2>2
    <3>2. PICK m \in T : \A j \in T : <<j, m>> \notin ch.older
      BY <1>10, <2>2, <3>1 DEF Ordered
    <3>3. QED
      BY <1>3, <3>2
  <2>3. QED
    BY <2>1, <2>2 DEF Ordered
<1>11. QED
  BY <1>1, <1>2, <1>4, <1>9, <1>10

\* A key that is added or added again has age 0 and is behind all the others,
\* whose entries and order do not change.
LEMMA AppendedSound ==
  ASSUME NEW ch, NEW k, NEW d, IsCache(ch)
  PROVE  /\ IsCache(Appended(ch, k, d))
         /\ Ordered(ch) => Ordered(Appended(ch, k, d))
         /\ CacheKeys(Appended(ch, k, d)) = CacheKeys(ch) \cup {k}
         /\ Appended(ch, k, d).item[k] = [age |-> 0, data |-> d]
         /\ \A j \in CacheKeys(ch) \ {k} : Appended(ch, k, d).item[j] = ch.item[j]
         /\ \A i, j \in CacheKeys(ch) \cup {k} :
                (<<i, j>> \in Appended(ch, k, d).older)
                    <=> /\ i # k
                        /\ j = k \/ <<i, j>> \in ch.older
<1> DEFINE A == Appended(ch, k, d)
           R == Dropped(ch, {k})
<1>1. /\ IsCache(R)
      /\ Ordered(ch) => Ordered(R)
      /\ CacheKeys(R) = CacheKeys(ch) \ {k}
      /\ \A j \in CacheKeys(ch) \ {k} : R.item[j] = ch.item[j]
      /\ \A i, j \in CacheKeys(ch) \ {k} : (<<i, j>> \in R.older) <=> (<<i, j>> \in ch.older)
  BY DroppedSound
<1>2. /\ A.item = [j \in CacheKeys(R) \cup {k} |->
                     IF j = k THEN [age |-> 0, data |-> d] ELSE R.item[j]]
      /\ A.older = R.older \cup {<<j, k>> : j \in CacheKeys(R)}
      /\ A = [item |-> A.item, older |-> A.older]
  BY DEF Appended
<1> HIDE DEF A, R
<1>3. CacheKeys(A) = CacheKeys(ch) \cup {k}
  BY <1>1, <1>2 DEF CacheKeys
<1>4. A.item[k] = [age |-> 0, data |-> d]
  BY <1>2
<1>5. \A j \in CacheKeys(ch) \ {k} : A.item[j] = ch.item[j]
  BY <1>1, <1>2
<1>6. R.older \subseteq CacheKeys(R) \X CacheKeys(R)
  BY <1>1 DEF IsCache
<1>7. \A i, j \in CacheKeys(ch) \cup {k} :
          (<<i, j>> \in A.older) <=> (i # k /\ (j = k \/ <<i, j>> \in ch.older))
  <2> SUFFICES ASSUME NEW i \in CacheKeys(ch) \cup {k}, NEW j \in CacheKeys(ch) \cup {k}
               PROVE  (<<i, j>> \in A.older)
                          <=> (i # k /\ (j = k \/ <<i, j>> \in ch.older))
    OBVIOUS
  <2>1. (<<i, j>> \in A.older)
            <=> (<<i, j>> \in R.older \/ (j = k /\ i \in CacheKeys(R)))
    BY <1>2
  <2>2. CASE i = k
    BY <1>1, <1>6, <2>1, <2>2
  <2>3. CASE i # k /\ j = k
    BY <1>1, <2>1, <2>3
  <2>4. CASE i # k /\ j # k
    BY <1>1, <2>1, <2>4
  <2>5. QED
    BY <2>2, <2>3, <2>4
<1>8. IsFiniteSet(CacheKeys(A))
  BY <1>3, FS_AddElement DEF IsCache
<1>9. A.older \subseteq CacheKeys(A) \X CacheKeys(A)
  BY <1>1, <1>2, <1>3, <1>6
<1>10. A.item = [j \in CacheKeys(A) |-> A.item[j]]
  BY <1>2 DEF CacheKeys
<1>11. IsCache(A)
  BY <1>2, <1>8, <1>9, <1>10 DEF IsCache
<1>12. ASSUME Ordered(ch) PROVE Ordered(A)
  <2>1. ASSUME NEW i \in CacheKeys(A), NEW j \in CacheKeys(A), i # j
        PROVE  (<<i, j>> \in A.older) # (<<j, i>> \in A.older)
    <3>1. CASE i = k \/ j = k
      BY <1>3, <1>7, <2>1, <3>1
    <3>2. CASE i # k /\ j # k
      BY <1>3, <1>7, <1>12, <2>1, <3>2 DEF Ordered
    <3>3. QED
      BY <3>1, <3>2
  <2>2. ASSUME NEW T \in SUBSET CacheKeys(A), T # {}
        PROVE  \E m \in T : \A j \in T : <<j, m>> \notin A.older
    <3>1. CASE T \ {k} = {}
      BY <1>3, <1>7, <2>2, <3>1
    <3>2. CASE T \ {k} # {}
      <4>1. T \ {k} \in SUBSET CacheKeys(ch)
        BY <1>3, <2>2
      <4>2. PICK m \in T \ {k} : \A j \in T \ {k} : <<j, m>> \notin ch.older
        BY <1>12, <3>2, <4>1 DEF Ordered
      <4>3. QED
        BY <1>3, <1>7, <2>2, <4>2
    <3>3. QED
      BY <3>1, <3>2
  <2>3. QED
    BY <2>1, <2>2 DEF Ordered
<1>13. QED
  BY <1>3, <1>4, <1>5, <1>7, <1>11, <1>12 DEF A

\* A lookup changes no key and no data; a key it finds becomes the newest.
LEMMA TouchedSound ==
  ASSUME NEW ch, NEW k, IsCache(ch)
  PROVE  /\ IsCache(Touched(ch, k))
         /\ Ordered(ch) => Ordered(Touched(ch, k))
         /\ CacheKeys(Touched(ch, k)) = CacheKeys(ch)
         /\ k \in CacheKeys(ch) => Touched(ch, k).item[k] = [age |-> 0, data |-> ch.item[k].data]
         /\ \A j \in CacheKeys(ch) \ {k} : Touched(ch, k).item[j] = ch.item[j]
         /\ \A i, j \in CacheKeys(ch) :
                (<<i, j>> \in Touched(ch, k).older)
                    => i # k /\ (j = k \/ <<i, j>> \in ch.older)
<1>1. CASE k \in CacheKeys(ch)
  <2> DEFINE d == ch.item[k].data
             A == Appended(ch, k, d)
  <2>1. CacheKeys(ch) \cup {k} = CacheKeys(ch)
    BY <1>1
  <2>2. Touched(ch, k) = A
    BY <1>1 DEF Touched
  <2>3. /\ IsCache(A)
        /\ Ordered(ch) => Ordered(A)
        /\ CacheKeys(A) = CacheKeys(ch) \cup {k}
        /\ A.item[k] = [age |-> 0, data |-> d]
        /\ \A j \in CacheKeys(ch) \ {k} : A.item[j] = ch.item[j]
        /\ \A i, j \in CacheKeys(ch) \cup {k} :
               (<<i, j>> \in A.older) <=> (i # k /\ (j = k \/ <<i, j>> \in ch.older))
    BY AppendedSound
  <2> HIDE DEF A
  <2>4. QED
    BY <2>1, <2>2, <2>3
<1>2. CASE k \notin CacheKeys(ch)
  BY <1>2 DEF Touched, IsCache
<1>3. QED
  BY <1>1, <1>2

\* An insertion into a cache that is not full keeps it below its capacity,
\* evicts at most one key, which was in the cache, and never the new one.
LEMMA InsertedSound ==
  ASSUME NEW ch, NEW k, NEW d, NEW capacity \in Nat \ {0, 1}, Sound(ch),
         k \notin CacheKeys(ch), Cardinality(CacheKeys(ch)) < capacity
  PROVE  LET out == Evicted(ch, k, d, capacity)
             new == Inserted(ch, k, d, capacity)
         IN  /\ Sound(new)
             /\ out \subseteq CacheKeys(ch)
             /\ CacheKeys(new) = (CacheKeys(ch) \cup {k}) \ out
             /\ Cardinality(CacheKeys(new)) < capacity
             /\ new.item[k] = [age |-> 0, data |-> d]
             /\ \A j \in CacheKeys(ch) \ out : new.item[j] = ch.item[j]
             /\ \A i, j \in CacheKeys(new) :
                    <<i, j>> \in new.older => i # k /\ (j = k \/ <<i, j>> \in ch.older)
<1> DEFINE G == Appended(ch, k, d)
           out == Evicted(ch, k, d, capacity)
           new == Inserted(ch, k, d, capacity)
<1>1. /\ IsCache(G) /\ Ordered(G)
      /\ CacheKeys(G) = CacheKeys(ch) \cup {k}
      /\ G.item[k] = [age |-> 0, data |-> d]
      /\ \A j \in CacheKeys(ch) \ {k} : G.item[j] = ch.item[j]
      /\ \A i, j \in CacheKeys(ch) \cup {k} :
             (<<i, j>> \in G.older) <=> (i # k /\ (j = k \/ <<i, j>> \in ch.older))
  BY AppendedSound DEF Sound
<1>2. new = Dropped(G, out)
  BY DEF Inserted
<1>3. out = IF Cardinality(CacheKeys(G)) >= capacity THEN {Oldest(G)} ELSE {}
  BY DEF Evicted
<1> HIDE DEF G, out, new
<1>4. IsFiniteSet(CacheKeys(ch)) /\ Cardinality(CacheKeys(ch)) \in Nat
  BY FS_CardinalityType DEF Sound, IsCache
<1>5. Cardinality(CacheKeys(G)) = Cardinality(CacheKeys(ch)) + 1
  BY <1>1, <1>4, FS_AddElement
<1>6. CASE Cardinality(CacheKeys(G)) < capacity
  <2>1. out = {}
    BY <1>3, <1>4, <1>5, <1>6
  <2>2. /\ IsCache(new) /\ Ordered(new)
        /\ CacheKeys(new) = CacheKeys(G)
        /\ \A j \in CacheKeys(G) : new.item[j] = G.item[j]
        /\ \A i, j \in CacheKeys(G) : (<<i, j>> \in new.older) <=> (<<i, j>> \in G.older)
    BY <1>1, <1>2, <2>1, DroppedSound
  <2>3. QED
    BY <1>1, <1>6, <2>1, <2>2 DEF Sound, out, new
<1>7. CASE Cardinality(CacheKeys(G)) >= capacity
  <2>1. CacheKeys(ch) # {}
    BY <1>4, <1>5, <1>7, FS_EmptySet
  <2>2. PICK m \in CacheKeys(G) : \A j \in CacheKeys(G) : <<j, m>> \notin G.older
    BY <1>1, <2>1 DEF Ordered
  <2>3. Oldest(G) \in CacheKeys(G) /\ \A j \in CacheKeys(G) : <<j, Oldest(G)>> \notin G.older
    BY <2>2 DEF Oldest
  <2>4. Oldest(G) # k
    BY <1>1, <2>1, <2>3
  <2>5. out = {Oldest(G)} /\ out \subseteq CacheKeys(ch)
    BY <1>1, <1>3, <1>7, <2>3, <2>4
  <2>6. /\ IsCache(new) /\ Ordered(new)
        /\ CacheKeys(new) = CacheKeys(G) \ out
        /\ \A j \in CacheKeys(G) \ out : new.item[j] = G.item[j]
        /\ \A i, j \in CacheKeys(G) \ out : (<<i, j>> \in new.older) <=> (<<i, j>> \in G.older)
    BY <1>1, <1>2, DroppedSound
  <2>7. IsFiniteSet(CacheKeys(G))
    BY <1>1 DEF IsCache
  <2>8. Cardinality(CacheKeys(new)) = Cardinality(CacheKeys(G)) - 1
    BY <2>3, <2>5, <2>6, <2>7, FS_RemoveElement
  <2>9. Cardinality(CacheKeys(new)) < capacity
    BY <1>4, <1>5, <2>8
  <2>10. /\ k \in CacheKeys(G) \ out
         /\ \A j \in CacheKeys(ch) \ out : j # k
    BY <1>1, <2>4, <2>5
  <2>11. QED
    BY <1>1, <2>5, <2>6, <2>9, <2>10 DEF Sound, out, new
<1>8. QED
  BY <1>4, <1>5, <1>6, <1>7

\* What makes room is the oldest entry, it goes only from a cache that would
\* otherwise reach its capacity, and it goes alone (cache_insert).
LEMMA EvictedOldest ==
  ASSUME NEW ch, NEW k, NEW d, NEW capacity \in Nat \ {0, 1}, Sound(ch),
         k \notin CacheKeys(ch), Cardinality(CacheKeys(ch)) < capacity,
         NEW o \in Evicted(ch, k, d, capacity)
  PROVE  /\ Evicted(ch, k, d, capacity) = {o}
         /\ Cardinality(CacheKeys(Inserted(ch, k, d, capacity))) >= capacity - 1
         /\ \A j \in CacheKeys(ch) \ {o} : <<o, j>> \in ch.older
<1> DEFINE G == Appended(ch, k, d)
           out == Evicted(ch, k, d, capacity)
           new == Inserted(ch, k, d, capacity)
<1>1. /\ IsCache(G) /\ Ordered(G)
      /\ CacheKeys(G) = CacheKeys(ch) \cup {k}
      /\ G.item[k] = [age |-> 0, data |-> d]
      /\ \A j \in CacheKeys(ch) \ {k} : G.item[j] = ch.item[j]
      /\ \A i, j \in CacheKeys(ch) \cup {k} :
             (<<i, j>> \in G.older) <=> (i # k /\ (j = k \/ <<i, j>> \in ch.older))
  BY AppendedSound DEF Sound
<1>2. new = Dropped(G, out)
  BY DEF Inserted
<1>3. out = IF Cardinality(CacheKeys(G)) >= capacity THEN {Oldest(G)} ELSE {}
  BY DEF Evicted
<1> HIDE DEF G, out, new
<1>4. o = Oldest(G) /\ out = {o} /\ Cardinality(CacheKeys(G)) >= capacity
  BY <1>3 DEF out
<1>5. PICK m \in CacheKeys(G) : \A j \in CacheKeys(G) : <<j, m>> \notin G.older
  BY <1>1 DEF Ordered
<1>6. o \in CacheKeys(G) /\ \A j \in CacheKeys(G) : <<j, o>> \notin G.older
  BY <1>4, <1>5 DEF Oldest
<1>7. out \subseteq CacheKeys(ch)
  BY InsertedSound DEF out
<1>8. ASSUME NEW j \in CacheKeys(ch) \ {o} PROVE <<o, j>> \in ch.older
  <2>1. j \in CacheKeys(G) /\ j # o /\ j # k
    BY <1>1, <1>8
  <2>2. <<o, j>> \in G.older
    <3>1. (<<j, o>> \in G.older) # (<<o, j>> \in G.older)
      BY <1>1, <1>6, <2>1 DEF Ordered
    <3>2. <<j, o>> \notin G.older
      BY <1>6, <2>1
    <3>3. QED
      BY <3>1, <3>2
  <2>3. QED
    BY <1>1, <1>6, <2>1, <2>2
<1>9. CacheKeys(new) = CacheKeys(G) \ {o}
  BY <1>1, <1>2, <1>4, DroppedSound
<1>10. IsFiniteSet(CacheKeys(G)) /\ Cardinality(CacheKeys(G)) \in Nat
  BY <1>1, FS_CardinalityType DEF IsCache
<1>11. Cardinality(CacheKeys(new)) = Cardinality(CacheKeys(G)) - 1
  BY <1>6, <1>9, <1>10, FS_RemoveElement
<1>12. Cardinality(CacheKeys(new)) >= capacity - 1
  BY <1>4, <1>10, <1>11
<1>13. QED
  BY <1>4, <1>8, <1>12 DEF out, new

\* The passing of time changes ages only.
LEMMA AgedSound ==
  ASSUME NEW ch, NEW limit \in Nat, IsCache(ch)
  PROVE  /\ IsCache(Aged(ch, limit))
         /\ Ordered(ch) => Ordered(Aged(ch, limit))
         /\ CacheKeys(Aged(ch, limit)) = CacheKeys(ch)
         /\ Aged(ch, limit).older = ch.older
         /\ \A k \in CacheKeys(ch) :
                Aged(ch, limit).item[k] =
                    [ch.item[k] EXCEPT !.age = IF @ < limit THEN @ + 1 ELSE @]
<1> DEFINE A == Aged(ch, limit)
<1>1. /\ A.item = [k \in CacheKeys(ch) |->
                     [ch.item[k] EXCEPT !.age = IF @ < limit THEN @ + 1 ELSE @]]
      /\ A.older = ch.older
      /\ A = [item |-> A.item, older |-> A.older]
  BY DEF Aged, IsCache
<1> HIDE DEF A
<1>2. CacheKeys(A) = CacheKeys(ch)
  BY <1>1 DEF CacheKeys
<1>3. IsCache(A)
  BY <1>1, <1>2 DEF IsCache
<1>4. Ordered(ch) => Ordered(A)
  BY <1>1, <1>2 DEF Ordered
<1>5. QED
  BY <1>1, <1>2, <1>3, <1>4 DEF A
=============================================================================
