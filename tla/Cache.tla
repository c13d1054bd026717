--------------------------------- MODULE Cache ---------------------------------
(***************************************************************************)
(* The timed hash of cache.c, as operators on a cache value.  A cache is   *)
(* [item, older]: item[k] is the entry of key k, with its age (the time    *)
(* since its ts) and its data; older holds <<j, k>> when j comes before k  *)
(* in the order uthash iterates in, which is the order of addition.        *)
(* cache_insert does not look for the key: every caller has just missed it.*)
(***************************************************************************)
EXTENDS Integers, FiniteSets

EmptyCache == [item |-> <<>>, older |-> {}]

CacheKeys(ch) == DOMAIN ch.item

\* the entries of the keys in S are deleted from the hash
Dropped(ch, S) ==
    [item |-> [k \in CacheKeys(ch) \ S |-> ch.item[k]],
     older |-> {p \in ch.older : p[1] \notin S /\ p[2] \notin S}]

\* an entry with age 0 goes behind all the others
Appended(ch, k, d) ==
    LET rest == Dropped(ch, {k}) IN
    [item |-> [j \in CacheKeys(rest) \cup {k} |->
                  IF j = k THEN [age |-> 0, data |-> d] ELSE rest.item[j]],
     older |-> rest.older \cup {<<j, k>> : j \in CacheKeys(rest)}]

\* cache_lookup and cache_key_exist on a hit: the entry is deleted, stamped
\* and added again
TouchedInPlace(ch, k) ==   \* fault
    IF k \in CacheKeys(ch) THEN [ch EXCEPT !.item[k].age = 0] ELSE ch
TouchedUnstamped(ch, k) ==   \* fault
    IF k \in CacheKeys(ch)
    THEN [Appended(ch, k, ch.item[k].data) EXCEPT !.item[k] = ch.item[k]] ELSE ch
Touched(ch, k) ==
    IF k \in CacheKeys(ch) THEN Appended(ch, k, ch.item[k].data) ELSE ch

Oldest(ch) == CHOOSE k \in CacheKeys(ch) : \A j \in CacheKeys(ch) : <<j, k>> \notin ch.older

\* cache_insert: the keys it evicts, with the new entry already in the hash
EvictedLate(ch, k, d, capacity) ==   \* fault
    LET grown == Appended(ch, k, d) IN
    IF Cardinality(CacheKeys(grown)) > capacity THEN {Oldest(grown)} ELSE {}
Evicted(ch, k, d, capacity) ==
    LET grown == Appended(ch, k, d) IN
    IF Cardinality(CacheKeys(grown)) >= capacity THEN {Oldest(grown)} ELSE {}

Inserted(ch, k, d, capacity) ==
    Dropped(Appended(ch, k, d), Evicted(ch, k, d, capacity))

\* cache_clear: the keys older than age
ExpiredBelow(ch, age) == {k \in CacheKeys(ch) : ch.item[k].age <= age}   \* fault
Expired(ch, age) == {k \in CacheKeys(ch) : ch.item[k].age > age}

\* a unit of time passes; ages above the limit are not told apart
Aged(ch, limit) ==
    [ch EXCEPT !.item = [k \in CacheKeys(ch) |->
        [ch.item[k] EXCEPT !.age = IF @ < limit THEN @ + 1 ELSE @]]]
=============================================================================
