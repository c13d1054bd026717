---------------------------- MODULE BlockListProofs ----------------------------
(***************************************************************************)
(* The block list and its firewall rules, for every set of addresses, every*)
(* access list and every limit.  Inv adds to the properties that the list  *)
(* is a sound cache: without an oldest entry in every set of keys, an      *)
(* eviction could take the entry just inserted, and its rule would stay.   *)
(***************************************************************************)
EXTENDS BlockList, CacheProofs

Scalars ==
    /\ rules \in [Addrs -> Nat]
    /\ shell \in {"none", "open", "closed"}
    /\ stray \subseteq {"closed", "unformatted"}
    /\ conns \in [Addrs -> 0..MaxConns]
    /\ seen \in [Addrs -> 0..MaxAge + 1]
    /\ phase \in {"running", "stopped"}

\* the parts about the list alone
ListOK(ch) ==
    /\ Sound(ch)
    /\ CacheKeys(ch) \subseteq Addrs
    /\ \A a \in CacheKeys(ch) : ch.item[a] \in Entries
    /\ Cardinality(CacheKeys(ch)) < Capacity

OldestFirst(ch, sn) ==
    \A a, b \in CacheKeys(ch) : <<a, b>> \in ch.older => a # b /\ sn[a] >= sn[b]

Inv == ListOK(list) /\ Scalars /\ Mirror /\ CommandsSound /\ OldestFirst(list, seen)

USE BlockListAssumption

-----------------------------------------------------------------------------
(* The cache's lemmas for a list of addresses. *)

LEMMA ListDropped ==
  ASSUME NEW ch, NEW S, ListOK(ch)
  PROVE  /\ ListOK(Dropped(ch, S))
         /\ CacheKeys(Dropped(ch, S)) = CacheKeys(ch) \ S
         /\ \A j, k \in CacheKeys(ch) \ S :
                (<<j, k>> \in Dropped(ch, S).older) <=> (<<j, k>> \in ch.older)
<1> DEFINE D == Dropped(ch, S)
<1>1. /\ Sound(D)
      /\ CacheKeys(D) = CacheKeys(ch) \ S
      /\ \A k \in CacheKeys(ch) \ S : D.item[k] = ch.item[k]
      /\ \A j, k \in CacheKeys(ch) \ S : (<<j, k>> \in D.older) <=> (<<j, k>> \in ch.older)
  BY DroppedSound DEF ListOK, Sound
<1> HIDE DEF D
<1>2. IsFiniteSet(CacheKeys(ch)) /\ CacheKeys(D) \subseteq CacheKeys(ch)
  BY <1>1 DEF ListOK, Sound, IsCache
<1>3. /\ Cardinality(CacheKeys(D)) <= Cardinality(CacheKeys(ch))
      /\ IsFiniteSet(CacheKeys(D))
  BY <1>2, FS_Subset
<1>4. Cardinality(CacheKeys(D)) \in Nat /\ Cardinality(CacheKeys(ch)) \in Nat
  BY <1>2, <1>3, FS_CardinalityType
<1>5. Cardinality(CacheKeys(D)) < Capacity
  BY <1>3, <1>4 DEF ListOK
<1>6. QED
  BY <1>1, <1>5 DEF ListOK, D

LEMMA ListTouched ==
  ASSUME NEW ch, NEW a \in Addrs, ListOK(ch)
  PROVE  /\ ListOK(Touched(ch, a))
         /\ CacheKeys(Touched(ch, a)) = CacheKeys(ch)
         /\ a \in CacheKeys(ch) => Touched(ch, a).item[a].data = ch.item[a].data
         /\ \A i, j \in CacheKeys(ch) :
                <<i, j>> \in Touched(ch, a).older => i # a /\ (j = a \/ <<i, j>> \in ch.older)
<1> DEFINE T == Touched(ch, a)
<1>1. /\ Sound(T)
      /\ CacheKeys(T) = CacheKeys(ch)
      /\ a \in CacheKeys(ch) => T.item[a] = [age |-> 0, data |-> ch.item[a].data]
      /\ \A j \in CacheKeys(ch) \ {a} : T.item[j] = ch.item[j]
      /\ \A i, j \in CacheKeys(ch) :
             <<i, j>> \in T.older => i # a /\ (j = a \/ <<i, j>> \in ch.older)
  BY TouchedSound DEF ListOK, Sound
<1> HIDE DEF T
<1>2. ASSUME NEW k \in CacheKeys(T) PROVE T.item[k] \in Entries
  <2>1. ch.item[k] \in Entries
    BY <1>1, <1>2 DEF ListOK
  <2>2. CASE k = a
    BY <1>1, <1>2, <2>1, <2>2 DEF Entries
  <2>3. CASE k # a
    BY <1>1, <1>2, <2>1, <2>3
  <2>4. QED
    BY <2>2, <2>3
<1>3. QED
  BY <1>1, <1>2 DEF ListOK, T

LEMMA ListCounted ==
  ASSUME NEW ch, NEW a \in CacheKeys(ch), NEW n \in Nat, ListOK(ch)
  PROVE  /\ ListOK(Counted(ch, a, n))
         /\ CacheKeys(Counted(ch, a, n)) = CacheKeys(ch)
         /\ Counted(ch, a, n).older = ch.older
<1> DEFINE C == Counted(ch, a, n)
<1>1. /\ ch = [item |-> ch.item, older |-> ch.older]
      /\ ch.item = [k \in CacheKeys(ch) |-> ch.item[k]]
      /\ ch.item[a] \in Entries
  BY DEF ListOK, Sound, IsCache
<1>2. /\ C = [item |-> C.item, older |-> C.older]
      /\ C.older = ch.older
      /\ C.item = [k \in CacheKeys(ch) |->
                     IF k = a THEN [ch.item[k] EXCEPT !.data = @ + n] ELSE ch.item[k]]
  BY <1>1 DEF Counted
<1> HIDE DEF C
<1>3. CacheKeys(C) = CacheKeys(ch)
  BY <1>2 DEF CacheKeys
<1>4. C.item[a] \in Entries
  BY <1>1, <1>2 DEF Entries
<1>5. \A k \in CacheKeys(C) : C.item[k] \in Entries
  BY <1>2, <1>3, <1>4 DEF ListOK
<1>6. Sound(C)
  BY <1>2, <1>3 DEF ListOK, Sound, IsCache, Ordered
<1>7. QED
  BY <1>2, <1>3, <1>5, <1>6 DEF ListOK, C

LEMMA ListInserted ==
  ASSUME NEW ch, NEW a \in Addrs, ListOK(ch), a \notin CacheKeys(ch)
  PROVE  LET out == Evicted(ch, a, 1, Capacity)
             new == Inserted(ch, a, 1, Capacity)
         IN  /\ ListOK(new)
             /\ out \subseteq CacheKeys(ch)
             /\ CacheKeys(new) = (CacheKeys(ch) \cup {a}) \ out
             /\ \A i, j \in CacheKeys(new) :
                    <<i, j>> \in new.older => i # a /\ (j = a \/ <<i, j>> \in ch.older)
<1> DEFINE out == Evicted(ch, a, 1, Capacity)
           new == Inserted(ch, a, 1, Capacity)
<1>1. /\ Sound(new)
      /\ out \subseteq CacheKeys(ch)
      /\ CacheKeys(new) = (CacheKeys(ch) \cup {a}) \ out
      /\ Cardinality(CacheKeys(new)) < Capacity
      /\ new.item[a] = [age |-> 0, data |-> 1]
      /\ \A j \in CacheKeys(ch) \ out : new.item[j] = ch.item[j]
      /\ \A i, j \in CacheKeys(new) :
             <<i, j>> \in new.older => i # a /\ (j = a \/ <<i, j>> \in ch.older)
  BY InsertedSound DEF ListOK
<1> HIDE DEF out, new
<1>2. ASSUME NEW k \in CacheKeys(new) PROVE new.item[k] \in Entries
  <2>1. CASE k = a
    BY <1>1, <2>1 DEF Entries
  <2>2. CASE k # a
    BY <1>1, <1>2, <2>2 DEF ListOK
  <2>3. QED
    BY <2>1, <2>2
<1>3. CacheKeys(new) \subseteq Addrs
  BY <1>1 DEF ListOK
<1>4. QED
  BY <1>1, <1>2, <1>3 DEF ListOK, out, new

LEMMA ListAged ==
  ASSUME NEW ch, ListOK(ch)
  PROVE  /\ ListOK(Aged(ch, MaxAge + 1))
         /\ CacheKeys(Aged(ch, MaxAge + 1)) = CacheKeys(ch)
         /\ Aged(ch, MaxAge + 1).older = ch.older
<1> DEFINE A == Aged(ch, MaxAge + 1)
<1>1. /\ Sound(A)
      /\ CacheKeys(A) = CacheKeys(ch)
      /\ A.older = ch.older
      /\ \A k \in CacheKeys(ch) :
             A.item[k] = [ch.item[k] EXCEPT !.age = IF @ < MaxAge + 1 THEN @ + 1 ELSE @]
  BY AgedSound DEF ListOK, Sound
<1> HIDE DEF A
<1>2. ASSUME NEW k \in CacheKeys(A) PROVE A.item[k] \in Entries
  <2>1. ch.item[k] \in Entries
    BY <1>1, <1>2 DEF ListOK
  <2>2. PICK age \in 0..MaxAge + 1, data \in Nat \ {0} : ch.item[k] = [age |-> age, data |-> data]
    BY <2>1 DEF Entries
  <2>3. A.item[k] = [age |-> IF age < MaxAge + 1 THEN age + 1 ELSE age, data |-> data]
    BY <1>1, <1>2, <2>2
  <2>4. QED
    BY <2>2, <2>3 DEF Entries
<1>3. QED
  BY <1>1, <1>2 DEF ListOK, A

-----------------------------------------------------------------------------
(* Each way a step changes list, rules and seen. *)

\* Nothing but the connections changes.
LEMMA UnlistedStep ==
  ASSUME Inv, UNCHANGED <<list, rules, shell, stray, seen, phase>>,
         conns' \in [Addrs -> 0..MaxConns]
  PROVE  Inv'
BY DEF Inv, Scalars, Mirror, CommandsSound, Listed

\* An address is looked up.
LEMMA TouchStep ==
  ASSUME Inv, NEW a \in Addrs, list' = Touched(list, a), Seen(a),
         UNCHANGED <<rules, shell, stray, phase>>, conns' \in [Addrs -> 0..MaxConns]
  PROVE  Inv'
<1>1. /\ ListOK(list')
      /\ CacheKeys(list') = CacheKeys(list)
      /\ \A i, j \in CacheKeys(list) :
             <<i, j>> \in list'.older => i # a /\ (j = a \/ <<i, j>> \in list.older)
  BY ListTouched DEF Inv
<1>2. Scalars'
  <2>1. seen \in [Addrs -> 0..MaxAge + 1] /\ 0 \in 0..MaxAge + 1
    BY DEF Inv, Scalars
  <2>2. seen' \in [Addrs -> 0..MaxAge + 1]
    BY <2>1 DEF Seen
  <2>3. QED
    BY <2>2 DEF Inv, Scalars
<1>3. Mirror'
  BY <1>1 DEF Inv, Mirror, Listed
<1>4. OldestFirst(list', seen')
  <2> SUFFICES ASSUME NEW i \in CacheKeys(list), NEW j \in CacheKeys(list),
                      <<i, j>> \in list'.older
               PROVE  i # j /\ seen'[i] >= seen'[j]
    BY <1>1 DEF OldestFirst
  <2>1. i # a /\ (j = a \/ <<i, j>> \in list.older)
    BY <1>1
  <2>2. i \in Addrs /\ j \in Addrs
    BY DEF Inv, ListOK
  <2>3. seen'[i] = seen[i] /\ seen[i] \in Nat /\ (j = a => seen'[j] = 0) /\ (j # a => seen'[j] = seen[j])
    BY <2>1, <2>2 DEF Inv, Scalars, Seen
  <2>4. QED
    BY <2>1, <2>3 DEF Inv, OldestFirst
<1>5. QED
  BY <1>1, <1>2, <1>3, <1>4 DEF Inv, CommandsSound

\* Entries leave the list, and their rules with them, while time stands still.
LEMMA ForgetStep ==
  ASSUME Inv, NEW S, S \subseteq CacheKeys(list), list' = Dropped(list, S), Forget(S),
         UNCHANGED <<shell, conns, seen, phase>>
  PROVE  Inv'
<1>1. /\ ListOK(list')
      /\ CacheKeys(list') = CacheKeys(list) \ S
      /\ \A j, k \in CacheKeys(list) \ S :
             (<<j, k>> \in list'.older) <=> (<<j, k>> \in list.older)
  BY ListDropped DEF Inv
<1>2. rules \in [Addrs -> Nat] /\ Rule(1) \in {0, 1}
  BY DEF Inv, Scalars, Rule
<1>3. rules' = [a \in Addrs |-> IF a \in S /\ rules[a] > 0 THEN rules[a] - Rule(1) ELSE rules[a]]
  BY DEF Forget, RulesDeleted
<1>4. rules' \in [Addrs -> Nat]
  BY <1>2, <1>3
<1>5. stray' \subseteq {"closed", "unformatted"}
  BY DEF Inv, Scalars, Forget, Written
<1>6. Scalars'
  BY <1>4, <1>5 DEF Inv, Scalars
<1>7. Mirror'
  <2> SUFFICES ASSUME phase = "running", NEW a \in Addrs
               PROVE  rules'[a] = IF a \in CacheKeys(list') THEN Rule(1) ELSE 0
    BY DEF Mirror, Listed
  <2>1. rules[a] = IF a \in CacheKeys(list) THEN Rule(1) ELSE 0
    BY DEF Inv, Mirror, Listed
  <2>2. QED
    BY <1>1, <1>2, <1>3, <2>1
<1>8. OldestFirst(list', seen')
  BY <1>1 DEF Inv, OldestFirst
<1>9. CommandsSound'
  BY DEF Inv, CommandsSound, Forget, Written
<1>10. QED
  BY <1>1, <1>6, <1>7, <1>8, <1>9 DEF Inv

-----------------------------------------------------------------------------
(* The actions. *)

LEMMA InitInv == Init => Inv
<1> SUFFICES ASSUME Init PROVE Inv
  OBVIOUS
<1>1. list = EmptyCache
  BY DEF Init
<1>2. Sound(list) /\ CacheKeys(list) = {}
  BY <1>1, EmptyCacheSound
<1>3. Cardinality(CacheKeys(list)) = 0
  BY <1>2, FS_EmptySet
<1>4. ListOK(list)
  BY <1>2, <1>3 DEF ListOK
<1>5. Scalars
  BY DEF Init, Scalars
<1>6. Mirror /\ CommandsSound /\ OldestFirst(list, seen)
  BY <1>2 DEF Init, Mirror, CommandsSound, Chain, Listed, OldestFirst
<1>7. QED
  BY <1>4, <1>5, <1>6 DEF Inv

\* A report about an address that is not listed inserts it, adds its rule and
\* takes away the rule of the address that makes room.
LEMMA InsertStep ==
  ASSUME Inv, NEW a \in Addrs, a \notin CacheKeys(list), Seen(a),
         list' = Inserted(list, a, 1, Capacity),
         rules' = [RulesDeleted(rules, Evicted(list, a, 1, Capacity)) EXCEPT ![a] = @ + Rule(1)],
         stray' = stray \cup Written(Evicted(list, a, 1, Capacity), shell),
         UNCHANGED <<shell, conns, phase>>
  PROVE  Inv'
<1> DEFINE out == Evicted(list, a, 1, Capacity)
           less == RulesDeleted(rules, out)
<1>1. /\ ListOK(list')
      /\ out \subseteq CacheKeys(list)
      /\ CacheKeys(list') = (CacheKeys(list) \cup {a}) \ out
      /\ \A i, j \in CacheKeys(list') :
             <<i, j>> \in list'.older => i # a /\ (j = a \/ <<i, j>> \in list.older)
  BY ListInserted DEF Inv
<1>2. rules \in [Addrs -> Nat] /\ Rule(1) \in {0, 1}
  BY DEF Inv, Scalars, Rule
<1>3. less = [b \in Addrs |-> IF b \in out /\ rules[b] > 0 THEN rules[b] - Rule(1) ELSE rules[b]]
  BY DEF RulesDeleted
<1>4. stray' \subseteq {"closed", "unformatted"}
  BY DEF Inv, Scalars, Written
<1>5. rules' = [less EXCEPT ![a] = @ + Rule(1)]
  OBVIOUS
<1> HIDE DEF out, less
<1>6. less \in [Addrs -> Nat]
  BY <1>2, <1>3
<1>7. rules' \in [Addrs -> Nat]
  <2>1. less[a] + Rule(1) \in Nat
    BY <1>2, <1>6
  <2>2. rules' = [b \in Addrs |-> IF b = a THEN less[a] + Rule(1) ELSE less[b]]
    BY <1>5, <1>6
  <2>3. QED
    BY <1>6, <2>1, <2>2
<1>8. seen \in [Addrs -> 0..MaxAge + 1] /\ 0 \in 0..MaxAge + 1
  BY DEF Inv, Scalars
<1>9. seen' \in [Addrs -> 0..MaxAge + 1]
  BY <1>8 DEF Seen
<1>10. Scalars'
  BY <1>4, <1>7, <1>9 DEF Inv, Scalars
<1>11. Mirror'
  <2> SUFFICES ASSUME phase = "running", NEW b \in Addrs
               PROVE  rules'[b] = IF b \in CacheKeys(list') THEN Rule(1) ELSE 0
    BY DEF Mirror, Listed
  <2>1. rules[b] = IF b \in CacheKeys(list) THEN Rule(1) ELSE 0
    BY DEF Inv, Mirror, Listed
  <2>2. CASE b = a
    <3>1. less[a] = 0
      BY <1>1, <1>2, <1>3, <2>1, <2>2
    <3>2. a \in CacheKeys(list')
      BY <1>1
    <3>3. QED
      BY <1>2, <1>5, <1>6, <2>2, <3>1, <3>2
  <2>3. CASE b # a
    <3>1. less[b] = IF b \in CacheKeys(list) \ out THEN Rule(1) ELSE 0
      BY <1>1, <1>2, <1>3, <2>1
    <3>2. QED
      BY <1>1, <1>5, <1>6, <2>3, <3>1
  <2>4. QED
    BY <2>2, <2>3
<1>12. OldestFirst(list', seen')
  <2> SUFFICES ASSUME NEW i \in CacheKeys(list'), NEW j \in CacheKeys(list'),
                      <<i, j>> \in list'.older
               PROVE  i # j /\ seen'[i] >= seen'[j]
    BY DEF OldestFirst
  <2>1. i # a /\ (j = a \/ <<i, j>> \in list.older)
    BY <1>1
  <2>2. i \in Addrs /\ j \in Addrs
    BY <1>1 DEF ListOK
  <2>3. /\ seen'[i] = seen[i] /\ seen[i] \in Nat
        /\ j = a => seen'[j] = 0
        /\ j # a => seen'[j] = seen[j]
    BY <1>8, <2>1, <2>2 DEF Seen
  <2>4. j # a => i \in CacheKeys(list) /\ j \in CacheKeys(list)
    BY <1>1, <2>1
  <2>5. QED
    BY <2>1, <2>3, <2>4 DEF Inv, OldestFirst
<1>13. CommandsSound'
  BY DEF Inv, CommandsSound, Written
<1>14. QED
  BY <1>1, <1>10, <1>11, <1>12, <1>13 DEF Inv

\* A report about a listed address adds its level.
LEMMA CountStep ==
  ASSUME Inv, NEW a \in Addrs, a \in CacheKeys(list), Seen(a), NEW n \in Nat,
         list' = Counted(Touched(list, a), a, n),
         UNCHANGED <<rules, shell, stray, conns, phase>>
  PROVE  Inv'
<1> DEFINE hit == Touched(list, a)
<1>1. /\ ListOK(hit)
      /\ CacheKeys(hit) = CacheKeys(list)
      /\ \A i, j \in CacheKeys(list) :
             <<i, j>> \in hit.older => i # a /\ (j = a \/ <<i, j>> \in list.older)
  BY ListTouched DEF Inv
<1> HIDE DEF hit
<1>2. ListOK(list') /\ CacheKeys(list') = CacheKeys(hit) /\ list'.older = hit.older
  BY <1>1, ListCounted DEF hit
<1>3. seen \in [Addrs -> 0..MaxAge + 1] /\ 0 \in 0..MaxAge + 1
  BY DEF Inv, Scalars
<1>4. seen' \in [Addrs -> 0..MaxAge + 1]
  BY <1>3 DEF Seen
<1>5. Scalars'
  BY <1>4 DEF Inv, Scalars
<1>6. Mirror'
  BY <1>1, <1>2 DEF Inv, Mirror, Listed
<1>7. OldestFirst(list', seen')
  <2> SUFFICES ASSUME NEW i \in CacheKeys(list), NEW j \in CacheKeys(list),
                      <<i, j>> \in hit.older
               PROVE  i # j /\ seen'[i] >= seen'[j]
    BY <1>1, <1>2 DEF OldestFirst
  <2>1. i # a /\ (j = a \/ <<i, j>> \in list.older)
    BY <1>1
  <2>2. i \in Addrs /\ j \in Addrs
    BY DEF Inv, ListOK
  <2>3. /\ seen'[i] = seen[i] /\ seen[i] \in Nat
        /\ j = a => seen'[j] = 0
        /\ j # a => seen'[j] = seen[j]
    BY <1>3, <2>1, <2>2 DEF Seen
  <2>4. QED
    BY <2>1, <2>3 DEF Inv, OldestFirst
<1>8. QED
  BY <1>2, <1>5, <1>6, <1>7 DEF Inv, CommandsSound

LEMMA ReportInv ==
  ASSUME Inv, NEW a \in Addrs, NEW level \in Levels, Report(a, level) PROVE Inv'
<1>1. CASE Listed(a) /\ Blocked(a)
  <2>1. list' = Touched(list, a) /\ Seen(a) /\ UNCHANGED <<rules, shell, stray, conns, phase>>
    BY <1>1 DEF Report
  <2>2. QED
    BY <2>1, TouchStep DEF Inv, Scalars
<1>2. CASE Listed(a) /\ ~Blocked(a)
  <2>1. /\ list' = Counted(Touched(list, a), a, Weight[level])
        /\ Seen(a)
        /\ UNCHANGED <<rules, shell, stray, conns, phase>>
    BY <1>2 DEF Report
  <2>2. Weight[level] \in Nat
    BY DEF Weight
  <2>3. QED
    BY <1>2, <2>1, <2>2, CountStep DEF Listed
<1>3. CASE ~Listed(a)
  <2>1. /\ list' = Inserted(list, a, 1, Capacity)
        /\ rules' = [RulesDeleted(rules, Evicted(list, a, 1, Capacity)) EXCEPT ![a] = @ + Rule(1)]
        /\ stray' = stray \cup Written(Evicted(list, a, 1, Capacity), shell)
        /\ Seen(a)
        /\ UNCHANGED <<shell, conns, phase>>
    BY <1>3 DEF Report
  <2>2. QED
    BY <1>3, <2>1, InsertStep DEF Listed
<1>4. QED
  BY <1>1, <1>2, <1>3

LEMMA ClientInv ==
  ASSUME Inv, NEW a \in Addrs, Client(a) PROVE Inv'
<1>1. conns \in [Addrs -> 0..MaxConns]
  BY DEF Inv, Scalars
<1>2. CASE AdmitUnchecked(a)
  <2>1. conns' \in [Addrs -> 0..MaxConns]
    BY <1>1, <1>2 DEF AdmitUnchecked
  <2>2. QED
    BY <1>2, <2>1, UnlistedStep DEF AdmitUnchecked
<1>3. CASE Deny(a)
  BY <1>1, <1>3, UnlistedStep DEF Deny, vars
<1>4. CASE Admit(a)
  <2>1. conns' \in [Addrs -> 0..MaxConns]
    BY <1>1, <1>4 DEF Admit
  <2>2. QED
    BY <1>4, <2>1, TouchStep DEF Admit
<1>5. CASE Refuse(a)
  BY <1>1, <1>5, TouchStep DEF Refuse
<1>6. CASE Close(a)
  <2>1. conns' \in [Addrs -> 0..MaxConns]
    BY <1>1, <1>6 DEF Close
  <2>2. QED
    BY <1>6, <2>1, UnlistedStep DEF Close
<1>7. CASE ResetAddr(a)
  <2> DEFINE S == CacheKeys(list) \cap {a}
  <2>1. Dropped(list, {a}) = Dropped(list, S)
    <3>1. CacheKeys(list) \ {a} = CacheKeys(list) \ S
      OBVIOUS
    <3>2. list.older \subseteq CacheKeys(list) \X CacheKeys(list)
      BY DEF Inv, ListOK, Sound, IsCache
    <3>3. {p \in list.older : p[1] \notin {a} /\ p[2] \notin {a}}
            = {p \in list.older : p[1] \notin S /\ p[2] \notin S}
      BY <3>2
    <3>4. QED
      BY <3>1, <3>3 DEF Dropped
  <2>2. QED
    BY <1>7, <2>1, ForgetStep DEF ResetAddr
<1>8. CASE \E level \in Levels : Report(a, level)
  BY <1>8, ReportInv
<1>9. QED
  BY <1>2, <1>3, <1>4, <1>5, <1>6, <1>7, <1>8 DEF Client

LEMMA ClearTimerInv == ASSUME Inv, ClearTimer PROVE Inv'
BY ForgetStep DEF ClearTimer, Expired

LEMMA TickInv == ASSUME Inv, Tick PROVE Inv'
<1>1. /\ ListOK(list')
      /\ CacheKeys(list') = CacheKeys(list)
      /\ list'.older = list.older
  BY ListAged DEF Inv, Tick
<1>2. /\ seen \in [Addrs -> 0..MaxAge + 1]
      /\ seen' = [a \in Addrs |-> IF seen[a] <= MaxAge THEN seen[a] + 1 ELSE seen[a]]
  BY DEF Inv, Scalars, Tick
<1>3. seen' \in [Addrs -> 0..MaxAge + 1]
  BY <1>2
<1>4. Scalars'
  BY <1>3 DEF Inv, Scalars, Tick
<1>5. Mirror'
  BY <1>1 DEF Inv, Mirror, Listed, Tick
<1>6. OldestFirst(list', seen')
  <2> SUFFICES ASSUME NEW i \in CacheKeys(list), NEW j \in CacheKeys(list),
                      <<i, j>> \in list.older
               PROVE  i # j /\ seen'[i] >= seen'[j]
    BY <1>1 DEF OldestFirst
  <2>1. i # j /\ seen[i] >= seen[j]
    BY DEF Inv, OldestFirst
  <2>2. seen[i] \in 0..MaxAge + 1 /\ seen[j] \in 0..MaxAge + 1 /\ i \in Addrs /\ j \in Addrs
    BY <1>2 DEF Inv, ListOK
  <2>3. QED
    BY <1>2, <2>1, <2>2
<1>7. QED
  BY <1>1, <1>4, <1>5, <1>6 DEF Inv, Tick, CommandsSound

LEMMA FreeBlockListInv == ASSUME Inv, FreeBlockList PROVE Inv'
<1>1. /\ ListOK(list')
      /\ CacheKeys(list') = CacheKeys(list) \ Expired(list, 0)
      /\ \A j, k \in CacheKeys(list') :
             (<<j, k>> \in list'.older) <=> (<<j, k>> \in list.older)
  BY ListDropped DEF Inv, FreeBlockList
<1>2. rules' \in [Addrs -> Nat]
  BY DEF FreeBlockList
<1>3. shell' \in {"none", "open", "closed"} /\ phase' = "stopped"
  BY DEF FreeBlockList, Inv, Scalars
<1>4. stray' \subseteq {"closed", "unformatted"}
  BY DEF FreeBlockList, Inv, Scalars, Written
<1>5. Scalars'
  BY <1>2, <1>3, <1>4 DEF FreeBlockList, Inv, Scalars
<1>6. Mirror'
  BY <1>3 DEF Mirror
<1>7. OldestFirst(list', seen')
  BY <1>1 DEF Inv, OldestFirst, FreeBlockList
<1>8. QED
  BY <1>1, <1>3, <1>5, <1>6, <1>7 DEF Inv, CommandsSound

LEMMA NextInv == Inv /\ [Next]_vars => Inv'
<1> SUFFICES ASSUME Inv, [Next]_vars PROVE Inv'
  OBVIOUS
<1>1. CASE \E a \in Addrs : Client(a)
  BY <1>1, ClientInv
<1>2. CASE ClearTimer
  BY <1>2, ClearTimerInv
<1>3. CASE Tick
  BY <1>3, TickInv
<1>4. CASE FreeBlockList
  BY <1>4, FreeBlockListInv
<1>5. CASE UNCHANGED vars
  <2>1. conns' \in [Addrs -> 0..MaxConns]
    BY <1>5 DEF Inv, Scalars, vars
  <2>2. QED
    BY <1>5, <2>1, UnlistedStep DEF vars
<1>6. QED
  BY <1>1, <1>2, <1>3, <1>4, <1>5 DEF Next, Running, Done

\* The invariant holds in every reachable state: the rules of the listed
\* addresses are one each, and the cache's order is total and that of use.
THEOREM InvAlways == Spec => []Inv
BY InitInv, NextInv, PTL DEF Spec

\* The list is well formed and stays below its capacity, for every capacity
\* of at least 2 (cache_insert evicts as soon as the limit is reached).
THEOREM ListBounded == Spec => []TypeOK
<1>1. Inv => TypeOK
  BY DEF Inv, ListOK, Scalars, TypeOK, ListTypeOK, Sound, IsCache
<1>2. QED
  BY <1>1, InvAlways, PTL

\* The firewall chain mirrors the block list, for any number of addresses:
\* no path out of the list leaves a rule behind, and none deletes a rule of
\* an address that is still listed (free_firewall_rule, cache_insert), and until
\* the exit every command reaches the shell.
THEOREM RulesFollowList == Spec => []RulesMirrorList
<1>1. Inv => RulesMirrorList
  BY DEF Inv, RulesMirrorList
<1>2. QED
  BY <1>1, InvAlways, PTL

\* The list stays in the order of last use, so every eviction takes an
\* address that was seen least recently (cache_lookup, cache_insert).
THEOREM ListInOrderOfUse == Spec => []RecencyOrder
<1>1. Inv => RecencyOrder
  BY DEF Inv, RecencyOrder, OldestFirst, ListOK, Sound, Ordered
<1>2. QED
  BY <1>1, InvAlways, PTL

-----------------------------------------------------------------------------
(* Why an address is unblocked.  The timer goes by the age of an entry, so *)
(* the argument needs what Inv leaves open: an entry is as old as the last *)
(* sight of its address.                                                   *)

Ages == \A a \in CacheKeys(list) : list.item[a].age = seen[a]

\* the causes that UnblockedForCause admits
Excused(a) ==
    \/ conns[a] > 0 /\ list' = Dropped(list, {a})
    \/ seen[a] > MaxAge
    \/ Cardinality({b \in Addrs \ {a} : Listed(b)' /\ seen'[b] <= seen[a]})
          >= Capacity - 1
    \/ phase' = "stopped"

LEMMA TouchAges ==
  ASSUME Inv, Ages, NEW a \in Addrs, list' = Touched(list, a), Seen(a)
  PROVE  Ages' /\ \A c \in Addrs : Blocked(c) => Blocked(c)'
<1>1. /\ CacheKeys(list') = CacheKeys(list)
      /\ a \in CacheKeys(list) => list'.item[a] = [age |-> 0, data |-> list.item[a].data]
      /\ \A k \in CacheKeys(list) \ {a} : list'.item[k] = list.item[k]
  BY TouchedSound DEF Inv, ListOK, Sound
<1>2. /\ CacheKeys(list) \subseteq Addrs
      /\ seen'[a] = 0
      /\ \A k \in Addrs \ {a} : seen'[k] = seen[k]
  BY DEF Inv, ListOK, Scalars, Seen
<1>3. Ages'
  BY <1>1, <1>2 DEF Ages
<1>4. \A c \in CacheKeys(list) : list'.item[c].data = list.item[c].data
  BY <1>1
<1>5. QED
  BY <1>1, <1>3, <1>4 DEF Blocked, Listed

LEMMA CountAges ==
  ASSUME Inv, Ages, NEW a \in Addrs, a \in CacheKeys(list), ~Blocked(a), Seen(a),
         NEW n \in Nat, list' = Counted(Touched(list, a), a, n)
  PROVE  Ages' /\ \A c \in Addrs : Blocked(c) => Blocked(c)'
<1> DEFINE hit == Touched(list, a)
<1>1. /\ CacheKeys(hit) = CacheKeys(list)
      /\ hit.item[a] = [age |-> 0, data |-> list.item[a].data]
      /\ \A k \in CacheKeys(list) \ {a} : hit.item[k] = list.item[k]
  BY TouchedSound DEF Inv, ListOK, Sound
<1>2. /\ hit = [item |-> hit.item, older |-> hit.older]
      /\ hit.item = [k \in CacheKeys(hit) |-> hit.item[k]]
  BY ListTouched DEF Inv, ListOK, Sound, IsCache
<1>3. list' = Counted(hit, a, n)
  OBVIOUS
<1> HIDE DEF hit
<1>4. list'.item = [k \in CacheKeys(list) |->
                       IF k = a THEN [hit.item[k] EXCEPT !.data = @ + n] ELSE hit.item[k]]
  BY <1>1, <1>2, <1>3 DEF Counted
<1>5. /\ CacheKeys(list') = CacheKeys(list)
      /\ list'.item[a].age = 0
      /\ \A k \in CacheKeys(list) \ {a} : list'.item[k] = list.item[k]
  BY <1>1, <1>4 DEF CacheKeys
<1>6. /\ CacheKeys(list) \subseteq Addrs
      /\ seen'[a] = 0
      /\ \A k \in Addrs \ {a} : seen'[k] = seen[k]
  BY DEF Inv, ListOK, Scalars, Seen
<1>7. Ages'
  BY <1>5, <1>6 DEF Ages
<1>8. QED
  BY <1>5, <1>7 DEF Blocked, Listed

\* An insertion unblocks at most the address it evicts.  The list is then as
\* full as it gets, and the order says that all it holds were seen since.
LEMMA InsertAges ==
  ASSUME Inv, Ages, NEW a \in Addrs, a \notin CacheKeys(list), Seen(a),
         list' = Inserted(list, a, 1, Capacity)
  PROVE  Ages' /\ \A c \in Addrs : Blocked(c) /\ ~Blocked(c)' => Excused(c)
<1> DEFINE out == Evicted(list, a, 1, Capacity)
<1>1. /\ CacheKeys(list') = (CacheKeys(list) \cup {a}) \ out
      /\ list'.item[a] = [age |-> 0, data |-> 1]
      /\ \A k \in CacheKeys(list) \ out : list'.item[k] = list.item[k]
      /\ out \subseteq CacheKeys(list)
      /\ Sound(list')
  BY InsertedSound DEF Inv, ListOK
<1>2. /\ CacheKeys(list) \subseteq Addrs
      /\ seen'[a] = 0
      /\ \A k \in Addrs \ {a} : seen'[k] = seen[k]
      /\ \A k \in Addrs : seen[k] \in Nat
  BY DEF Inv, ListOK, Scalars, Seen
<1>3. Ages'
  BY <1>1, <1>2 DEF Ages
<1>4. ASSUME NEW c \in Addrs, Blocked(c), ~Blocked(c)' PROVE Excused(c)
  <2>1. c \in CacheKeys(list)
    BY <1>4 DEF Blocked, Listed
  <2>2. c \in out
    BY <1>1, <1>4, <2>1 DEF Blocked, Listed
  <2>3. /\ out = {c}
        /\ Cardinality(CacheKeys(list')) >= Capacity - 1
        /\ \A j \in CacheKeys(list) \ {c} : <<c, j>> \in list.older
    BY <2>2, EvictedOldest DEF Inv, ListOK
  <2>4. ASSUME NEW b \in CacheKeys(list')
        PROVE  b \in Addrs \ {c} /\ seen'[b] <= seen[c]
    <3>1. b \in Addrs \ {c}
      BY <1>1, <1>2, <2>3, <2>4
    <3>2. CASE b = a
      BY <1>2, <3>1, <3>2
    <3>3. CASE b # a
      <4>1. b \in CacheKeys(list) \ {c}
        BY <1>1, <2>3, <2>4, <3>3
      <4>2. seen[c] >= seen[b]
        BY <2>1, <2>3, <4>1 DEF Inv, OldestFirst
      <4>3. QED
        BY <1>2, <3>1, <3>3, <4>2
    <3>4. QED
      BY <3>1, <3>2, <3>3
  <2>5. CacheKeys(list') = {b \in Addrs \ {c} : Listed(b)' /\ seen'[b] <= seen[c]}
    BY <2>4 DEF Listed
  <2>6. QED
    BY <2>3, <2>5 DEF Excused
<1>5. QED
  BY <1>3, <1>4

\* What leaves the list was reset, had expired, or leaves it at the exit.
LEMMA DropAges ==
  ASSUME Inv, Ages, NEW S, list' = Dropped(list, S), seen' = seen,
         \A c \in S \cap CacheKeys(list) : Excused(c)
  PROVE  Ages' /\ \A c \in Addrs : Blocked(c) /\ ~Blocked(c)' => Excused(c)
<1>1. /\ CacheKeys(list') = CacheKeys(list) \ S
      /\ \A k \in CacheKeys(list) \ S : list'.item[k] = list.item[k]
  BY DroppedSound DEF Inv, ListOK, Sound
<1>2. Ages'
  BY <1>1 DEF Ages
<1>3. QED
  BY <1>1, <1>2 DEF Blocked, Listed

LEMMA TickAges ==
  ASSUME Inv, Ages, Tick
  PROVE  Ages' /\ \A c \in Addrs : Blocked(c) => Blocked(c)'
<1>1. /\ CacheKeys(list') = CacheKeys(list)
      /\ \A k \in CacheKeys(list) :
             list'.item[k] = [list.item[k] EXCEPT !.age = IF @ < MaxAge + 1 THEN @ + 1 ELSE @]
  BY AgedSound DEF Inv, ListOK, Sound, Tick
<1>2. /\ CacheKeys(list) \subseteq Addrs
      /\ \A k \in Addrs : seen[k] \in Nat
      /\ \A k \in Addrs : seen'[k] = IF seen[k] <= MaxAge THEN seen[k] + 1 ELSE seen[k]
  BY DEF Inv, ListOK, Scalars, Tick
<1>3. ASSUME NEW k \in CacheKeys(list)
      PROVE  list'.item[k].age = seen'[k] /\ list'.item[k].data = list.item[k].data
  <2>1. PICK age \in 0..MaxAge + 1, data \in Nat \ {0} : list.item[k] = [age |-> age, data |-> data]
    BY DEF Inv, ListOK, Entries
  <2>2. age = seen[k]
    BY <2>1 DEF Ages
  <2>3. list'.item[k] = [age |-> IF age < MaxAge + 1 THEN age + 1 ELSE age, data |-> data]
    BY <1>1, <2>1
  <2>4. seen'[k] = IF age <= MaxAge THEN age + 1 ELSE age
    BY <1>2, <2>2
  <2>5. (age < MaxAge + 1) <=> (age <= MaxAge)
    OBVIOUS
  <2>6. QED
    BY <2>1, <2>3, <2>4, <2>5
<1>4. QED
  BY <1>1, <1>3 DEF Ages, Blocked, Listed

LEMMA SameAges ==
  ASSUME Ages, list' = list, seen' = seen
  PROVE  Ages' /\ \A c \in Addrs : Blocked(c) => Blocked(c)'
BY DEF Ages, Blocked, Listed

LEMMA ClientAges ==
  ASSUME Inv, Ages, NEW a \in Addrs, Client(a)
  PROVE  Ages' /\ \A c \in Addrs : Blocked(c) /\ ~Blocked(c)' => Excused(c)
<1>1. CASE AdmitUnchecked(a) \/ Deny(a) \/ Close(a)
  <2>1. list' = list /\ seen' = seen
    BY <1>1 DEF AdmitUnchecked, Deny, Close, vars
  <2>2. QED
    BY <2>1, SameAges
<1>2. CASE Admit(a) \/ Refuse(a)
  <2>1. list' = Touched(list, a) /\ Seen(a)
    BY <1>2 DEF Admit, Refuse
  <2>2. QED
    BY <2>1, TouchAges
<1>3. CASE ResetAddr(a)
  <2>1. list' = Dropped(list, {a}) /\ seen' = seen /\ conns[a] > 0
    BY <1>3 DEF ResetAddr
  <2>2. \A c \in {a} \cap CacheKeys(list) : Excused(c)
    BY <2>1 DEF Excused
  <2>3. QED
    BY <2>1, <2>2, DropAges
<1>4. ASSUME NEW level \in Levels, Report(a, level)
      PROVE  Ages' /\ \A c \in Addrs : Blocked(c) /\ ~Blocked(c)' => Excused(c)
  <2>1. Seen(a) /\ Weight[level] \in Nat
    BY <1>4 DEF Report, Weight
  <2>2. CASE Listed(a) /\ Blocked(a)
    <3>1. list' = Touched(list, a)
      BY <1>4, <2>2 DEF Report
    <3>2. QED
      BY <2>1, <3>1, TouchAges
  <2>3. CASE Listed(a) /\ ~Blocked(a)
    <3>1. list' = Counted(Touched(list, a), a, Weight[level]) /\ a \in CacheKeys(list)
      BY <1>4, <2>3 DEF Report, Listed
    <3>2. QED
      BY <2>1, <2>3, <3>1, CountAges
  <2>4. CASE ~Listed(a)
    <3>1. list' = Inserted(list, a, 1, Capacity) /\ a \notin CacheKeys(list)
      BY <1>4, <2>4 DEF Report, Listed
    <3>2. QED
      BY <2>1, <3>1, InsertAges
  <2>5. QED
    BY <2>2, <2>3, <2>4
<1>5. QED
  BY <1>1, <1>2, <1>3, <1>4 DEF Client

LEMMA StepAges ==
  ASSUME Inv, Ages, [Next]_vars
  PROVE  Ages' /\ \A c \in Addrs : Blocked(c) /\ ~Blocked(c)' => Excused(c)
<1>1. CASE \E a \in Addrs : Client(a)
  BY <1>1, ClientAges
<1>2. CASE ClearTimer
  <2>1. list' = Dropped(list, Expired(list, MaxAge)) /\ seen' = seen
    BY <1>2 DEF ClearTimer
  <2>2. \A c \in Expired(list, MaxAge) \cap CacheKeys(list) : Excused(c)
    BY DEF Expired, Ages, Excused
  <2>3. QED
    BY <2>1, <2>2, DropAges
<1>3. CASE Tick
  BY <1>3, TickAges
<1>4. CASE FreeBlockList
  <2>1. list' = Dropped(list, Expired(list, 0)) /\ seen' = seen /\ phase' = "stopped"
    BY <1>4 DEF FreeBlockList
  <2>2. \A c \in Expired(list, 0) \cap CacheKeys(list) : Excused(c)
    BY <2>1 DEF Excused
  <2>3. QED
    BY <2>1, <2>2, DropAges
<1>5. CASE UNCHANGED vars
  BY <1>5, SameAges DEF vars
<1>6. QED
  BY <1>1, <1>2, <1>3, <1>4, <1>5 DEF Next, Running, Done

LEMMA AgesAlways == Spec => []Ages
<1>1. Init => Ages
  BY EmptyCacheSound DEF Init, Ages
<1>2. Inv /\ Ages /\ [Next]_vars => Ages'
  BY StepAges
<1>3. QED
  BY <1>1, <1>2, InvAlways, PTL DEF Spec

\* A blocked address stays blocked but for the four causes: with any number
\* of addresses and any limits, no lookup, report, tick or clearing of the
\* list lets one go that was seen within MaxAge, unless its own connection
\* reached a target or a full list of others was seen since.
THEOREM UnblockedOnlyForCause == Spec => UnblockedForCause
<1>1. Inv /\ Ages /\ [Next]_vars
        => [\A a \in Addrs : Blocked(a) /\ ~Blocked(a)' =>
               \/ conns[a] > 0 /\ list' = Dropped(list, {a})
               \/ seen[a] > MaxAge
               \/ Cardinality({b \in Addrs \ {a} : Listed(b)' /\ seen'[b] <= seen[a]})
                     >= Capacity - 1
               \/ phase' = "stopped"]_vars
  BY StepAges DEF Excused
<1>2. QED
  BY <1>1, InvAlways, AgesAlways, PTL DEF Spec, UnblockedForCause
=============================================================================
