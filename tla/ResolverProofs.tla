---------------------------- MODULE ResolverProofs ----------------------------
(***************************************************************************)
(* The resolver for any number of calls and records.  Inv adds to the      *)
(* properties that the families in resp are those of the replies, so that  *)
(* the choice made from resp can be compared with what was received.       *)
(***************************************************************************)
EXTENDS Resolver, TLAPS

Types ==
    /\ stage \in [Calls -> {"idle", "pending", "gone"}]
    /\ parts \in [Calls -> SUBSET Parts]
    /\ resp \in [Calls -> Seq({"v4", "v6"})]
    /\ freed \in [Calls -> 0..1]
    /\ records \in [Calls -> [Parts -> 0..MaxRecords]]
    /\ handle \in [Calls -> BOOLEAN]
    /\ fate \in [Calls -> Fates]

Has(r, f) == \E i \in 1..Len(r) : r[i] = f

\* what relates the variables of one call
Call(st, ps, r, fr, rc, hd, ft) ==
    /\ (ps # {}) <=> (st = "pending")
    /\ hd <=> (st = "pending")
    /\ fr = IF st = "gone" THEN 1 ELSE 0
    /\ st = "idle" <=> ft = "idle"
    /\ st = "pending" <=> ft = "asked"
    /\ st = "idle" => r = <<>>
    /\ Len(r) = rc["A"] + rc["AAAA"]
    /\ \A p \in Parts : Has(r, FamilyOf(p)) <=> rc[p] > 0
    /\ \A p \in ps : rc[p] = 0
    /\ st = "idle" => \A p \in Parts : rc[p] = 0
    /\ ft \in Outcomes => ft = IF rc[PartOf(First)] > 0 THEN First
                               ELSE IF rc[PartOf(Second)] > 0 THEN Second ELSE "none"

CallOK(k) == Call(stage[k], parts[k], resp[k], freed[k], records[k], handle[k], fate[k])

Inv == Types /\ \A k \in Calls : CallOK(k)

USE ResolverAssumption

\* The n records of a reply go behind the others (dns_query_v4_cb).
LEMMA ReceivedAppends ==
  ASSUME NEW r \in Seq({"v4", "v6"}), NEW p \in Parts, NEW n \in 0..MaxRecords
  PROVE  /\ Received(r, p, n) \in Seq({"v4", "v6"})
         /\ Len(Received(r, p, n)) = Len(r) + n
         /\ \A f \in {"v4", "v6"} :
                Has(Received(r, p, n), f) <=> (Has(r, f) \/ (f = FamilyOf(p) /\ n > 0))
<1> DEFINE t == [i \in 1..n |-> FamilyOf(p)]
           s == r \o t
<1>1. FamilyOf(p) \in {"v4", "v6"} /\ n \in Nat
  BY DEF FamilyOf
<1>2. t \in Seq({"v4", "v6"}) /\ Len(t) = n /\ \A i \in 1..n : t[i] = FamilyOf(p)
  BY <1>1
<1> HIDE DEF t
<1>3. /\ s \in Seq({"v4", "v6"})
      /\ Len(s) = Len(r) + n
      /\ \A i \in 1..Len(r) : s[i] = r[i]
      /\ \A i \in Len(r) + 1..Len(r) + n : s[i] = t[i - Len(r)]
  BY <1>1, <1>2
<1>4. Received(r, p, n) = s
  BY DEF Received, t
<1> HIDE DEF s
<1>5. ASSUME NEW f \in {"v4", "v6"}
      PROVE  Has(s, f) <=> (Has(r, f) \/ (f = FamilyOf(p) /\ n > 0))
  <2>1. ASSUME Has(s, f) PROVE Has(r, f) \/ (f = FamilyOf(p) /\ n > 0)
    <3>1. PICK i \in 1..Len(s) : s[i] = f
      BY <2>1 DEF Has
    <3>2. CASE i \in 1..Len(r)
      BY <1>3, <3>1, <3>2 DEF Has
    <3>3. CASE i \in Len(r) + 1..Len(r) + n
      <4>1. i - Len(r) \in 1..n
        BY <1>1, <3>3
      <4>2. QED
        BY <1>1, <1>2, <1>3, <3>1, <3>3, <4>1
    <3>4. QED
      BY <1>1, <1>3, <3>1, <3>2, <3>3
  <2>2. ASSUME Has(r, f) PROVE Has(s, f)
    <3>1. PICK i \in 1..Len(r) : r[i] = f
      BY <2>2 DEF Has
    <3>2. i \in 1..Len(s) /\ s[i] = f
      BY <1>1, <1>3, <3>1
    <3>3. QED
      BY <3>2 DEF Has
  <2>3. ASSUME f = FamilyOf(p), n > 0 PROVE Has(s, f)
    <3>1. Len(r) + 1 \in Len(r) + 1..Len(r) + n /\ Len(r) + 1 \in 1..Len(s)
      BY <1>1, <1>3, <2>3
    <3>2. s[Len(r) + 1] = t[1]
      BY <1>3, <3>1
    <3>3. t[1] = f
      BY <1>1, <1>2, <2>3
    <3>4. QED
      BY <3>1, <3>2, <3>3 DEF Has
  <2>4. QED
    BY <2>1, <2>2, <2>3
<1>6. QED
  BY <1>3, <1>4, <1>5

\* The choice prefers the first family and finds any address there is
\* (choose_ipv4_first, choose_ipv6_first, choose_any).
LEMMA BestPrefers ==
  ASSUME NEW r \in Seq({"v4", "v6"})
  PROVE  Best(r) = IF Has(r, First) THEN First
                   ELSE IF Has(r, Second) THEN Second ELSE "none"
<1>1. CASE Has(r, First)
  BY <1>1 DEF Best, Has
<1>2. CASE ~Has(r, First) /\ r = <<>>
  BY <1>2 DEF Best, Has
<1>3. CASE ~Has(r, First) /\ r # <<>>
  <2>1. 1 \in 1..Len(r) /\ r[1] \in {"v4", "v6"}
    BY <1>3
  <2>2. r[1] = Second
    BY <1>3, <2>1 DEF Has, Second
  <2>3. QED
    BY <1>3, <2>1, <2>2 DEF Best, Has
<1>4. QED
  BY <1>1, <1>2, <1>3

LEMMA InitInv == Init => Inv
<1> SUFFICES ASSUME Init PROVE Inv
  OBVIOUS
<1>1. Types
  <2>1. records \in [Calls -> [Parts -> 0..MaxRecords]]
    BY DEF Init
  <2>2. resp \in [Calls -> Seq({"v4", "v6"})]
    BY DEF Init
  <2>3. QED
    BY <2>1, <2>2 DEF Init, Types, Fates
<1>2. ASSUME NEW k \in Calls PROVE CallOK(k)
  <2>1. /\ stage[k] = "idle" /\ parts[k] = {} /\ resp[k] = <<>> /\ freed[k] = 0
        /\ \A p \in Parts : records[k][p] = 0
        /\ handle[k] = FALSE /\ fate[k] = "idle"
    BY DEF Init
  <2>2. "A" \in Parts /\ "AAAA" \in Parts
    BY DEF Parts
  <2>3. QED
    BY <2>1, <2>2 DEF CallOK, Call, Has, Outcomes
<1>3. QED
  BY <1>1, <1>2 DEF Inv

\* A step of one call leaves the others as they are.
LEMMA OneCall ==
  ASSUME Inv, NEW k \in Calls, Types', CallOK(k)',
         \A j \in Calls \ {k} :
             /\ stage'[j] = stage[j] /\ parts'[j] = parts[j] /\ resp'[j] = resp[j]
             /\ freed'[j] = freed[j] /\ records'[j] = records[j]
             /\ handle'[j] = handle[j] /\ fate'[j] = fate[j]
  PROVE  Inv'
<1>1. ASSUME NEW j \in Calls, j # k PROVE CallOK(j)'
  BY <1>1 DEF Inv, CallOK
<1>2. QED
  BY <1>1 DEF Inv

LEMMA QueryInv == ASSUME Inv, NEW k \in Calls, Query(k) PROVE Inv'
<1>1. PICK sub \in SUBSET Parts :
        /\ parts' = [parts EXCEPT ![k] = sub]
        /\ stage' = [stage EXCEPT ![k] = IF sub = {} THEN "gone" ELSE "pending"]
        /\ freed' = [freed EXCEPT ![k] = IF sub = {} THEN @ + 1 ELSE @]
        /\ handle' = [handle EXCEPT ![k] = sub # {}]
        /\ fate' = [fate EXCEPT ![k] = IF sub = {} THEN "refused" ELSE "asked"]
  BY DEF Query
<1>2. stage[k] = "idle" /\ resp' = resp /\ records' = records
  BY DEF Query
<1>3. Types /\ CallOK(k)
  BY DEF Inv
<1>4. /\ freed[k] = 0 /\ resp[k] = <<>> /\ \A p \in Parts : records[k][p] = 0
      /\ Len(resp[k]) = records[k]["A"] + records[k]["AAAA"]
      /\ \A p \in Parts : Has(resp[k], FamilyOf(p)) <=> records[k][p] > 0
  BY <1>2, <1>3 DEF CallOK, Call
<1>5. Types'
  BY <1>1, <1>2, <1>3, <1>4 DEF Types, Fates
<1>6. /\ stage'[k] = IF sub = {} THEN "gone" ELSE "pending"
      /\ parts'[k] = sub /\ handle'[k] = (sub # {})
      /\ freed'[k] = IF sub = {} THEN 1 ELSE 0
      /\ fate'[k] = IF sub = {} THEN "refused" ELSE "asked"
      /\ resp'[k] = resp[k] /\ records'[k] = records[k]
  BY <1>1, <1>2, <1>3, <1>4 DEF Types
<1>7. CallOK(k)'
  BY <1>4, <1>6 DEF CallOK, Call, Outcomes
<1>8. QED
  BY <1>1, <1>2, <1>3, <1>5, <1>7, OneCall DEF Types

LEMMA CancelInv == ASSUME Inv, NEW k \in Calls, Cancel(k) PROVE Inv'
<1>1. Types /\ CallOK(k)
  BY DEF Inv
<1>2. handle[k] /\ resp' = resp /\ records' = records
  BY DEF Cancel
<1>3. stage[k] = "pending" /\ freed[k] = 0 /\ parts[k] # {}
  BY <1>1, <1>2 DEF CallOK, Call
<1>4. Types'
  BY <1>1, <1>3 DEF Cancel, Withdrawn, Types, Fates
<1>5. /\ stage'[k] = "gone" /\ parts'[k] = {} /\ freed'[k] = 1
      /\ handle'[k] = FALSE /\ fate'[k] = "cancelled"
  BY <1>1, <1>3 DEF Cancel, Withdrawn, Types
<1>6. CallOK(k)'
  BY <1>1, <1>2, <1>3, <1>5 DEF CallOK, Call, Outcomes
<1>7. QED
  BY <1>1, <1>4, <1>6, OneCall DEF Cancel, Withdrawn, Types

LEMMA EndInv ==
  ASSUME Inv, NEW k \in Calls, NEW p \in Parts, NEW n \in 0..MaxRecords, End(k, p, n)
  PROVE  Inv'
<1>1. Types /\ CallOK(k)
  BY DEF Inv
<1>2. /\ p \in parts[k]
      /\ parts' = [parts EXCEPT ![k] = @ \ {p}]
      /\ resp' = [resp EXCEPT ![k] = Received(@, p, n)]
      /\ records' = [records EXCEPT ![k][p] = n]
  BY DEF End
<1>3. /\ stage[k] = "pending" /\ freed[k] = 0 /\ handle[k] /\ fate[k] = "asked"
      /\ records[k][p] = 0
  BY <1>1, <1>2 DEF CallOK, Call, Types
<1>4. /\ resp'[k] = Received(resp[k], p, n) /\ parts'[k] = parts[k] \ {p}
      /\ records'[k][p] = n /\ \A o \in Parts \ {p} : records'[k][o] = records[k][o]
      /\ records'[k] \in [Parts -> 0..MaxRecords]
  BY <1>1, <1>2 DEF Types
<1>5. /\ resp'[k] \in Seq({"v4", "v6"})
      /\ Len(resp'[k]) = Len(resp[k]) + n
      /\ \A f \in {"v4", "v6"} :
             Has(resp'[k], f) <=> (Has(resp[k], f) \/ (f = FamilyOf(p) /\ n > 0))
  <2>1. resp[k] \in Seq({"v4", "v6"})
    BY <1>1 DEF Types
  <2>2. /\ Received(resp[k], p, n) \in Seq({"v4", "v6"})
        /\ Len(Received(resp[k], p, n)) = Len(resp[k]) + n
        /\ \A f \in {"v4", "v6"} :
               Has(Received(resp[k], p, n), f) <=> (Has(resp[k], f) \/ (f = FamilyOf(p) /\ n > 0))
    BY <2>1, ReceivedAppends
  <2>3. QED
    BY <1>4, <2>2
<1>6. \A o \in Parts : Has(resp'[k], FamilyOf(o)) <=> records'[k][o] > 0
  <2>1. \A o \in Parts : Has(resp[k], FamilyOf(o)) <=> records[k][o] > 0
    BY <1>1 DEF CallOK, Call
  <2>2. \A o \in Parts : FamilyOf(o) \in {"v4", "v6"} /\ (o # p => FamilyOf(o) # FamilyOf(p))
    BY DEF FamilyOf, Parts
  <2>3. QED
    BY <1>3, <1>4, <1>5, <2>1, <2>2
<1>7. Len(resp'[k]) = records'[k]["A"] + records'[k]["AAAA"]
  <2>1. Len(resp[k]) = records[k]["A"] + records[k]["AAAA"]
    BY <1>1 DEF CallOK, Call
  <2>2. records[k] \in [Parts -> 0..MaxRecords] /\ MaxRecords \in Nat
    BY <1>1 DEF Types
  <2>3. CASE p = "A"
    BY <1>3, <1>4, <1>5, <2>1, <2>2, <2>3 DEF Parts
  <2>4. CASE p = "AAAA"
    BY <1>3, <1>4, <1>5, <2>1, <2>2, <2>4 DEF Parts
  <2>5. QED
    BY <2>3, <2>4 DEF Parts
<1>8. \A o \in parts'[k] : records'[k][o] = 0
  BY <1>1, <1>4 DEF CallOK, Call, Types
<1>9. /\ parts' \in [Calls -> SUBSET Parts]
      /\ resp' \in [Calls -> Seq({"v4", "v6"})]
      /\ records' \in [Calls -> [Parts -> 0..MaxRecords]]
  BY <1>1, <1>2, <1>4, <1>5 DEF Types
<1>10. CASE ~LastEnds(k, p)
  <2>1. UNCHANGED <<stage, freed, handle, fate>>
    BY <1>10 DEF End
  <2>2. parts'[k] # {}
    BY <1>2, <1>4, <1>10 DEF LastEnds
  <2>3. Types'
    BY <1>1, <1>9, <2>1 DEF Types
  <2>4. CallOK(k)'
    BY <1>3, <1>6, <1>7, <1>8, <2>1, <2>2 DEF CallOK, Call, Outcomes
  <2>5. QED
    BY <1>1, <1>2, <2>1, <2>3, <2>4, OneCall DEF Types
<1>11. CASE LastEnds(k, p)
  <2>1. PICK closes \in BOOLEAN : CalledBack(k, closes)
    BY <1>11 DEF End
  <2>2. /\ stage' = [stage EXCEPT ![k] = "gone"]
        /\ freed' = [freed EXCEPT ![k] = @ + 1]
        /\ handle' = [handle EXCEPT ![k] = FALSE]
        /\ fate' = [fate EXCEPT ![k] = Best(resp'[k])]
    BY <2>1 DEF CalledBack, HandleInCallback
  <2>3. Best(resp'[k]) = IF Has(resp'[k], First) THEN First
                         ELSE IF Has(resp'[k], Second) THEN Second ELSE "none"
    BY <1>5, BestPrefers
  <2>4. /\ Has(resp'[k], First) <=> records'[k][PartOf(First)] > 0
        /\ Has(resp'[k], Second) <=> records'[k][PartOf(Second)] > 0
    <3>1. /\ PartOf(First) \in Parts /\ FamilyOf(PartOf(First)) = First
          /\ PartOf(Second) \in Parts /\ FamilyOf(PartOf(Second)) = Second
      BY DEF PartOf, FamilyOf, Second, Parts
    <3>2. QED
      BY <1>6, <3>1
  <2>5. Best(resp'[k]) \in Outcomes
    BY <2>3 DEF Outcomes, Second
  <2>6. Types'
    BY <1>1, <1>3, <1>9, <2>2, <2>5 DEF Types, Fates
  <2>7. /\ stage'[k] = "gone" /\ freed'[k] = 1 /\ handle'[k] = FALSE
        /\ fate'[k] = Best(resp'[k]) /\ parts'[k] = {}
    BY <1>1, <1>3, <1>4, <1>11, <2>2 DEF Types, LastEnds
  <2>8. fate'[k] # "idle" /\ fate'[k] # "asked"
    BY <2>5, <2>7 DEF Outcomes
  <2>9. CallOK(k)'
    BY <1>6, <1>7, <2>3, <2>4, <2>7, <2>8 DEF CallOK, Call
  <2>10. QED
    BY <1>1, <1>2, <2>2, <2>6, <2>9, OneCall DEF Types
<1>12. QED
  BY <1>10, <1>11

LEMMA NextInv == Inv /\ [Next]_vars => Inv'
<1> SUFFICES ASSUME Inv, [Next]_vars PROVE Inv'
  OBVIOUS
<1>1. ASSUME NEW k \in Calls, Query(k) PROVE Inv'
  BY <1>1, QueryInv
<1>2. ASSUME NEW k \in Calls, Cancel(k) PROVE Inv'
  BY <1>2, CancelInv
<1>3. ASSUME NEW k \in Calls, Ends(k) PROVE Inv'
  BY <1>3, EndInv DEF Ends
<1>4. CASE UNCHANGED vars
  BY <1>4 DEF Inv, Types, CallOK, vars
<1>5. QED
  BY <1>1, <1>2, <1>3, <1>4 DEF Next, Done

\* The invariant that ties handles, queries, records and freed data of a call
\* together holds in every reachable state.
THEOREM InvAlways == Spec => []Inv
BY InitInv, NextInv, PTL DEF Spec

\* Type correctness, for any number of calls and records in a reply.
THEOREM TypesHold == Spec => []TypeOK
<1>1. Inv => TypeOK
  BY DEF Inv, Types, CallOK, Call, TypeOK
<1>2. QED
  BY <1>1, InvAlways, PTL

\* udns holds a query of a call exactly while the call exists
\* (all_queries_are_null, resolv_cancel).
THEOREM NoReplyAfterFree == Spec => []RepliesFindCall
<1>1. Inv => RepliesFindCall
  BY DEF Inv, CallOK, Call, RepliesFindCall
<1>2. QED
  BY <1>1, InvAlways, PTL

\* No client cancels a call that is gone, and its data is freed once
\* (server_resolve_cb, close_and_free_server).
THEOREM HandlesSafe == Spec => []HandleIsPending
<1>1. Inv => HandleIsPending
  BY DEF Inv, CallOK, Call, HandleIsPending
<1>2. QED
  BY <1>1, InvAlways, PTL

\* The answer depends on what was received, not on the order it came in
\* (choose_ipv4_first, choose_ipv6_first).
THEOREM AnswerByPreference == Spec => []PreferenceKept
<1>1. Inv => PreferenceKept
  BY DEF Inv, CallOK, Call, PreferenceKept
<1>2. QED
  BY <1>1, InvAlways, PTL

-----------------------------------------------------------------------------
(* The refinement. *)

Mapped == [k \in Calls |-> IF fate[k] \in Outcomes THEN "answered" ELSE fate[k]]

LEMMA InitMaps == Init => Promise!Init
BY DEF Init, Promise!Init, Outcomes

LEMMA StepMaps == Inv /\ [Next]_vars => [Promise!Next]_Mapped
<1> SUFFICES ASSUME Inv, [Next]_vars PROVE [Promise!Next]_Mapped
  OBVIOUS
<1>1. fate \in [Calls -> Fates] /\ \A k \in Calls : CallOK(k)
  BY DEF Inv, Types
<1>2. ASSUME NEW k \in Calls, Query(k) PROVE Promise!Ask(k) \/ Promise!Refuse(k)
  <2>1. stage[k] = "idle"
    BY <1>2 DEF Query
  <2>2. fate[k] = "idle"
    BY <1>1, <2>1 DEF CallOK, Call
  <2>3. \/ fate' = [fate EXCEPT ![k] = "refused"]
        \/ fate' = [fate EXCEPT ![k] = "asked"]
    BY <1>2 DEF Query
  <2>4. QED
    BY <1>1, <2>2, <2>3
    DEF Promise!Ask, Promise!Refuse, Promise!Becomes, Outcomes
<1>3. ASSUME NEW k \in Calls, Cancel(k) PROVE Promise!Cancel(k)
  <2>1. handle[k] /\ fate' = [fate EXCEPT ![k] = "cancelled"]
    BY <1>3 DEF Cancel
  <2>2. fate[k] = "asked"
    BY <1>1, <2>1 DEF CallOK, Call
  <2>3. QED
    BY <1>1, <2>1, <2>2 DEF Promise!Cancel, Promise!Becomes, Outcomes
<1>4. ASSUME NEW k \in Calls, NEW p \in Parts, NEW n \in 0..MaxRecords, End(k, p, n)
      PROVE  Promise!Answer(k) \/ UNCHANGED Mapped
  <2>1. p \in parts[k]
    BY <1>4 DEF End
  <2>2. fate[k] = "asked"
    BY <1>1, <2>1 DEF CallOK, Call
  <2>3. CASE ~LastEnds(k, p)
    BY <1>4, <2>3 DEF End, Mapped
  <2>4. CASE LastEnds(k, p)
    <3>1. fate' = [fate EXCEPT ![k] = Best(resp'[k])]
      BY <1>4, <2>4 DEF End, CalledBack
    <3>2. resp'[k] \in Seq({"v4", "v6"})
      <4>1. Inv'
        BY <1>4, EndInv
      <4>2. QED
        BY <4>1 DEF Inv, Types
    <3>3. Best(resp'[k]) \in Outcomes
      BY <3>2, BestPrefers DEF Outcomes, Second
    <3>4. QED
      BY <1>1, <2>2, <3>1, <3>3 DEF Promise!Answer, Promise!Becomes, Outcomes
  <2>5. QED
    BY <2>3, <2>4
<1>5. CASE UNCHANGED vars
  BY <1>5 DEF vars, Mapped
<1>6. QED
  BY <1>2, <1>3, <1>4, <1>5 DEF Next, Done, Ends, Promise!Next

\* The resolver keeps the promise both relays rely on: an accepted call is
\* answered once or cancelled, and then never touched again (resolv_query,
\* resolv_cancel, process_client_callback).
THEOREM PromiseKept == Spec => ImplementsPromise
BY InitMaps, StepMaps, InvAlways, PTL DEF Spec, ImplementsPromise, Promise!Spec, Mapped
=============================================================================
