------------------------------- MODULE Resolver -------------------------------
(***************************************************************************)
(* resolv.c: a call of resolv_query submits an A and an AAAA query to udns *)
(* and calls its client back once both have ended, in whichever order.     *)
(* udns (external) ends each query it accepted, with records or without,   *)
(* from the event loop.  The client is a connection of server.c: it keeps  *)
(* the handle in server->query and may close, which cancels, at any time   *)
(* and in the callback itself.                                             *)
(***************************************************************************)
EXTENDS Naturals, Sequences

CONSTANTS
    Calls,      \* calls of resolv_query
    First,      \* "v4" or "v6": MODE_IPV4_FIRST or MODE_IPV6_FIRST
    MaxRecords  \* bound: records in one reply

ASSUME ResolverAssumption ==
    /\ First \in {"v4", "v6"}
    /\ MaxRecords \in Nat

VARIABLES
    stage,      \* of the ResolvQuery: "idle", "pending", "gone" (freed)
    parts,      \* queries: those udns has not ended
    resp,       \* responses: families of the addresses, in order of arrival
    freed,      \* history: times client_free_cb ran
    records,    \* history: records in each reply
    handle,     \* server->query is set
    fate        \* history: what became of the call, see ResolverPromise

vars == <<stage, parts, resp, freed, records, handle, fate>>

Parts == {"A", "AAAA"}
FamilyOf(p) == IF p = "A" THEN "v4" ELSE "v6"
PartOf(f) == IF f = "v4" THEN "A" ELSE "AAAA"
Second == IF First = "v4" THEN "v6" ELSE "v4"

Init ==
    /\ stage = [k \in Calls |-> "idle"]
    /\ parts = [k \in Calls |-> {}]
    /\ resp = [k \in Calls |-> <<>>]
    /\ freed = [k \in Calls |-> 0]
    /\ records = [k \in Calls |-> [p \in Parts |-> 0]]
    /\ handle = [k \in Calls |-> FALSE]
    /\ fate = [k \in Calls |-> "idle"]

-----------------------------------------------------------------------------
\* resolv_query: dns_submit_a4 and dns_submit_a6 may each fail; without any
\* the data is freed at once and the handle is NULL.
Query(k) ==
    /\ stage[k] = "idle"
    /\ \E sub \in SUBSET Parts :
        /\ parts' = [parts EXCEPT ![k] = sub]
        /\ stage' = [stage EXCEPT ![k] = IF sub = {} THEN "gone" ELSE "pending"]
        /\ freed' = [freed EXCEPT ![k] = IF sub = {} THEN @ + 1 ELSE @]
        /\ handle' = [handle EXCEPT ![k] = sub # {}]
        /\ fate' = [fate EXCEPT ![k] = IF sub = {} THEN "refused" ELSE "asked"]
    /\ UNCHANGED <<resp, records>>

\* choose_ipv4_first, choose_ipv6_first, choose_any
BestAny(r) == IF r = <<>> THEN "none" ELSE r[1]   \* fault
Best(r) ==
    IF \E i \in 1..Len(r) : r[i] = First THEN First
    ELSE IF r = <<>> THEN "none" ELSE r[1]

\* the records of a reply go behind those already there
Received(r, p, n) == r \o [i \in 1..n |-> FamilyOf(p)]

\* all_queries_are_null, once p is marked as completed
FirstEnds(k, p) == TRUE             \* fault
BothEnd(k, p) == records[k][CHOOSE o \in Parts : o # p] > 0   \* fault
LastEnds(k, p) == parts[k] = {p}

\* server_resolve_cb clears server->query before it does anything else, so a
\* close in the callback does not cancel
HandleLeft(k) == handle[k]   \* fault
HandleInCallback(k) == FALSE

\* process_client_callback frees the data after the callback; a cancel in the
\* callback frees it too
CalledBack(k, closes) ==
    LET cancels == closes /\ HandleInCallback(k) IN
    /\ stage' = [stage EXCEPT ![k] = "gone"]
    /\ freed' = [freed EXCEPT ![k] = IF cancels THEN @ + 2 ELSE @ + 1]
    /\ handle' = [handle EXCEPT ![k] = HandleInCallback(k) /\ ~closes]
    /\ fate' = [fate EXCEPT ![k] = Best(resp'[k])]

\* dns_query_v4_cb, dns_query_v6_cb: a reply with n records, or an error, a
\* timeout or an allocation failure (n = 0)
End(k, p, n) ==
    /\ p \in parts[k]
    /\ parts' = [parts EXCEPT ![k] = @ \ {p}]
    /\ resp' = [resp EXCEPT ![k] = Received(@, p, n)]
    /\ records' = [records EXCEPT ![k][p] = n]
    /\ IF LastEnds(k, p)
       THEN \E closes \in BOOLEAN : CalledBack(k, closes)
       ELSE UNCHANGED <<stage, freed, handle, fate>>

\* close_and_free_server cancels a call it holds: resolv_cancel withdraws the
\* queries; what they had answered is not freed (responses)
WithdrawnA(k) == [parts EXCEPT ![k] = @ \ {"A"}]   \* fault
Withdrawn(k) == [parts EXCEPT ![k] = {}]
Cancel(k) ==
    /\ handle[k]
    /\ parts' = Withdrawn(k)
    /\ stage' = [stage EXCEPT ![k] = "gone"]
    /\ freed' = [freed EXCEPT ![k] = @ + 1]
    /\ handle' = [handle EXCEPT ![k] = FALSE]
    /\ fate' = [fate EXCEPT ![k] = "cancelled"]
    /\ UNCHANGED <<resp, records>>

Done == (\A k \in Calls : stage[k] = "gone") /\ UNCHANGED vars

Ends(k) == \E p \in Parts, n \in 0..MaxRecords : End(k, p, n)

Next == (\E k \in Calls : Query(k) \/ Cancel(k) \/ Ends(k)) \/ Done

Spec == Init /\ [][Next]_vars

\* udns ends every query: with a reply or, after its retries, a timeout that
\* resolv_timeout_cb delivers
FairSpec == Spec /\ \A k \in Calls : WF_vars(Ends(k))

-----------------------------------------------------------------------------
(* Properties. *)

Outcomes == {"v4", "v6", "none"}   \* what client_cb was given
Fates == {"idle", "asked", "refused", "cancelled"} \cup Outcomes

\* A call keeps the families of the addresses received, and its parts only
\* while it is pending.
TypeOK ==
    /\ stage \in [Calls -> {"idle", "pending", "gone"}]
    /\ parts \in [Calls -> SUBSET Parts]
    /\ \A k \in Calls : resp[k] \in Seq({"v4", "v6"})
    /\ \A k \in Calls : Len(resp[k]) = records[k]["A"] + records[k]["AAAA"]
    /\ freed \in [Calls -> 0..1]
    /\ records \in [Calls -> [Parts -> 0..MaxRecords]]
    /\ handle \in [Calls -> BOOLEAN]
    /\ fate \in [Calls -> Fates]

\* udns holds a query of a call exactly while the call is pending, so no
\* reply reaches a call that was freed (all_queries_are_null, resolv_cancel).
RepliesFindCall == \A k \in Calls : (parts[k] # {}) <=> (stage[k] = "pending")

\* A client holds the handle of a pending call and of no other, so it never
\* cancels one that is gone, not even in its own callback, and its data is
\* freed once (server_resolve_cb, close_and_free_server).
HandleIsPending ==
    \A k \in Calls :
        /\ handle[k] <=> stage[k] = "pending"
        /\ freed[k] = IF stage[k] = "gone" THEN 1 ELSE 0

\* The answer is of the preferred family whenever there was one, whichever
\* reply came first, and there is an answer whenever there was a record.
PreferenceKept ==
    \A k \in Calls : fate[k] \in Outcomes =>
        fate[k] = IF records[k][PartOf(First)] > 0 THEN First
                  ELSE IF records[k][PartOf(Second)] > 0 THEN Second ELSE "none"

Promise == INSTANCE ResolverPromise WITH
    fate <- [k \in Calls |-> IF fate[k] \in Outcomes THEN "answered" ELSE fate[k]]

\* Every call runs through the fates of ResolverPromise.
ImplementsPromise == Promise!Spec

\* Every call that was accepted ends.
CallsEnd == \A k \in Calls : stage[k] = "pending" ~> stage[k] = "gone"
=============================================================================
