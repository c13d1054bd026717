---------------------------- MODULE ResolverPromise ----------------------------
(***************************************************************************)
(* What the relays rely on when they ask the resolver: a call they may     *)
(* cancel until it is answered is answered once, or refused at once, and   *)
(* nothing happens to it afterwards.                                       *)
(***************************************************************************)
CONSTANT Calls

VARIABLE fate   \* "idle", "asked", "refused", "answered", "cancelled"

Init == fate = [k \in Calls |-> "idle"]

Becomes(k, f) == fate' = [fate EXCEPT ![k] = f]

Ask(k) == fate[k] = "idle" /\ Becomes(k, "asked")
Refuse(k) == fate[k] = "idle" /\ Becomes(k, "refused")
Answer(k) == fate[k] = "asked" /\ Becomes(k, "answered")
Cancel(k) == fate[k] = "asked" /\ Becomes(k, "cancelled")

Next == \E k \in Calls : Ask(k) \/ Refuse(k) \/ Answer(k) \/ Cancel(k)

Spec == Init /\ [][Next]_fate
=============================================================================
