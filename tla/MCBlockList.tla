------------------------------ MODULE MCBlockList ------------------------------
(* BlockList for TLC: an access list that denies one address and
   white-lists another. *)
EXTENDS BlockList, TLC

MixedAcl == CHOOSE f \in [Addrs -> {-1, 0, 1}] :
                \A v \in {-1, 1} : Cardinality({a \in Addrs : f[a] = v}) = 1
MildAndHarsh == {"MALFORMED", "MALICIOUS"}
=============================================================================
