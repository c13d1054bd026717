------------------------------ MODULE MCUdpRelay ------------------------------
(***************************************************************************)
(* UdpRelay for TLC: two addresses of one family and one of the other, and *)
(* two names.  With one address for both names the names are alike, and so *)
(* permuted with the clients, the places and the queries.                  *)
(***************************************************************************)
EXTENDS UdpRelay, TLC

CONSTANTS x4, y4, z6, n1, n2

TwoAddrs == {x4, y4}
AllAddrs == {x4, y4, z6}
FourFamily == x4 :> "v4" @@ y4 :> "v4"
MixedFamily == x4 :> "v4" @@ y4 :> "v4" @@ z6 :> "v6"
SameZone == n1 :> {x4} @@ n2 :> {x4}
TwoZone == n1 :> {x4} @@ n2 :> {y4}
Symmetry ==
    Permutations(Clients) \cup Permutations(Remotes) \cup Permutations(Queries)
    \cup Permutations(Names)
=============================================================================
