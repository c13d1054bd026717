----------------------------- MODULE MCPlugins ------------------------------
(* PluginPath with a client that differs from a good one in one respect    *)
(* the plug-in looks at, and a good one on the other connection.           *)
EXTENDS PluginPath

CONSTANTS c1, c2

Good     == [key |-> TRUE, late |-> FALSE, host |-> "listed", speaks |-> TRUE]
WrongKey == [Good EXCEPT !.key = FALSE]
Late     == [Good EXCEPT !.late = TRUE]
NoPort   == [Good EXCEPT !.host = "noPort"]
Stranger == [Good EXCEPT !.speaks = FALSE]
MCPeers  == {Good, WrongKey, Late, NoPort, Stranger}

\* The other connection is there for what the two share.  A cipher of libsodium
\* differs in what becomes of a cut flight, which a good client's shows as well.
MCReplies == [c \in {c1, c2} |-> IF c = c1 THEN 2 ELSE 0]

MCInit ==
    /\ Init
    /\ peer[c2] = Good /\ ivOf[c1] = 1
    /\ peer[c1] \in CASE class = "none" -> {Good, WrongKey}
                      [] class = "http"  -> {Good, WrongKey, NoPort, Stranger}
                      [] class = "tls"   -> {Good, WrongKey, Late, Stranger}
    /\ class = "none" => ~compatible
    /\ method = "sodium" => class # "none" /\ peer[c1] = Good
MCSpec == MCInit /\ [][Next]_vars /\ Fairness
=============================================================================
