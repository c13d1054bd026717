------------------------------ MODULE MCTcpRelay ------------------------------
(* TLC instances of TcpRelay. *)
EXTENDS TcpRelay

AllRequests == [kind : RequestKinds, auth : BOOLEAN]
ValidRequests == [kind : {"literal", "name"}, auth : {FALSE}]
LiteralRequests == [kind : {"literal"}, auth : BOOLEAN]
PlainNameRequests == [kind : {"name"}, auth : {FALSE}]
=============================================================================
