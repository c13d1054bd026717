------------------------------ MODULE MCResolver ------------------------------
(* Resolver for TLC: two calls, replies of up to two records. *)
EXTENDS Resolver
=============================================================================
