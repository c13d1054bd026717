----------------------------- MODULE MCChunkAuth -----------------------------
(* ChunkAuth for TLC: up to three chunks, empty ones and ones longer than a  *)
(* piece among them.                                                         *)
EXTENDS ChunkAuth

SmallPlans == UNION {[1..n -> {0, 1, 4}] : n \in 0..3}
=============================================================================
