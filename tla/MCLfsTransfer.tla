--------------------------- MODULE MCLfsTransfer ---------------------------
(* An instance of LfsTransfer for TLC: a small object and a larger one that *)
(* shares its first chunk, so that the larger one is in one pack or in two. *)
EXTENDS LfsTransfer

CONSTANTS a, b, w1, w2

MCOids     == {a, b}
MCChunks   == 1..4
MCChunksOf == (a :> {2}) @@ (b :> 1..4)
MCWorkers  == {w1, w2}
=============================================================================
