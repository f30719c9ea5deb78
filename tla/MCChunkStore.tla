---------------------------- MODULE MCChunkStore ----------------------------
(* Instances of ChunkStore for TLC. *)
EXTENDS ChunkStore, TLC

CONSTANTS c1, c2, a1, a2

MCChunks == {c1, c2}
MCAssets == {a1, a2}
OneAsset == {a1}
Packed   == {"Packfiles"}
Loose    == {"Loose"}
Either   == Packed \cup Loose
MCGraces == [l \in Either |-> IF l = "Loose" THEN {0, 1} ELSE {1}]
PackedGraces == [l \in Packed |-> {1}]
MCMaintenance == {"unpublish", "gc", "repack"}

(* Two assets share chunks in the loose layout; with packs there is one.     *)
AssetsBound == layout = "Packfiles" => led.assets[a2] = {}

Symmetry == Permutations(MCChunks)
=============================================================================
