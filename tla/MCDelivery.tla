----------------------------- MODULE MCDelivery -----------------------------
(* Instances of Delivery for TLC: two versions of one file that share a   *)
(* chunk, and one of two files.                                            *)
EXTENDS Delivery

CONSTANTS a, b, c, w1, w2

MCVersions == 1..3
MCSegments == <<<<{a, b}>>, <<{b, c}>>, <<{a}, {a, b}>>>>
AllKinds   == {"raw", "directory", "media"}
MCWorkers  == {w1, w2}
=============================================================================
