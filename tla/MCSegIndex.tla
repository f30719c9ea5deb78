----------------------------- MODULE MCSegIndex -----------------------------
(* Instances of SegIndex for TLC. *)
EXTENDS SegIndex, TLC

CONSTANTS a1, a2, r1

MCChunks  == 1..2
MCContents == {{1}, {1, 2}}
OneAsset  == {a1}
TwoAssets == {a1, a2}
MCReaders == {r1}

\* What follows a sweep from under the writer is left to v_reader_sweeps.
NotSwept  == ~swept

Symmetry  == Permutations(TwoAssets)
=============================================================================
