-------------------------- MODULE MCLedgerJournal --------------------------
(* Instances of LedgerJournal for TLC. *)
EXTENDS LedgerJournal, TLC

CONSTANTS a1, a2, v1, v2

MCKeys       == {a1, a2}
MCOneKey     == {a1}
MCVersions   == {v1, v2}
MCOneVersion == {v1}
CleanFaults  == {"midsave", "append", "upgrade", "batchsave"}
SnapshotFaults == {"midsave", "stage", "pack", "rot"}
StageErrors  == {"stage"}
KeySymmetry     == Permutations(MCKeys)
VersionSymmetry == Permutations(MCVersions)
=============================================================================
