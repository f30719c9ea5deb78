---------------------------- MODULE AtomicLedger ----------------------------
(***************************************************************************)
(* What the ledger of a CAVS store promises to the rest of the store: a    *)
(* table kept in memory, and a durable copy that only ever changes by      *)
(* becoming the whole of the table that is being saved.  A save that       *)
(* reports success has made the table durable; a save that reports an      *)
(* error, or that a crash cuts short, has made durable all of it or        *)
(* nothing of it.  A process that opens the store starts from the durable  *)
(* copy.                                                                   *)
(*                                                                         *)
(* LedgerJournal is the implementation by snapshot, journal and renames    *)
(* (cavs-store/src/global.rs); this module names no file.                  *)
(***************************************************************************)

CONSTANT Tables     \* the values a ledger table can take

VARIABLES
    mem,            \* the table of the open store
    durable,        \* the table a process opening the store now would get
    saving,         \* a save is under way
    result          \* what the last save returned

vars == <<mem, durable, saving, result>>

TypeOK ==
    /\ mem \in Tables
    /\ durable \in Tables
    /\ saving \in BOOLEAN
    /\ result \in {"ok", "err"}

Init ==
    /\ mem \in Tables
    /\ durable = mem
    /\ saving = FALSE
    /\ result = "ok"

-----------------------------------------------------------------------------
\* The store changes its table, and may start a save of the changed table.
Mutate ==
    /\ ~saving
    /\ mem' \in Tables
    /\ saving' \in BOOLEAN
    /\ UNCHANGED <<durable, result>>

\* The save passes its commit point and is still working.
Commit ==
    /\ saving
    /\ durable' = mem
    /\ UNCHANGED <<mem, saving, result>>

\* The save returns success: from here on the table is durable.
Finish ==
    /\ saving
    /\ durable' = mem
    /\ saving' = FALSE
    /\ result' = "ok"
    /\ UNCHANGED mem

\* The save returns an error and leaves the durable copy alone.
Abandon ==
    /\ saving
    /\ saving' = FALSE
    /\ result' = "err"
    /\ UNCHANGED <<mem, durable>>

\* The process ends, at any point; the next one starts from the durable copy.
Crash ==
    /\ mem' = durable
    /\ saving' = FALSE
    /\ UNCHANGED <<durable, result>>

Next == Mutate \/ Commit \/ Finish \/ Abandon \/ Crash

Spec == Init /\ [][Next]_vars
=============================================================================
