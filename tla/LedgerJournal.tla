--------------------------- MODULE LedgerJournal ---------------------------
(***************************************************************************)
(* The monolithic ledger of a CAVS store (cavs-store/src/global.rs): a     *)
(* snapshot `index.bin`, the snapshot before it `index.bin.prev`, a        *)
(* journal of the saves since the snapshot `index.log`, the journal of the *)
(* snapshot before `index.log.prev`, the record packs under                *)
(* `assets/records/` and the flat records of stores older than 1.8.        *)
(*                                                                         *)
(* One process has the store open at a time.  It can end at any point      *)
(* (pc = "down"), and the next open recovers what the files hold.          *)
(*                                                                         *)
(* What is abstracted.  A ledger table maps an asset to the version of it  *)
(* that is published; the chunk entries of the table travel through the    *)
(* same records in the same way (absolute upserts and removals) and are    *)
(* the business of module ChunkStore.  The record of an asset is the       *)
(* version it describes.  A journal is a sequence of records, so a byte    *)
(* offset is a position; whether a record fits the journal's byte budget   *)
(* is left open while the journal has fewer than MaxLog records.  A        *)
(* journal that is absent and one that is empty read alike and rotate      *)
(* alike, and are one value.                                               *)
(*                                                                         *)
(* Storage: SyncMode::Full.  What a call wrote before it returned survives *)
(* a crash, and the renames of one save reach the disk in order.           *)
(***************************************************************************)
EXTENDS Naturals, Sequences, FiniteSets, FiniteSetsExt

CONSTANTS
    Keys,             \* asset names
    Versions,         \* versions of an asset
    None,             \* no version: the asset is not published
    MaxGen,           \* bound: saves are attempted up to this generation
    MaxLog,           \* bound: the journal budget, in records
    MaxFaults,        \* bound: how many events of Events other than crashes
    Events            \* which of the events below the store can meet

EventKinds ==
    { "append",       \* the append to index.log fails
      "stage",        \* writing or verifying index.bin.tmp fails
      "pack",         \* writing a record pack fails
      "rot",          \* index.bin no longer matches its seal at an open
      "midsave",      \* the process dies inside a save
      "upgrade",      \* the store was written before the journal existed
      "batchsave" }   \* unpublish or gc is called with a batch open

ASSUME LedgerAssumption ==
    /\ IsFiniteSet(Keys)
    /\ None \notin Versions
    /\ MaxGen \in Nat /\ MaxLog \in Nat /\ MaxFaults \in Nat
    /\ Events \subseteq EventKinds

VARIABLES
    \* the disk
    bin,              \* index.bin
    prev,             \* index.bin.prev
    tmp,              \* index.bin.tmp
    log,              \* index.log
    logprev,          \* index.log.prev
    packs,            \* assets/records/*.cavsrec, content-addressed
    flat,             \* assets/<name>.json
    \* the open store
    pc,               \* where its call of save_index stands
    idx,              \* Index: generation, assets, record locations
    dirty,            \* dirty_assets
    pend,             \* pending_records
    batch,            \* the open publish batch
    jb,               \* journal_bytes, counted in records
    snap,             \* snapshot_bytes > 0
    result,           \* what the last save returned
    \* history, read by properties only
    acked,            \* the table of the last save that returned success
    attempt,          \* the table of the save under way or cut short
    committed,        \* every table a save was asked to persist
    faults,           \* how many of them the store has met
    met               \* the events the store has met

disk == <<bin, prev, tmp, log, logprev, packs, flat>>
mem  == <<idx, dirty, pend, batch, jb, snap>>
hist == <<acked, attempt, committed>>
env  == <<faults, met>>
vars == <<disk, mem, pc, result, hist, env>>

-----------------------------------------------------------------------------
(* Values *)

Tables  == [Keys -> Versions \cup {None}]
NoTable == [k \in Keys |-> None]
NoFile  == [kind |-> "absent"]
Corrupt == [kind |-> "corrupt"]     \* a file whose seal does not hold
NoBatch == [open |-> FALSE]

\* A record pack: the records of some assets, named by its content.
RecordPacks == UNION {[ks -> Versions] : ks \in SUBSET Keys}
NoRecords   == [k \in {} |-> None]

\* RecordRef: where the ledger says an asset's record is.
NoLoc          == [kind |-> "none"]
PackLoc(p)     == [kind |-> "pack", pack |-> p]
LogLoc(f, i)   == [kind |-> "log", file |-> f, at |-> i]
\* What a journal record says of the record of an asset it upserts.
Same      == [tag |-> 0]
InPack(p) == [tag |-> 1, pack |-> p]
Inline(v) == [tag |-> 2, ver |-> v]

EmptyIndex == [gen |-> 0, tab |-> NoTable, loc |-> [k \in Keys |-> NoLoc]]
Published(tab) == {k \in Keys : tab[k] # None}

\* encode_index and encode_record_ref: a snapshot names packs only.
encode_index(ix) ==
    [kind |-> "v2", gen |-> ix.gen, tab |-> ix.tab,
     loc |-> [k \in Keys |-> IF ix.tab[k] # None /\ ix.loc[k].kind = "pack"
                             THEN ix.loc[k] ELSE NoLoc]]

\* decode_index: version 1 has no record locations; its seal is checked first.
SealHolds(file)    == file.kind \in {"v1", "v2"}
decode_index(file) == [gen |-> file.gen, tab |-> file.tab, loc |-> file.loc]

-----------------------------------------------------------------------------
(* Replaying a journal: replay_journal_from, next_journal_record and       *)
(* apply_journal_record.                                                   *)

\* The ledger's generation when a replay starting at g meets record i.
GenBefore(l, g, i) == Max({g} \cup {l[j].gen : j \in 1..(i - 1)})

\* Mutant: a replay that does not stop at a gap in the generations.
Passes_ignoring_gaps(l, g, i) == l[i].sealed

\* Record i is whole and does not stand behind a gap.
Passes(l, g, i) == l[i].sealed /\ l[i].gen <= GenBefore(l, g, i) + 1

\* The records a replay gets past.
Reached(l, g) == {i \in DOMAIN l : \A j \in 1..i : Passes(l, g, j)}

\* Of those, the ones that follow on; the others are older and are skipped.
Applied(l, g) == {i \in Reached(l, g) : l[i].gen = GenBefore(l, g, i) + 1}

\* The location an upsert or a removal leaves, when it says something new.
NewLoc(upd, f, i) ==
    CASE upd.ver = None    -> NoLoc
      [] upd.ver # None /\ upd.rec.tag = 1 -> PackLoc(upd.rec.pack)
      [] upd.ver # None /\ upd.rec.tag = 2 -> LogLoc(f, i)

replay_journal(ix, l, f) ==
    LET app == Applied(l, ix.gen)
        touch(k) == {i \in app : k \in DOMAIN l[i].upd}
        telling(k) == {i \in touch(k) : l[i].upd[k].ver = None \/ l[i].upd[k].rec.tag # 0}
        told(k) == IF telling(k) = {} THEN ix.loc[k]
                   ELSE LET i == Max(telling(k)) IN NewLoc(l[i].upd[k], f, i)
        relisted(k) == touch(k) # {} /\ (telling(k) = {} \/ Max(touch(k)) # Max(telling(k)))
    IN  [gen |-> Max({ix.gen} \cup {l[i].gen : i \in app}),
         tab |-> [k \in Keys |-> IF touch(k) = {} THEN ix.tab[k]
                                 ELSE l[Max(touch(k))].upd[k].ver],
         loc |-> [k \in Keys |-> IF relisted(k) /\ told(k).kind # "log"
                                 THEN NoLoc ELSE told(k)]]

-----------------------------------------------------------------------------
(* Opening: load_ledger and the monolithic half of open_inner.             *)

load_ledger ==
    CASE SealHolds(bin) /\ bin.kind = "v2"        -> "Live"
      [] SealHolds(bin) /\ bin.kind = "v1"        -> "Legacy"
      [] ~SealHolds(bin) /\ SealHolds(prev)       -> "Prev"
      [] ~SealHolds(bin) /\ prev = Corrupt        -> "Err"
      [] bin = Corrupt /\ prev = NoFile           -> "Err"
      [] bin = NoFile /\ prev = NoFile            -> "None"

Openable == load_ledger # "Err"

\* The ledger an open would start from, as the disk stands.
Recovered ==
    CASE load_ledger = "Live"   -> replay_journal(decode_index(bin), log, "live")
      [] load_ledger = "Legacy" -> [decode_index(bin) EXCEPT !.loc =
                                      [k \in Keys |-> IF @[k].kind = "pack" THEN @[k] ELSE NoLoc]]
      [] load_ledger = "Prev"   ->
            replay_journal(replay_journal(decode_index(prev), logprev, "prev"), log, "live")
      [] load_ledger \in {"None", "Err"} -> EmptyIndex

open_inner ==
    /\ pc = "down"
    /\ Openable
    /\ LET src  == load_ledger
           keep == IF src = "Live" THEN Cardinality(Reached(log, bin.gen)) ELSE 0
       IN  /\ idx' = Recovered
           /\ bin' = IF src = "None" THEN encode_index(EmptyIndex) ELSE bin
           /\ log' = CASE src = "Live" -> SubSeq(log, 1, keep)   \* cut the tail
                       [] src = "Prev" -> log
                       [] src \in {"Legacy", "None"} -> <<>>
           /\ logprev' = IF src \in {"Legacy", "None"} THEN <<>> ELSE logprev
           /\ jb' = keep
           /\ snap' = (src \in {"Live", "None"})
    /\ tmp' = NoFile
    /\ dirty' = {} /\ pend' = NoRecords /\ batch' = NoBatch
    /\ pc' = "idle"
    /\ acked' = idx'.tab /\ attempt' = idx'.tab
    /\ UNCHANGED <<prev, packs, flat, result, committed, env>>

-----------------------------------------------------------------------------
(* Reading a record: asset_record_bytes and read_record_at.  None stands   *)
(* for an error.                                                           *)

read_record_at(k, at) ==
    CASE at.kind = "none" -> flat[k]
      [] at.kind = "pack" -> IF at.pack \in packs THEN at.pack[k] ELSE None
      [] at.kind = "log"  ->
           LET l == IF at.file = "live" THEN log ELSE logprev
           IN  IF /\ at.at \in DOMAIN l
                  /\ k \in DOMAIN l[at.at].upd
                  /\ l[at.at].upd[k].rec.tag = 2
               THEN l[at.at].upd[k].rec.ver ELSE None

asset_record_bytes(k) ==
    IF k \in DOMAIN pend THEN pend[k] ELSE read_record_at(k, idx.loc[k])

-----------------------------------------------------------------------------
(* The operations that change the table.                                   *)

\* The store meets one of the events that are counted.
Inject(kind) ==
    /\ kind \in Events
    /\ faults < MaxFaults
    /\ faults' = faults + 1
    /\ met' = met \cup {kind}

\* save_index is entered with the table tab.
StartSave(tab) ==
    /\ pc' = "save"
    /\ attempt' = tab
    /\ committed' = committed \cup {tab}
    /\ UNCHANGED acked

\* write_asset_records: the flat copies go, the new records are staged.
write_asset_records(recs, tab) ==
    LET remain == Cardinality(Published(tab))
                    > Cardinality({k \in Keys : idx.loc[k] # NoLoc})
    IN  /\ flat' = [k \in Keys |-> IF remain /\ k \in DOMAIN recs THEN None ELSE flat[k]]
        /\ pend' = [k \in DOMAIN pend \cup DOMAIN recs |->
                        IF k \in DOMAIN recs THEN recs[k] ELSE pend[k]]
        /\ idx' = [idx EXCEPT !.tab = tab,
                              !.loc = [k \in Keys |-> IF k \in DOMAIN recs THEN NoLoc ELSE @[k]]]

begin_publish_batch ==
    /\ pc = "idle" /\ ~batch.open
    /\ batch' = [open |-> TRUE, queued |-> NoRecords, base |-> Recovered.tab]
    /\ UNCHANGED <<disk, idx, dirty, pend, jb, snap, pc, result, hist, env>>

\* Mutant: a publish inside a batch saves the ledger at once.
publish_asset_saving(k, v) ==
    LET tab == [idx.tab EXCEPT ![k] = v]
    IN  /\ pc = "idle"
        /\ idx.gen < MaxGen
        /\ dirty' = dirty \cup {k}
        /\ write_asset_records([j \in {k} |-> v], tab)
        /\ StartSave(tab)
        /\ UNCHANGED <<bin, prev, tmp, log, logprev, packs, batch, jb, snap, result, env>>

publish_asset(k, v) ==
    LET tab == [idx.tab EXCEPT ![k] = v]
    IN  /\ pc = "idle"
        /\ idx.gen < MaxGen
        /\ dirty' = dirty \cup {k}
        /\ \/ /\ batch.open
              /\ idx' = [idx EXCEPT !.tab = tab]
              /\ batch' = [batch EXCEPT !.queued =
                             [j \in DOMAIN @ \cup {k} |-> IF j = k THEN v ELSE @[j]]]
              /\ UNCHANGED <<pend, flat, pc, hist>>
           \/ /\ ~batch.open
              /\ write_asset_records([j \in {k} |-> v], tab)
              /\ StartSave(tab)
              /\ UNCHANGED batch
        /\ UNCHANGED <<bin, prev, tmp, log, logprev, packs, jb, snap, result, env>>

\* hadOpenPack: the batch put chunks, so an ingest pack was open.
commit_publish_batch(hadOpenPack) ==
    /\ pc = "idle" /\ batch.open
    /\ batch' = NoBatch
    /\ IF batch.queued # NoRecords
       THEN write_asset_records(batch.queued, idx.tab)
       ELSE UNCHANGED <<flat, pend, idx>>
    /\ IF batch.queued # NoRecords \/ hadOpenPack
       THEN idx.gen < MaxGen /\ StartSave(idx.tab)
       ELSE UNCHANGED <<pc, hist>>
    /\ UNCHANGED <<bin, prev, tmp, log, logprev, packs, dirty, jb, snap, result, env>>

\* Saving with a batch open is left to the caller; the code allows it.
SavesInBatch == IF batch.open THEN Inject("batchsave") ELSE UNCHANGED env

unpublish_asset(k) ==
    LET tab == [idx.tab EXCEPT ![k] = None]
    IN  /\ pc = "idle"
        /\ SavesInBatch
        /\ idx.gen < MaxGen
        /\ idx.tab[k] # None
        /\ idx' = [idx EXCEPT !.tab = tab, !.loc[k] = NoLoc]
        /\ dirty' = dirty \cup {k}
        /\ flat' = [flat EXCEPT ![k] = None]
        /\ StartSave(tab)
        /\ UNCHANGED <<bin, prev, tmp, log, logprev, packs, pend, batch, jb, snap,
                       result>>

\* gc, as far as the ledger sees it: sweep_dead_record_packs, then a save.
gc_records ==
    /\ pc = "idle"
    /\ SavesInBatch
    /\ idx.gen < MaxGen
    /\ packs' = {p \in packs : \E k \in Keys : idx.loc[k] = PackLoc(p)}
    /\ StartSave(idx.tab)
    /\ UNCHANGED <<bin, prev, tmp, log, logprev, flat, mem, result>>

-----------------------------------------------------------------------------
(* save_index.  Its fault-free path first.                                 *)

\* What the caller of a save sees when it returns Ok or Err.
ReturnOk  == pc' = "idle" /\ result' = "ok" /\ acked' = idx.tab /\ UNCHANGED <<attempt, committed>>
ReturnErr == pc' = "idle" /\ result' = "err" /\ attempt' = acked /\ UNCHANGED <<acked, committed>>

\* Mutant: an asset re-listed with its record in a pack does not name the pack.
JournalRecord_without_packs ==
    LET ref(k) == IF idx.tab[k] # None /\ k \in DOMAIN pend THEN Inline(pend[k]) ELSE Same
    IN  [gen |-> idx.gen + 1, sealed |-> TRUE,
         upd |-> [k \in dirty |-> [ver |-> idx.tab[k], rec |-> ref(k)]]]

\* encode_journal_record: the dirty entries as they now stand.
JournalRecord ==
    LET ref(k) == CASE idx.tab[k] = None \/ (k \notin DOMAIN pend /\ idx.loc[k].kind # "pack")
                            -> Same
                    [] idx.tab[k] # None /\ k \in DOMAIN pend -> Inline(pend[k])
                    [] idx.tab[k] # None /\ k \notin DOMAIN pend /\ idx.loc[k].kind = "pack"
                            -> InPack(idx.loc[k].pack)
    IN  [gen |-> idx.gen + 1, sealed |-> TRUE,
         upd |-> [k \in dirty |-> [ver |-> idx.tab[k], rec |-> ref(k)]]]

\* More than INLINE_RECORDS_MAX bytes of records go to a pack of their own.
save_large_records ==
    /\ pc = "save" /\ snap /\ pend # NoRecords
    /\ packs' = packs \cup {pend}
    /\ idx' = [idx EXCEPT !.loc = [k \in Keys |-> IF k \in DOMAIN pend THEN PackLoc(pend) ELSE @[k]]]
    /\ pend' = NoRecords
    /\ UNCHANGED <<bin, prev, tmp, log, logprev, flat, dirty, batch, jb, snap,
                   pc, result, hist, env>>

\* The record fits: append_journal, and the save is done.
save_append ==
    /\ pc = "save" /\ snap /\ jb < MaxLog
    /\ log' = Append(log, JournalRecord)
    /\ idx' = [idx EXCEPT
                 !.gen = @ + 1,
                 !.loc = [k \in Keys |-> IF k \in dirty /\ idx.tab[k] # None /\ k \in DOMAIN pend
                                         THEN LogLoc("live", jb + 1) ELSE @[k]]]
    /\ dirty' = {} /\ pend' = NoRecords
    /\ jb' = jb + 1
    /\ ReturnOk
    /\ UNCHANGED <<bin, prev, tmp, logprev, packs, flat, batch, snap, env>>

\* Mutant: only the pending records get a place in the pack.
Staged_pending_only == pend

\* The records move_records_into_a_pack stages: the readable ones of the
\* journals, and the pending ones.
Staged ==
    LET reads == {k \in Keys : idx.loc[k].kind = "log" /\ read_record_at(k, idx.loc[k]) # None}
    IN  [k \in reads \cup DOMAIN pend |->
           IF k \in DOMAIN pend THEN pend[k] ELSE read_record_at(k, idx.loc[k])]

\* It does not fit, or there is no snapshot to extend: write_snapshot begins
\* with move_records_into_a_pack.  A record that no longer reads is dropped.
save_move_records ==
    /\ pc = "save"
    /\ packs' = IF Staged = NoRecords THEN packs ELSE packs \cup {Staged}
    /\ idx' = [idx EXCEPT
                 !.gen = @ + 1,
                 !.loc = [k \in Keys |-> IF k \in DOMAIN Staged THEN PackLoc(Staged)
                                         ELSE IF @[k].kind = "log" THEN NoLoc ELSE @[k]]]
    /\ dirty' = {} /\ pend' = NoRecords
    /\ pc' = "stage"
    /\ UNCHANGED <<bin, prev, tmp, log, logprev, flat, batch, jb, snap, result, hist, env>>

\* Mutant: the staged snapshot is not read back, so a damaged one goes on.
save_stage_unverified ==
    /\ pc = "stage"
    /\ \/ tmp' = encode_index(idx) /\ UNCHANGED env
       \/ Inject("stage") /\ tmp' = Corrupt
    /\ pc' = "retire"
    /\ UNCHANGED <<bin, prev, log, logprev, packs, flat, mem, result, hist>>

\* Stage the snapshot beside the live one and read it back.
save_stage ==
    /\ pc = "stage"
    /\ tmp' = encode_index(idx)
    /\ pc' = "retire"
    /\ UNCHANGED <<bin, prev, log, logprev, packs, flat, mem, result, hist, env>>

\* Mutant: the outgoing snapshot is removed instead of kept.
save_retire_removing ==
    /\ pc = "retire"
    /\ bin' = NoFile
    /\ pc' = "install"
    /\ UNCHANGED <<prev, tmp, log, logprev, packs, flat, mem, result, hist, env>>

\* rename(index.bin, index.bin.prev)
save_retire ==
    /\ pc = "retire"
    /\ prev' = IF bin = NoFile THEN prev ELSE bin
    /\ bin' = NoFile
    /\ pc' = "install"
    /\ UNCHANGED <<tmp, log, logprev, packs, flat, mem, result, hist, env>>

\* rename(index.bin.tmp, index.bin)
save_install ==
    /\ pc = "install"
    /\ bin' = tmp
    /\ tmp' = NoFile
    /\ pc' = "rotate"
    /\ UNCHANGED <<prev, log, logprev, packs, flat, mem, result, hist, env>>

\* rename(index.log, index.log.prev), or drop the older one; then return.
save_rotate ==
    /\ pc = "rotate"
    /\ logprev' = log
    /\ log' = <<>>
    /\ snap' = TRUE
    /\ jb' = 0
    /\ ReturnOk
    /\ UNCHANGED <<bin, prev, tmp, packs, flat, idx, dirty, pend, batch, env>>

-----------------------------------------------------------------------------
(* What can go wrong.                                                      *)

\* Mutant: a failed append leaves part of its record behind.
append_fails_uncut ==
    /\ pc = "save" /\ snap /\ jb < MaxLog
    /\ Inject("append")
    /\ log' = Append(log, [JournalRecord EXCEPT !.sealed = FALSE])
    /\ ReturnErr
    /\ UNCHANGED <<bin, prev, tmp, logprev, packs, flat, mem>>

\* append_journal fails and cuts the journal back to the record boundary;
\* save_index restores the dirty sets.
append_fails ==
    /\ pc = "save" /\ snap /\ jb < MaxLog
    /\ Inject("append")
    /\ log' = SubSeq(log, 1, jb)
    /\ ReturnErr
    /\ UNCHANGED <<bin, prev, tmp, logprev, packs, flat, mem>>

\* write_record_pack fails, in save_index or in move_records_into_a_pack: the
\* dirty sets and the staged records were already taken.
pack_fails ==
    /\ pc = "save"
    /\ Inject("pack")
    /\ \/ snap /\ pend # NoRecords /\ UNCHANGED idx
       \/ /\ Staged # NoRecords
          /\ idx' = [idx EXCEPT
                       !.gen = @ + 1,
                       !.loc = [k \in Keys |-> IF @[k].kind = "log" /\ k \notin DOMAIN Staged
                                               THEN NoLoc ELSE @[k]]]
    /\ dirty' = {} /\ pend' = NoRecords
    /\ ReturnErr
    /\ UNCHANGED <<disk, batch, jb, snap>>

\* Staging fails: the generation is taken and the dirty sets are gone.
stage_fails ==
    /\ pc = "stage"
    /\ Inject("stage")
    /\ ReturnErr
    /\ UNCHANGED <<disk, mem>>

\* index.bin is found damaged at the next open.  The fallback is
\* index.bin.prev, so only where there is one.
bin_rots ==
    /\ pc = "down" /\ SealHolds(bin) /\ SealHolds(prev)
    /\ Inject("rot")
    /\ bin' = Corrupt
    /\ UNCHANGED <<prev, tmp, log, logprev, packs, flat, mem, pc, result, hist>>

Ends == /\ pc' = "down"
        /\ idx' = EmptyIndex /\ dirty' = {} /\ pend' = NoRecords
        /\ batch' = NoBatch /\ jb' = 0 /\ snap' = FALSE
        /\ UNCHANGED <<bin, prev, tmp, logprev, packs, flat, result, hist, faults>>

\* The process exits, or dies, with no save under way.
exits == pc = "idle" /\ Ends /\ UNCHANGED <<log, met>>

\* The process dies between two steps of a save.
dies_in_save ==
    /\ "midsave" \in Events /\ met' = met \cup {"midsave"}
    /\ pc \notin {"idle", "down"}
    /\ Ends
    /\ UNCHANGED log

\* The process dies in append_journal: part of a record is on the disk.
dies_appending ==
    /\ "midsave" \in Events /\ met' = met \cup {"midsave"}
    /\ pc = "save" /\ snap /\ jb < MaxLog
    /\ log' = Append(log, [JournalRecord EXCEPT !.sealed = FALSE])
    /\ Ends

-----------------------------------------------------------------------------
Init ==
    /\ \/ bin = NoFile /\ flat = NoTable /\ met = {}
       \/ /\ "upgrade" \in Events /\ met = {"upgrade"}
          /\ flat \in Tables
          /\ bin = [kind |-> "v1", gen |-> 0, tab |-> flat, loc |-> [k \in Keys |-> NoLoc]]
    /\ prev = NoFile /\ tmp = NoFile /\ log = <<>> /\ logprev = <<>> /\ packs = {}
    /\ pc = "down" /\ idx = EmptyIndex /\ dirty = {} /\ pend = NoRecords
    /\ batch = NoBatch /\ jb = 0 /\ snap = FALSE /\ result = "ok"
    /\ acked = flat /\ attempt = flat /\ committed = {flat}
    /\ faults = 0

Save == \/ save_large_records \/ save_append \/ save_move_records
        \/ save_stage \/ save_retire \/ save_install \/ save_rotate

Fault == append_fails \/ pack_fails \/ stage_fails \/ bin_rots
           \/ dies_in_save \/ dies_appending

Next ==
    \/ open_inner
    \/ begin_publish_batch
    \/ \E k \in Keys, v \in Versions : publish_asset(k, v)
    \/ \E b \in BOOLEAN : commit_publish_batch(b)
    \/ \E k \in Keys : unpublish_asset(k)
    \/ gc_records
    \/ Save
    \/ Fault
    \/ exits

Spec == Init /\ [][Next]_vars

-----------------------------------------------------------------------------
(* Properties *)

\* The store has met none of these events.
Never(events) == met \cap events = {}

\* "At no point does a readable index.bin/index.bin.prev pair not exist"
\* (save_index): whatever the process was doing and whichever writes failed,
\* the next open succeeds.  A store whose index.bin rotted is only promised
\* that until a crash strikes the save that replaces it.
NeverBroken == Never({"rot"}) \/ (pc = "down" /\ Never({"midsave"})) => Openable

\* Whatever point a crash strikes, the next open finds the table of the last
\* save that returned success, or the whole table of the save it cut short:
\* save_index and write_snapshot against open_inner and replay_journal.
SaveIsDurable == Recovered.tab \in {acked, attempt}

\* It holds while no snapshot failed to be written and none rotted.
Durable == Never({"stage", "pack", "rot"}) => SaveIsDurable

\* A reopened store has a table that some save was asked to persist, never a
\* mixture of saves - also when snapshots fail to be written, and when
\* index.bin is lost, if then no crash strikes inside a save: the generations of
\* replay_journal_from against the rotation of write_snapshot.
KnownTable ==
    (/\ Never({"pack"})
     /\ Never({"rot"}) \/ pc = "down"
     /\ Never({"rot", "stage"}) \/ Never({"midsave"})) => Recovered.tab \in committed

\* Between operations, a ledger with nothing unsaved is exactly the ledger a
\* reopen would build: generation, table, and the location of every record.
\* encode_journal_record and encode_index against apply_journal_record.
ReopenAgrees ==
    (/\ pc = "idle" /\ ~batch.open /\ dirty = {} /\ pend = NoRecords
     /\ Never({"stage", "pack", "rot", "batchsave"})) =>
        LET r == Recovered
        IN  /\ r.gen = idx.gen
            /\ r.tab = idx.tab
            /\ \A k \in Published(idx.tab) : r.loc[k] = idx.loc[k]

\* At every point of a save or of a crash, every asset a reopened store lists
\* has its record, at the version listed: asset_record_bytes after
\* move_records_into_a_pack, the journal rotation and sweep_dead_record_packs,
\* in a store born with the journal whose saves never failed.
RecoveredRecordsRead ==
    Never({"append", "stage", "pack", "rot", "upgrade", "batchsave"}) =>
        LET r == Recovered
        IN  \A k \in Published(r.tab) : read_record_at(k, r.loc[k]) = r.tab[k]

\* Between operations the open store reads the record of every published
\* asset at its published version (get_asset), whether it is pending, in a
\* journal, in a pack or flat.  One append may have failed: after a failed
\* publish, a gc removes the record pack that only the saved ledger names, and
\* if its own save fails too, the next open finds no record.
RecordsRead ==
    (/\ pc = "idle" /\ ~batch.open
     /\ met \subseteq {"append", "midsave", "upgrade"} /\ Cardinality(met) <= 1 /\ faults <= 1) =>
        \A k \in Published(idx.tab) : asset_record_bytes(k) = idx.tab[k]

\* "If the process dies before the commit, the on-disk store is exactly as it
\* was before the batch" (begin_publish_batch), unless the caller unpublishes
\* or collects in the middle of it.
BatchIsInvisible == batch.open /\ Never({"batchsave"}) => Recovered.tab = batch.base

\* The files implement a ledger that is saved atomically.
Ledger == INSTANCE AtomicLedger WITH
    Tables  <- Tables,
    mem     <- IF pc = "down" THEN Recovered.tab ELSE idx.tab,
    durable <- Recovered.tab,
    saving  <- pc \notin {"idle", "down"},
    result  <- result

\* Every step of save, crash and recovery is a step of the atomic ledger:
\* the durable table changes once per save, and to the whole of the table.
ImplementsAtomicLedger == Ledger!Spec
=============================================================================
