------------------------------ MODULE SegIndex ------------------------------
(***************************************************************************)
(* The segmented ledger of a CAVS store (cavs-store/src/segindex.rs, and   *)
(* the segmented branches of global.rs): immutable segments named by their *)
(* content, generations that list them, and the file CURRENT that says     *)
(* which generation is the ledger.  One process writes; it can die between *)
(* any two effects on the disk, and a write before the swap of CURRENT can *)
(* fail.  Other processes open the store to read it.                       *)
(*                                                                         *)
(* What is abstracted.  A chunk's record is its reference count; a chunk   *)
(* is a number, and the order of hashes is the order of the numbers.  The  *)
(* monolithic ledger is saved in one step (module LedgerJournal).  wal.log *)
(* is written and never read, so it is left out.                           *)
(***************************************************************************)
EXTENDS Integers, Sequences, FiniteSets, SequencesExt, FiniteSetsExt, Orders

CONSTANTS
    Chunks,       \* chunk hashes, 1..n
    Assets,       \* asset names
    Contents,     \* the sets of chunks an asset is published with
    SegTarget,    \* SEG_TARGET_RECORDS
    MaxDeltas,    \* MAX_DELTA_SEGMENTS
    Readers,      \* processes that open the store with open_read_only
    MaxGen,       \* bound: a save starts from an earlier generation
    MaxErrors     \* bound: writes that fail

ASSUME SegIndexAssumption ==
    /\ Chunks = 1..Cardinality(Chunks)
    /\ IsFiniteSet(Chunks) /\ IsFiniteSet(Assets)
    /\ Contents \subseteq (SUBSET Chunks) \ {{}}
    /\ SegTarget \in Nat \ {0}
    /\ {MaxDeltas, MaxGen, MaxErrors} \subseteq Nat

VARIABLES
    \* the disk
    mono,         \* index.bin and its journal: the ledger of a store that has no CURRENT
    cur,          \* the generation CURRENT names; 0: there is no CURRENT
    dirs,         \* generations/: what each directory holds
    pool,         \* segments/
    \* the writing process
    pc,           \* where it stands; "down": it does not run
    job,          \* what the running save does: "commit", "compact", "migrate"
    gen,          \* generation of its ledger
    segs,         \* its segments in lookup order; <<>> on the monolithic ledger
    seg,          \* it runs on the segmented index
    table,        \* index.chunks, on the monolithic ledger
    assets,       \* index.assets
    dirty,        \* the overlay of touched records, which the running save took
    result,       \* what the last save returned
    \* the reading processes
    rd,
    \* counted and remembered for bounds and properties
    errors,       \* writes that failed
    lost,         \* a failed save dropped its overlay
    swept         \* a reader removed a generation a writer was working with

disk   == <<mono, cur, dirs, pool>>
writer == <<pc, job, gen, segs, seg, table, assets, dirty, result>>
ghosts == <<errors, lost, swept>>
vars   == <<disk, writer, rd, ghosts>>

-----------------------------------------------------------------------------
(* Segments and tables *)

Tombstone == -1                       \* STATE_TOMBSTONE, or no record at all
NoTable   == [c \in Chunks |-> Tombstone]
NoAssets  == [a \in Assets |-> {}]
NoRecords == [c \in {} |-> Tombstone]

\* A directory of generations/: the files it has, and what is in them.
EmptyDir  == [has |-> {}, root |-> <<>>, assets |-> NoAssets]

Segment(kind, recs) == [kind |-> kind, recs |-> recs]

\* open: deltas newest first, then the bases, as pairs of places in the root.
Earlier(root) ==
    LET delta(i) == root[i].kind = "delta"
    IN  {p \in (DOMAIN root) \X (DOMAIN root) :
            \/ delta(p[1]) /\ (delta(p[2]) => p[1] > p[2])
            \/ ~delta(p[1]) /\ ~delta(p[2]) /\ p[1] < p[2]}

\* Mutant: the first segment of the root wins, not the newest.
LookupOrder_oldest_first(root) == root

LookupOrder(root) ==
    LET order == SortedBy(DOMAIN root, Earlier(root))
    IN  [k \in DOMAIN root |-> root[order[k]]]

\* SegIndex::lookup: the first segment that has a record decides.
lookup(ss, c) ==
    LET hits == {i \in DOMAIN ss : c \in DOMAIN ss[i].recs}
    IN  IF hits = {} THEN Tombstone ELSE ss[Min(hits)].recs[c]

\* iter_live: the merged view of the segments, tombstones dropped.
Live(ss) == [c \in Chunks |-> lookup(ss, c)]

Present(t) == {c \in Chunks : t[c] # Tombstone}

\* OverlayMerge, chunk_get: records of the overlay shadow the table.
Shadow(t, over) == [c \in Chunks |-> IF c \in DOMAIN over THEN over[c] ELSE t[c]]

\* compact, create: base segments of SEG_TARGET_RECORDS records each.
Bases(t) ==
    LET n    == Cardinality(Present(t))
        live == SortedBy(Present(t), {p \in Chunks \X Chunks : p[1] < p[2]})
        part(i) == {live[j] : j \in {k \in 1..n : (k - 1) \div SegTarget = i - 1}}
    IN  [i \in 1..((n + SegTarget - 1) \div SegTarget) |->
            Segment("base", [c \in part(i) |-> t[c]])]

-----------------------------------------------------------------------------
(* What opening a generation gives *)

Opens(g) ==
    /\ g \in DOMAIN dirs
    /\ dirs[g].has = {"root", "assets"}
    /\ ToSet(dirs[g].root) \subseteq pool

Ledger(t, as) == [table |-> t, assets |-> as]

Unreadable == Ledger(NoRecords, NoAssets)

LedgerOf(g) == Ledger(Live(LookupOrder(dirs[g].root)), dirs[g].assets)

\* The ledger a process that opens the store now starts from.
Durable ==
    IF cur = 0 THEN Ledger(mono.table, mono.assets)
    ELSE IF Opens(cur) THEN LedgerOf(cur) ELSE Unreadable

\* The ledger of the running process, and the one its save is writing.
Base   == IF seg THEN Live(segs) ELSE table
View   == Ledger(Base, assets)
Saving == Ledger(Shadow(Base, dirty), assets)

Init ==
    /\ mono = [gen |-> 1, table |-> NoTable, assets |-> NoAssets]
    /\ cur = 0
    /\ dirs = [g \in {} |-> EmptyDir]
    /\ pool = {}
    /\ pc = "idle" /\ job = "commit"
    /\ gen = 1 /\ segs = <<>> /\ seg = FALSE
    /\ table = NoTable /\ assets = NoAssets
    /\ dirty = NoRecords
    /\ result = "ok"
    /\ rd = [r \in Readers |-> [at |-> "out", cur |-> 0, table |-> NoTable, assets |-> NoAssets]]
    /\ errors = 0 /\ lost = FALSE /\ swept = FALSE

-----------------------------------------------------------------------------
(* The callers of save_index *)

\* The records `over` are written to the ledger, with its new asset table,
\* and save_index runs: at once on the monolithic ledger, in steps on the
\* segmented one.
save_index(over, as) ==
    /\ pc = "idle" /\ gen < MaxGen
    /\ assets' = as
    /\ job' = "commit"
    /\ IF seg
       THEN /\ dirty' = over
            /\ pc' = "begin"
            /\ UNCHANGED <<mono, gen, table, result>>
       ELSE /\ table' = Shadow(table, over)
            /\ gen' = gen + 1
            /\ mono' = [gen |-> gen + 1, table |-> Shadow(table, over), assets |-> as]
            /\ result' = "ok"
            /\ UNCHANGED <<dirty, pc>>
    /\ UNCHANGED <<cur, dirs, pool, segs, seg, rd, ghosts>>

Less(n) == IF n = 0 THEN 0 ELSE n - 1

\* put_chunk of what is new, then publish_asset: the references of the asset
\* that is replaced are dropped, those of the new one are taken.
publish_asset(a, cs) ==
    LET t0 == Base
        t1 == [c \in Chunks |-> IF c \in cs /\ t0[c] = Tombstone THEN 0 ELSE t0[c]]
        t2 == [c \in Chunks |-> IF c \in assets[a] /\ t1[c] # Tombstone THEN Less(t1[c]) ELSE t1[c]]
    IN  save_index([c \in cs \cup (assets[a] \cap Present(t1)) |->
                       IF c \in cs THEN t2[c] + 1 ELSE t2[c]],
                   [assets EXCEPT ![a] = cs])

unpublish_asset(a) ==
    /\ assets[a] # {}
    /\ save_index([c \in assets[a] \cap Present(Base) |-> Less(Base[c])],
                  [assets EXCEPT ![a] = {}])

\* The ledger side of gc: entries no asset references are removed.
gc ==
    \E cs \in SUBSET {c \in Chunks : Base[c] = 0} :
        /\ cs # {}
        /\ save_index([c \in cs |-> Tombstone], assets)

-----------------------------------------------------------------------------
(* commit_generation, compact and create, one effect on the disk at a time *)

next == gen + 1

\* A file of the directory is written: its root, or its asset table.
Put(g, file, root, as) ==
    [dirs EXCEPT ![g] = [has |-> @.has \cup {file}, root |-> root, assets |-> as]]

\* migrate_index_to_segmented
migrate ==
    /\ pc = "idle" /\ ~seg /\ gen < MaxGen
    /\ pc' = "begin" /\ job' = "migrate"
    /\ dirty' = NoRecords
    /\ UNCHANGED <<disk, gen, segs, seg, table, assets, result, rd, ghosts>>

\* create_dir_all, which keeps what an earlier attempt left in it.
begin ==
    /\ pc = "begin"
    /\ dirs' = [g \in DOMAIN dirs \cup {next} |-> IF g \in DOMAIN dirs THEN dirs[g] ELSE EmptyDir]
    /\ pc' = "segment"
    /\ UNCHANGED <<mono, cur, pool, job, gen, segs, seg, table, assets, dirty, result, rd, ghosts>>

\* What the new root lists: the root of the generation before and the delta
\* of this save, or the whole ledger as fresh bases.
Root ==
    CASE job = "migrate" -> Bases(table)
      [] job = "compact" -> Bases(Live(segs))
      [] job = "commit"  ->
           IF dirty = NoRecords THEN dirs[gen].root
           ELSE Append(dirs[gen].root, Segment("delta", dirty))

\* The root of the generation before can be read.
RootReadable == job = "commit" => gen \in DOMAIN dirs /\ "root" \in dirs[gen].has

write_segment ==
    /\ pc = "segment" /\ RootReadable
    /\ pool' = pool \cup ToSet(Root)
    /\ pc' = "assets"
    /\ UNCHANGED <<mono, cur, dirs, job, gen, segs, seg, table, assets, dirty, result, rd, ghosts>>

\* Mutant: an asset table that is already in the directory is kept, as a
\* segment of the same name is.
write_assets_once ==
    /\ pc = "assets" /\ next \in DOMAIN dirs
    /\ dirs' = IF "assets" \in dirs[next].has THEN dirs ELSE Put(next, "assets", dirs[next].root, assets)
    /\ pc' = "root"
    /\ UNCHANGED <<mono, cur, pool, job, gen, segs, seg, table, assets, dirty, result, rd, ghosts>>

write_assets ==
    /\ pc = "assets" /\ next \in DOMAIN dirs
    /\ dirs' = Put(next, "assets", dirs[next].root, assets)
    /\ pc' = "root"
    /\ UNCHANGED <<mono, cur, pool, job, gen, segs, seg, table, assets, dirty, result, rd, ghosts>>

\* Mutant: CURRENT is swapped while the root is still being written.
write_root_after_swap ==
    /\ pc = "root" /\ next \in DOMAIN dirs /\ RootReadable
    /\ IF cur = next
       THEN /\ dirs' = Put(next, "root", Root, dirs[next].assets) /\ pc' = "reload" /\ UNCHANGED cur
       ELSE /\ cur' = next /\ UNCHANGED <<dirs, pc>>
    /\ UNCHANGED <<mono, pool, job, gen, segs, seg, table, assets, dirty, result, rd, ghosts>>

write_root ==
    /\ pc = "root" /\ next \in DOMAIN dirs /\ RootReadable
    /\ dirs' = Put(next, "root", Root, dirs[next].assets)
    /\ pc' = "swap"
    /\ UNCHANGED <<mono, cur, pool, job, gen, segs, seg, table, assets, dirty, result, rd, ghosts>>

\* CURRENT.tmp is renamed to CURRENT: the new generation is the ledger.
swap_current ==
    /\ pc = "swap"
    /\ cur' = next
    /\ pc' = "reload"
    /\ UNCHANGED <<mono, dirs, pool, job, gen, segs, seg, table, assets, dirty, result, rd, ghosts>>

\* SegIndex::open removes the generations newer than the one it read.
SweepFrom(g) == [h \in {x \in DOMAIN dirs : x <= g} |-> dirs[h]]

\* open, by the process that has just swapped.  A commit compacts when the
\* deltas are many, or large beside the bases, which counts records no model
\* has: any delta may do.
reload ==
    /\ pc = "reload" /\ Opens(cur)
    /\ dirs' = SweepFrom(cur)
    /\ gen' = cur
    /\ segs' = LookupOrder(dirs[cur].root)
    /\ seg' = TRUE
    /\ dirty' = NoRecords
    /\ LET deltas == Cardinality({i \in DOMAIN dirs[cur].root : dirs[cur].root[i].kind = "delta"})
       IN  IF job = "migrate" THEN pc' = "cleanup" /\ UNCHANGED job
           ELSE \/ /\ job = "commit" /\ deltas > 0
                   /\ pc' = "begin" /\ job' = "compact"
                \/ /\ job = "compact" \/ deltas <= MaxDeltas
                   /\ pc' = "prune" /\ UNCHANGED job
    /\ table' = NoTable
    /\ UNCHANGED <<mono, cur, pool, assets, result, rd, ghosts>>

Newest(G, n) == {g \in G : Cardinality({h \in G : h > g}) < n}

\* prune_generations: all but the two newest go ...
prune_generations ==
    /\ pc = "prune"
    /\ dirs' = [g \in Newest(DOMAIN dirs, 2) |-> dirs[g]]
    /\ pc' = "pool"
    /\ UNCHANGED <<mono, cur, pool, job, gen, segs, seg, table, assets, dirty, result, rd, ghosts>>

\* Mutant: only the root of the current generation keeps segments.
prune_pool_current_only ==
    /\ pc = "pool"
    /\ pool' = pool \cap ToSet(dirs[cur].root)
    /\ pc' = "idle" /\ job' = "commit" /\ result' = "ok"
    /\ UNCHANGED <<mono, cur, dirs, gen, segs, seg, table, assets, dirty, rd, ghosts>>

\* ... and with them the segments no root that is left lists.
prune_pool ==
    /\ pc = "pool"
    /\ pool' = pool \cap UNION {ToSet(dirs[g].root) : g \in DOMAIN dirs}
    /\ pc' = "idle" /\ job' = "commit" /\ result' = "ok"
    /\ UNCHANGED <<mono, cur, dirs, gen, segs, seg, table, assets, dirty, rd, ghosts>>

\* The end of the migration: the monolithic files are removed.
remove_monolithic ==
    /\ pc = "cleanup"
    /\ mono' = [gen |-> 0, table |-> NoTable, assets |-> NoAssets]
    /\ pc' = "idle" /\ job' = "commit" /\ result' = "ok"
    /\ UNCHANGED <<cur, dirs, pool, gen, segs, seg, table, assets, dirty, rd, ghosts>>

-----------------------------------------------------------------------------
(* Failures *)

\* An effect before the swap returns an error: because the write fails, or
\* because the directory it goes to is gone.  save_index has taken the
\* overlay by then and does not put it back.
Gone == \/ pc \in {"assets", "root"} /\ next \notin DOMAIN dirs
        \/ pc \in {"segment", "root"} /\ ~RootReadable
        \/ pc = "reload" /\ ~Opens(cur)

save_fails ==
    /\ \/ Gone /\ UNCHANGED errors
       \/ /\ pc \in {"begin", "segment", "assets", "root", "swap"}
          /\ ~Gone /\ errors < MaxErrors
          /\ errors' = errors + 1
    /\ pc' = "idle" /\ job' = "commit" /\ result' = "err"
    /\ dirty' = NoRecords
    /\ lost' = (lost \/ job = "commit")
    /\ UNCHANGED <<disk, gen, segs, seg, table, assets, rd, swept>>

crash ==
    /\ pc # "down"
    /\ pc' = "down" /\ job' = "commit"
    /\ gen' = 0 /\ segs' = <<>> /\ seg' = FALSE
    /\ table' = NoTable /\ assets' = NoAssets
    /\ dirty' = NoRecords
    /\ result' = "ok"
    /\ UNCHANGED <<disk, rd, ghosts>>

\* open_inner
open ==
    /\ pc = "down"
    /\ pc' = "idle"
    /\ IF cur # 0
       THEN /\ Opens(cur)
            /\ dirs' = SweepFrom(cur)
            /\ gen' = cur /\ seg' = TRUE
            /\ segs' = LookupOrder(dirs[cur].root)
            /\ assets' = dirs[cur].assets
            /\ UNCHANGED table
       ELSE /\ gen' = mono.gen /\ table' = mono.table /\ assets' = mono.assets
            /\ UNCHANGED <<dirs, segs, seg>>
    /\ UNCHANGED <<mono, cur, pool, job, dirty, result, rd, ghosts>>

-----------------------------------------------------------------------------
(* open_read_only and refresh beside the writer, once the store is segmented *)

Reader(r, at, g, t, as) ==
    rd' = [rd EXCEPT ![r] = [at |-> at, cur |-> g, table |-> t, assets |-> as]]

read_current(r) ==
    /\ rd[r].at = "out" /\ cur # 0
    /\ Reader(r, "sweep", cur, NoTable, NoAssets)
    /\ UNCHANGED <<disk, writer, ghosts>>

\* The sweep is the one of every open.
read_sweep(r) ==
    /\ rd[r].at = "sweep"
    /\ dirs' = SweepFrom(rd[r].cur)
    /\ swept' = (swept \/ \E g \in DOMAIN dirs :
                   /\ g > rd[r].cur
                   /\ g = cur \/ (pc \notin {"idle", "down"} /\ g = next))
    /\ Reader(r, "root", rd[r].cur, NoTable, NoAssets)
    /\ UNCHANGED <<mono, cur, pool, writer, errors, lost>>

\* Root and segments: once mapped, a segment stays readable.
read_root(r) ==
    LET g == rd[r].cur IN
    /\ rd[r].at = "root"
    /\ IF g \in DOMAIN dirs /\ "root" \in dirs[g].has /\ ToSet(dirs[g].root) \subseteq pool
       THEN Reader(r, "assets", g, Live(LookupOrder(dirs[g].root)), NoAssets)
       ELSE Reader(r, "out", 0, NoTable, NoAssets)
    /\ UNCHANGED <<disk, writer, ghosts>>

\* Mutant: the asset table is the one CURRENT names by now.
read_assets_of_current(r) ==
    /\ rd[r].at = "assets"
    /\ IF cur \in DOMAIN dirs /\ "assets" \in dirs[cur].has
       THEN Reader(r, "done", rd[r].cur, rd[r].table, dirs[cur].assets)
       ELSE Reader(r, "out", 0, NoTable, NoAssets)
    /\ UNCHANGED <<disk, writer, ghosts>>

read_assets(r) ==
    LET g == rd[r].cur IN
    /\ rd[r].at = "assets"
    /\ IF g \in DOMAIN dirs /\ "assets" \in dirs[g].has
       THEN Reader(r, "done", g, rd[r].table, dirs[g].assets)
       ELSE Reader(r, "out", 0, NoTable, NoAssets)
    /\ UNCHANGED <<disk, writer, ghosts>>

\* refresh, or another open: reload.
refresh(r) ==
    /\ rd[r].at = "done"
    /\ Reader(r, "out", 0, NoTable, NoAssets)
    /\ UNCHANGED <<disk, writer, ghosts>>

-----------------------------------------------------------------------------
Next ==
    \/ \E a \in Assets, cs \in Contents : publish_asset(a, cs)
    \/ \E a \in Assets : unpublish_asset(a)
    \/ gc \/ migrate
    \/ begin \/ write_segment \/ write_assets \/ write_root \/ swap_current \/ reload
    \/ prune_generations \/ prune_pool \/ remove_monolithic
    \/ save_fails \/ crash \/ open
    \/ \E r \in Readers : \/ read_current(r) \/ read_sweep(r) \/ read_root(r)
                          \/ read_assets(r) \/ refresh(r)

Spec == Init /\ [][Next]_vars

-----------------------------------------------------------------------------
(* Properties *)

\* Whatever the writer was doing when it died, the store opens, and so does
\* every older generation whose root is still there: neither the sweep of an
\* open nor the pruning after a commit removes a segment one of them lists.
\* (As long as no reader swept a generation from under the writer.)
GenerationsOpen ==
    (~swept /\ cur # 0) =>
        /\ Opens(cur)
        /\ \A g \in DOMAIN dirs : dirs[g].has = {"root", "assets"} => Opens(g)

\* The documentation of open_read_only: a reader cannot take the ground out
\* from under a live writer.  Then a store with a CURRENT opens.
StoreAlwaysOpens == cur # 0 => Opens(cur)

\* The ledger on the disk changes only to become the whole of the one that is
\* being saved: staging, compaction, pruning, migration and the sweeps of
\* opens and readers do not change what a restart would find.
OnlySavesShow ==
    [][~swept' /\ Durable' # Durable => Durable' \in {Saving, View'}]_vars

\* A save that returned Ok, and an open, leave the ledger in memory and the
\* one a restart would find equal.
SavedIsDurable ==
    (pc = "idle" /\ result = "ok" /\ ~swept) => Durable = View

\* A chunk's count is the number of assets that reference it.
Exact(ledger) ==
    \A c \in Chunks :
        LET users == Cardinality({a \in Assets : c \in ledger.assets[a]})
        IN  IF users = 0 THEN ledger.table[c] \in {Tombstone, 0} ELSE ledger.table[c] = users

\* In the ledger a restart would find, a chunk's count is the number of assets
\* that reference it, and no asset references a chunk without a record: no
\* delta, tombstone or compaction lets an older record through.  (As long as
\* no save failed: save_index does not put back the overlay it took.)
CountsExact == (~swept /\ ~lost) => Exact(Durable)

\* A reader that got through holds the chunk table and the asset table of one
\* generation, though the writer may have committed, compacted and pruned
\* between the two reads.  (After a sweep from under the writer the number of
\* a generation is used twice, and another reader can mix the two.)
ReaderConsistent ==
    ~swept => \A r \in Readers :
        (rd[r].at = "done" /\ rd[r].cur \in DOMAIN dirs /\ Opens(rd[r].cur)) =>
            Ledger(rd[r].table, rd[r].assets) = LedgerOf(rd[r].cur)
=============================================================================
