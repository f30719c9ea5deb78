# CAVS: TLA+ specifications

CAVS stores builds of large artifacts as content-addressed chunks, publishes
assets made of them, and lets clients, Git LFS and offline tools turn one
version into another by moving as few bytes as possible. The Rust crates under
`src/core/` are the system; this directory holds TLA+ models of the parts whose
correctness depends on the order of effects: what is on the disk when a process
dies, what a second run finds, what is deleted while something still refers to
it, what a lost reply or a late reader does. TLC checks the models on small
instances; TLAPS proves the safety results, all but one, for every instance.

## 1. The system

### Components

| Component | State it keeps | Operations | Talks to |
|---|---|---|---|
| Ledger persistence, `cavs-store/src/global.rs` | `index.bin`, `index.bin.prev`, `index.bin.tmp`, `index.log`, `index.log.prev`, record packs, flat records; in memory the index, dirty sets, pending records, a publish batch | open and recover, `save_index` (append or snapshot), publish, batch, unpublish, the record side of gc | every store operation ends in `save_index` |
| Chunk store, `global.rs`, `packfile.rs` | packs, loose chunks, quarantine with age stamps; chunk entries with reference count, `zero_since` and location; the open pack | `put_chunk`, `flush_packs`, publish, unpublish, `gc`, `repack_run`, restore on open | saves through the ledger |
| Segmented index, `segindex.rs` | generations, delta segments, `CURRENT` | commit a generation, compact, prune, swap | replaces the monolithic ledger |
| Offline plans, `cavs-plan` | `.cavs-staging`, `.cavs-journal.json`, the install | build a plan, `apply_dir`, `apply_artifact` | reads the old install, writes the new one, possibly in place |
| Client, `cavs-client` | resume journal, `.part` file, chunk cache | fetch, resume, retry, parallel download, self-healing cache, gc | the server's sessions, static trees |
| Embeddable fetch, `cavs-fetch` | concurrency limit, gate, byte budget, work queue | adaptive fetch, reconstruct | static trees over HTTP |
| Server, `cavs-server` | sessions with the set of chunks the client is known to have | open session, plan a batch, plan chunks | the store, read-only, and clients |
| Object graph, `cavs-object` | objects, roots, leases, promises | put, walk, collect, promise, negotiate | its own store |
| LFS agent, `cavs-lfs-agent` | `.store.lock`, an open batch | push sessions, finalize, export, download | the store and the static tree |
| Workspaces, `cavs-workspace` | one JSON document of depots, branches and builds | promote, roll back | the store |
| Codecs, chunking, hashing, analyzer, CLI, SDKs, desktop | none that outlives a call | - | everything above |

`PROJECT.json` lists every component, the ones not modelled with the reason.

### What is hard, and what makes each part correct

*Ledger.* A save is an append, or four renames and a journal rotation; it can
be cut at each, an append can fail half way, a snapshot can fail after its
generation number is taken, `index.bin` can be damaged. Correct means: the next
open succeeds, finds the last acknowledged table or the whole of the one being
saved, and reads the record of each asset it lists.

*Chunk store.* Bytes are deleted by one ledger while another one, the saved
one, is what a crash falls back to. Packs are named by content, so a "new" pack
may be an old one. Correct means: reference counts are exact, an entry of the
saved ledger always has its bytes, published chunks read at every moment, and
garbage goes in the end.

*Applying plans.* In place, a commit overwrites the files the rest is rebuilt
from. Correct means: an interrupted apply can always be finished by running it
again, the result is the new build, and files the plan does not know survive.

*Segmented index.* A save writes a new generation beside the live one and swaps
`CURRENT`; a compaction follows as a second generation, and pruning deletes what
older ones list. Readers open at any moment. Correct means: the store opens at
every moment, with the ledger before the save or the one after it, and a reader
sees one of them.

*Delivery.* The server remembers what it has sent and not what has arrived; the
client's cache, journal and `.part` file outlive fetches, and the asset may be
republished between any two requests. Correct means: what is installed is what
the manifest read says, faults the protocol claims to hide are hidden, and
fetching again gets there.

*Object graph.* Objects are written before the root that makes them reachable,
while a collector deletes what no root reaches; a sender prunes by what a
receiver claims. Correct means: what is published stays whole, and an import that
reports itself complete is.

*LFS transfer and the worker pool.* A push becomes visible file by file; a pull
resolves metadata through three caches and fetches with workers that wait for a
moving limit and for bytes of a budget. Correct means: a manifest in the tree is
servable, an acknowledged push is found, and every pool ends, with an error or
with all chunks.

## 2. The modules

| Module | Models | Composition |
|---|---|---|
| `AtomicLedger` | what a ledger promises: a table, saved whole or not at all | abstract specification |
| `LedgerJournal` | the files behind `save_index` and `open_inner` | implements `AtomicLedger` |
| `ChunkStore` | chunks, packs, references, gc, quarantine, repack | uses the ledger as `AtomicLedger` promises it: a save is one step |
| `StagedApply` | `apply_dir` and its re-runs | stands alone |
| `SegIndex` | the segmented index, its writer and its readers | saves of the monolithic ledger it migrates from are one step |
| `Delivery` | `cavs-client` fetching from `cavs-server` | client, server and disk in one module |
| `ObjectGraph` | the object store, its writer, collector and transfers | stands alone; callers of the library are external |
| `AdaptiveFetch` | the worker pool of `cavs-fetch` | no source of its own: extended by `LfsTransfer` |
| `LfsTransfer` | the LFS agent's pushes and pulls, the exported tree, the metadata resolver | extends `AdaptiveFetch`, whose pool is its fetch |
| `Orders` | sorting and picking places out of a sequence, by counting what comes before | extended by `ChunkStore`, `SegIndex`, `LfsTransfer` and `ObjectGraph` |
| `MC...` | instances for TLC | extend the module they are named after |
| `..._proofs` | theorems and their proofs | extend the module they are named after; most also `Orders_proofs` |

### LedgerJournal

Variables named after files are the files; `idx`, `dirty`, `pend`, `batch`,
`jb`, `snap` are `index`, `dirty_assets`, `pending_records`, the open batch,
`journal_bytes` (in records) and `snapshot_bytes > 0`. `pc` is where the call of
`save_index` stands: `save` (deciding), `stage`, `retire`, `install`, `rotate`
are the effects of `write_snapshot` in order, and a crash (`dies_in_save`,
`dies_appending`) may follow each. `open_inner` is the whole recovery, with
`load_ledger` and the replay as operators; `replay_journal` describes the result
of the loop in one step: the records reached, those that follow on, and the last
one to speak of each asset. Batches, unpublish and gc's sweep of record packs
are actions that end in a save.

A table maps an asset to a version. Chunk entries travel through the same
records and are left to `ChunkStore`. Whether a record fits the byte budget is
left open while the journal has fewer than `MaxLog` records.

`Events` selects what a store can meet: a failing append, snapshot or record
pack, a damaged `index.bin`, a crash inside a save, an upgrade from a store
without a journal, a save while a batch is open. `met` remembers which it has
met, and each property names the ones it is promised under (section 5).

### ChunkStore

`layout` is fixed when the store is created, loose files or packfiles.
`dur` is the saved ledger, `led` the one in memory. A pack is the sequence of
its chunks, which is also its name. A stamp is young until `Tick`, old after;
gc is called with grace 0 (takes everything) or 1 (only what is old). `gc` is
four steps in the order of the code - forget chunks, quarantine their packs,
quarantine orphans, sweep the quarantine - followed by the save; `repack` is
copy, save, quarantine the old packs one by one. A crash may strike between
any two, and inside `quarantine_pack` between the move and the stamp.

### StagedApply

`pc` follows `apply_dir`: stage, directories, files, links, deletions, cleanup,
clearing the journal. Every entry is a step, the removal and the creation of a
link are two, and a process may die at each, also half way through a staged
file. Any plan of `Plans` may be applied to whatever tree is there, so old
installs that do not match occur as well. Links are followed where the calls
the code uses follow them (`metadata`, `is_dir`, path resolution) and not where
they do not (`symlink_metadata`, `rename`).

### SegIndex

`cur`, `dirs` and `pool` are `CURRENT`, `generations/` and `segments/`; a segment
is its kind and its records, which is also its name, and a record is a reference
count or a tombstone. `publish_asset`, `unpublish_asset` and `gc` change the
overlay and enter `save_index`; then `begin`, `write_segment`, `write_assets`,
`write_root`, `swap_current`, `reload`, `prune_generations` and `prune_pool` are
the effects in order, of a commit, of the compaction that `reload` may decide on
(`job`), or of a migration, which ends in `remove_monolithic`. `save_fails` is an
error before the swap, `crash` a death anywhere. A reader's open is four steps:
`read_current`, `read_sweep` (what `SegIndex::open` deletes), `read_root`,
`read_assets`; `refresh` starts it over. `lost` and `swept` remember that a failed
save dropped its overlay and that a reader removed a generation of the writer.

### Delivery

`pc` follows `fetch`: manifest and no-op checks (`fetch`), `open_session`, the
bootstrap (`fetch_bootstrap`, `download_half` twice, `install_bootstrap`,
`seed_cache`), the chunk route (`mark_journal`, then `post_batch`,
`receive_batch` and `repair_ref` for each segment, or `spawn`, the workers' `take`,
`fetch_one`, `put_one`, and `join`), reconstruction file by file
(`chunk_via_fallback`, `missing_after_fetch`, `write_file`, `skip_file`), the
renames of a directory (`commit_file`) and `finish`. The server is `pub`, the
version it loaded, and `sess`, what it believes the client has; `plan_chunks`
updates it when the reply is planned, whether or not it arrives. `extra` in
`open_session` is what a Bloom filter adds to the have-set. The faults are
actions of their own: `request_fails`, `download_cut`, `lose_reply`, `cut_reply`,
`restart`, `crash`, `rot`, `evict`, `cache_verify`. The last two are `cache gc` and
`cache verify` run beside the fetch; both list the cache, which removes every
temporary file (`entries`), and so fail a put that is under way: a worker's, one of
the stream (`cut_reply`), of a repair or of the fallback, or one that seeds the cache
(`seed_swept`). `met` remembers which causes a running fetch has met.

### ObjectGraph

`Visit` is one step of the depth-first walk, `Walk` one between two visits, with
its stack written top first, so that `prune_last` acts on what the code's does.
The collector marks (`gc_mark`) and the sender plans (`compute_missing`) one visit
at a time, beside everybody else. The collector is `gc_freeze`, `gc_mark`,
`gc_list`, `gc_look` (the second reading of the roots) and one `gc_sweep` per object;
a transfer is `create_bundle` or `negotiate`, `compute_missing`, `offer`,
`import_begin` or `confirm`, one `import_object` per entry, `import_publish`. What the
walk is held against is not an algorithm: `Closure` and `Lacks` are least sets. The
writer (`begin`, `txn_put`, `txn_publish`), references and the clock are external: the
library leaves them to its caller. The collection is given as leases any set its
caller may know of. An id is the hash of what it names, so `Deps` has no cycle in a
real store; the theorems do not need that.

### AdaptiveFetch and LfsTransfer

A worker's place in `fetch_missing_parallel` is `pc`: `loop` (flags), `enter` and
`wake` (the gate, which polls), `claim`, `acquire` (the budget, which does not),
`get_group`, `get_alone` and `decode`, `succeed` or `fail`, `release`, `leave`. The
controller is `aimd` with `on_success` and `on_pressure`. `LfsTransfer` adds the push:
`open_session` under the lock, `upload`, `commit_publish_batch`, then per pending
object `copy_packs`, `write_chunk_map`, `write_manifest`, then `export_meta_pack` and
`export_meta_index`; files written in place may be torn by a crash. An upload may
fail after some of its chunks (`upload_fails`): the session goes on, and they stay in
`open_pack`, which is sealed with the batch. Where there is no meta index yet, because
every earlier push died before it wrote one, `read_or_rebuild_meta_index` lists the
meta-packs those left, oldest first (`meta_packs` is in the order of their mtimes).
And the pull:
`init_download`, `download`, `ensure_index`, `use_mapped_pack` or `resolve_single`,
`fetch_missing` (which spawns the pool), `reconstruct`. A push and a pull take turns;
what a pull that overlaps a push could find in the tree is what `ManifestReady`
says of every state of a push.

## 3. Runs

| Run | Instance | Shows |
|---|---|---|
| `ledger_recovery` | 2 assets, 3 saves, a journal of one record, one fault of: snapshot, record pack, rot; crashes in saves | `NeverBroken`, `Durable`, `KnownTable`, `ReopenAgrees`, `RecoveredRecordsRead` |
| `ledger_refinement` | 1 asset, 2 versions, 3 saves, a journal of two records; failing append or save in a batch, crashes, upgraded stores | `ImplementsAtomicLedger`, `BatchIsInvisible`, `RecordsRead` |
| `v_failed_snapshot` | 2 assets, failing snapshots | `SaveIsDurable` does not hold |
| `store_maintenance` | 2 chunks, packs of 2, gc, unpublish and repack; packfiles: 1 asset, grace 1, maintenance between ingests; loose: 2 assets, both graces, maintenance also during an ingest | `RefcountsExact`, `LedgerBacked`, `EntriesRead`, `PublishedReadThroughout`, `GcReclaims` |
| `v_repack` | packfiles, as `store_maintenance` | `ReadsKeepWorking` does not hold |
| `apply_rerun` | all plans between seven builds of four paths, two contents, two crashes | `Recoverable`, `CompletedIsNew`, `UnmanagedSurvives`, `Finishes` |
| `v_check_old` | the same with `check_old` always on | `Finishes` does not hold |
| `seg_commit` | 2 chunks, 1 asset, generations up to 5, segments of one record, compaction after one delta, 1 failing write, 1 reader | `GenerationsOpen`, `SavedIsDurable`, `CountsExact`, `ReaderConsistent`, `OnlySavesShow` |
| `v_reader_sweeps` | the same, without the constraint that stops after a sweep | `StoreAlwaysOpens` does not hold |
| `delivery_faults` | 3 versions of 3 chunks, one of two files; raw, directory and media; 2 workers, 2 attempts, 2 faults | `EveryChunkArrives`, `FailsForAReason`, `InstalledIsManifest`, `CommitAfterStaging`, `Converges` |
| `object_graph` | 2 commits and 2 chunks, one commit over the other; grace of 1 tick, 1 crash, 2 moves of writer, transfer and references | `PublishedComplete`, `PlanIsReference`, `ImportCloses`, `TransactionIntact` |
| `lfs_transfer` | 2 objects sharing a chunk of 4, 2 workers, budget of 2 chunks, 2 pushes, 2 pulls, 1 fault | `SlotsExact`, `JoinComplete`, `ManifestReady`, `PushedIsServed`, `FailsForACause`, `QuietBeforeRaise`, `Joins` |

*Bounds.* Three saves reach every shape of the ledger's files: a first snapshot,
a second one that makes the first `.prev`, and a rotation of the journal between
them or after them. One fault and any number of crashes give each interaction of
two of them. Two assets are needed for a table that mixes two saves, two versions
for a record that is listed at the wrong one; each instance has one of the two.
Two chunks and packs of two chunks give a pack with a dead and a live chunk, a
full pack that rolls over, and a merge that reproduces an old pack. Sets of
chunks, of assets and of versions are permuted symmetrically where no temporal
property is checked. The seven builds have files that trade places, file and
directory in each other's place, and links to files and directories.
Five generations are a migration, two commits with their compactions, and the
pruning of both. Three versions give a file that changes, one that another file
appears beside, and an asset republished during a fetch; two faults give each
pair, such as a lost reply and a restart. `MaxCold` is 1, so that a batch is
collapsed or not. In the object graph two moves are a transfer or a transaction
and a dropped root beside a collection; three moves were explored to 14 million
states without a violation, beyond what a run can finish. In `lfs_transfer` the
larger object is pushed after or before the smaller one, hence lies in one pack
or two, and has two range groups (`MaxRun` is 3) for two workers whose bytes do not
fit the budget together; the second pull meets caches of the first.

*Deadlock* is checked except in five runs. In `ledger_recovery` a store whose
`index.bin` rotted may, after a crash at one point, not open again (section 5),
and nothing can happen to it any more. In `seg_commit`, `object_graph` and
`lfs_transfer` nobody is obliged to do anything, and the bounds on generations,
moves, pushes and pulls end the behaviours; that no worker is stuck is `Joins`.
`v_reader_sweeps` is on the instance of `seg_commit`.

*Fairness.* `Finishes`: a running apply goes on, and an apply that was cut short is
run again. The second is what the documentation tells the user to do; the first
is a single thread that waits for nothing. `Converges`: the client goes on, each
worker thread goes on, and a fetch that failed is run again, as `--resume`
expects; faults and restarts are bounded and not fair. `Joins`: each worker thread
goes on when it can; nothing is assumed of pushes, pulls, the clock or the
remote. Every other property is one of safety.

Each property has a mutant in `PROJECT.json`: a plausible slip in the code
(a dropped check, a step left out, a stale value) under which TLC finds the
property violated.

## 4. Proofs

Every safety property of every passing run is a theorem, for every value of the
constants that satisfies the module's `ASSUME`: any number of chunks, assets, objects, workers, readers, versions, faults and crashes. The bounds
(`MaxGen`, `MaxFaults`, `MaxMoves`, ...) are constants like the others, so a theorem
holds whatever they are. Each module of proofs states an inductive invariant as a
conjunction of named parts, has one lemma per action or group of actions, and ends
in the theorems. The invariants were checked with TLC, on the instances of the runs,
before they were proved.

### Assumptions

Besides types: `ChunkStore` has finitely many chunks and assets (a count of zero
means that nobody refers to the chunk); `SegIndex` likewise; the pool of
`AdaptiveFetch` has finitely many workers, and its limit starts between the floor and
their number; in
`Delivery` a version is a finite sequence of sets of chunks and there is at least one
connection; in `ObjectGraph` objects are finitely many and payload names nothing. All
of these hold of any real configuration.

### Orders

`SortedBy` puts an element at the place that counts the elements before it, where
the code sorts with a comparison. `SortedByLists` and `SortedByOrdered` show that for
a strict order on a finite set this lists every element once, in order;
`AtPlacesLists` is the same for a filtered sequence. `MinOf`, from the well-foundedness
of the naturals, stands in for induction where a proof needs one (the least
counterexample).

### LedgerJournal

    THEOREM AlwaysOpens                == Spec => []NeverBroken
    THEOREM AlwaysDurable              == Spec => []Durable
    THEOREM BatchAlwaysInvisible       == Spec => []BatchIsInvisible
    THEOREM ReopenAlwaysAgrees         == Spec => []ReopenAgrees
    THEOREM RecoveredRecordsAlwaysRead == Spec => []RecoveredRecordsRead
    THEOREM RecordsAlwaysRead          == Spec => []RecordsRead
    THEOREM TableAlwaysKnown           == Spec => []KnownTable
    THEOREM FilesImplementAtomicLedger == ASSUME Events \cap {"stage", "pack", "rot"} = {}
                                          PROVE  Spec => ImplementsAtomicLedger

Four invariants; the second and the third each add to the one before. `LedgerInv`: `Sealed` says which of
`index.bin`, `.prev` and `.tmp` are readable at each point of a save, and, while no
snapshot failed and none rotted (`Clean`), `Journal` says that `index.log` continues
the snapshot without a gap and that `index.log.prev` has nothing to add, and `Table`
what an open would find at each `pc`. `Durable` alone is not inductive: that the next
append is replayed depends on the generations of everything before it. `PlacesInv`
adds where an open finds each record (`Places`). `ReadsInv` adds that the records are
there (`Reads`), while the store was interrupted in one way only (`Steady`). The
refinement maps the table an open would find to `AtomicLedger`'s saved table; its
hypothesis is the same as that of `Durable`, stated of the events a store can meet,
because a refinement cannot be conditional on the history. Lemmas about
`replay_journal` (`ReplayParts`, `GenBeforeIs` and those after them) say what one more
record, or a rotation, does to a replay.

`KnownInv` extends `LedgerInv` to stores whose snapshots failed or rotted, where
`Journal` and `Table` say nothing. `Asked` and `Answered` say that a save under way,
the last one that succeeded and the last one cut short are saves somebody asked for,
which together with `Durable` is enough for crashes inside saves. `Trail` is for the
other case, and needs only that generations rise (`Rising`), not that they follow one
another: a failed snapshot leaves a gap, and a replay stops there. `LiveTrail` and
`PrevTrail` say that each journal continues its snapshot to a table asked for, and
that between `index.log.prev` and `index.log` there is always a gap, so that a store
that lost `index.bin` falls back to an older table and never to a mixture.
`HeldTrail` says that the open store is never behind its files, and that where a
replay comes as far as the store has, the tables differ in dirty assets only: this is
why the next append, if it is replayed at all, is replayed to the table it was made
from. `SwapTrail` is about the two renames. Under a crash inside a save after such a
recovery `Trail` need not hold, and neither does the property (section 5).

### ChunkStore

    THEOREM RefcountsAlwaysExact == Spec => []RefcountsExact
    THEOREM AlwaysTyped          == Spec => []TypeOK
    THEOREM GcAlwaysReclaims     == Spec => GcReclaims
    THEOREM LedgerAlwaysBacked, EntriesAlwaysRead, PublishedAlwaysReads ==
        ASSUME Graceful, Apart
        PROVE  Spec => []LedgerBacked, []EntriesRead, []PublishedReadThroughout

`RefInv` is `RefcountsExact` of both ledgers, because a crash replaces the one in
memory by the saved one, with the types counting rests on. One lemma per ledger
operation shows that it keeps a ledger good; `ReferenceGood`, the longest, follows a
chunk through `publish_asset`'s decrement and increment by the cardinality of the set
of its holders with and without the asset. `PackInv` says where the bytes of both
ledgers are at each step of gc and repack: above all `Collecting`, that a pack the
saved ledger still needs has not been in quarantine long enough to be deleted before
the new ledger is saved. `Graceful` and `Apart` say of the packfile layout what the
maintenance run's constants say: gc has a grace period, and maintenance is not called
while a pack is open. Both are needed: with grace 0 `sweep_quarantine` deletes packs
before the save, and a save during an ingest persists entries of chunks that are not
in any pack yet (section 5).

### StagedApply

    THEOREM AlwaysRecoverable       == Spec => []Recoverable
    THEOREM AlwaysNew               == Spec => []CompletedIsNew
    THEOREM UnmanagedAlwaysSurvives == Spec => UnmanagedSurvives
    THEOREM AlwaysTyped             == Spec => []TypeOK

`Recoverable` is not inductive: the commit overwrites the files others are built
from, so one must know that nothing depends on them any more. `ApplyInv` therefore
says what each phase has achieved (`Phased`): while staging, a visited file is in
place, or queued and staged; while moving, a file is in place, or still to be moved
and staged; then directories, links and deletions in turn are done or still to do.
It also says that a running apply is the one of the journal (`Typed`), and that the
tree stays one the plan can be applied to (`Tame`), which is why the paths of the new
build, and the paths to be deleted, lead where they say even where links are about
(lemma `Straight`). Past the staging loop `Intact` is not needed at all, so the proof
shows more than the property: once the commit begins, a re-run needs nothing of the
old install. `TypeOK` needs no such condition: that the output stays a tree follows
from what `create_dir_all`, `rename`, `symlink` and the deletions check (`TreeKept`).

### SegIndex

    THEOREM GenerationsAlwaysOpen  == Spec => []GenerationsOpen
    THEOREM SavedIsAlwaysDurable   == Spec => []SavedIsDurable
    THEOREM CountsAlwaysExact      == Spec => []CountsExact
    THEOREM ReaderAlwaysConsistent == Spec => []ReaderConsistent
    THEOREM OnlySavesEverShow      == Spec => OnlySavesShow

The invariant holds until a reader sweeps a generation from under the writer
(`~swept`): segments of every root are in the pool (`Disk`), the open store is what
`CURRENT` names (`Memory`), what a save has written by each step (`Staged`), when
memory and disk agree (`Settled`), both have exact counts (`Counted`), and a reader is
at a generation that is not written any more (`Reading`). The work is in the lookup:
`LookupDecides` shows that `LookupOrder` finds the newest delta with a record, else
the base; `LiveAppend` that a new delta overrides what it lists and nothing else;
`LiveBases` that compaction, which cuts the live table into bases, changes no answer.
After a sweep a generation number can be used twice, and a second reader could mix
the two; hence `~swept` in `ReaderConsistent`.

### Delivery

    THEOREM EveryChunkAlwaysArrives == Spec => []EveryChunkArrives
    THEOREM AlwaysFailsForAReason   == Spec => []FailsForAReason
    THEOREM AlwaysInstalled         == Spec => InstalledIsManifest
    THEOREM AlwaysStagedFirst       == Spec => CommitAfterStaging

`Stream` follows the session: every segment received is in the cache or remembered
for repair, although the server counts a lost reply as delivered. `Pool` follows the
workers: a chunk is here, still to be taken from the shared counter, or in a worker's
hands, until an error is recorded. `Built` says which files are staged or in place.
`Republished`, `Session` and `Rotten` tie each cause of failure to `met`.

### AdaptiveFetch and LfsTransfer

    THEOREM SlotsAlwaysExact       == Spec => []SlotsExact
    THEOREM JoinAlwaysComplete     == Spec => []JoinComplete
    THEOREM RaisesOnlyAfterQuiet   == Spec => QuietBeforeRaise
    THEOREM ManifestAlwaysReady    == Spec => []ManifestReady
    THEOREM PushedAlwaysServed     == Spec => []PushedIsServed
    THEOREM AlwaysFailsForACause   == Spec => []FailsForACause
    THEOREM SleeperIsAlwaysAwaited == Spec => []SleeperIsAwaited

`PoolInv` says that a claimed group is cached, in somebody's hands or an error is
recorded, that somebody is left to claim the others (both are needed for
`JoinComplete`, which speaks of the moment nobody is left), and that a window of the
controller that is not spoilt has seen no push-back. `PushInv` says what is written by
each step of an export, with each object of the queue before or after its turn.
`ManifestReady` is not inductive because of the rebuilt index, which may list the
meta-pack of a push that died before its index: `PacksServed` therefore says that every
meta-pack in the tree, in the index or not, names only objects that can be fetched, and
`OpenPackExact` that the chunks of the open pack are in no other pack, so that sealing
it moves nothing that was exported, and that a batch has its other chunks in the store.
`PullInv` says that a pull has what it needs or a fault to show for it. The last theorem is
the safety behind `Joins`: a worker asleep in `ByteBudget::acquire` would not find its
bytes if it looked, and somebody who does not wait holds some. It rests on exact
counts, on `release` waking every sleeper, and on `acquire` cutting a request to the
size of the budget. (At the gate workers poll, so there is no wake-up to lose.)

### ObjectGraph

    THEOREM PublishedAlwaysComplete == Spec => []PublishedComplete
    THEOREM TransactionAlwaysIntact == Spec => TransactionIntact
    THEOREM PlanAlwaysReference     == Spec => []PlanIsReference
    THEOREM ImportAlwaysCloses      == Spec => []ImportCloses

`VisitFacts` says what one turn of the walk does to what it has visited and has yet to
visit; above all that a pruned visit takes back exactly what it pushed. From it the
walk is shown correct without induction over the graph: at its end the objects visited
are a closed set (up to what the receiver claimed), and the definition is the least
one. `Marking` carries this through a mark during which the store changes: of a graph
that is whole, whatever was visited was marked. `Looking` and `Sweeping` then say that
the list spares the graphs of the roots it was drawn up for, and after the second look
those of all roots; an object stored meanwhile belongs to none of them, being new.
`Planning` is the same for a sender, `Importing` says that what is not stored yet is
in the table.

### With TLC only

Liveness (`Finishes`, `Converges`, `Joins`): `tlapm` does not reason about fairness.
The four expected violations are TLC's counterexamples.

## 5. What the properties do not promise

The conditions in the properties are the limits of the code. Six of them contradict a
line of the code's documentation. Four of the six are shown by runs of their own:

* `v_failed_snapshot`: a snapshot that cannot be staged has taken its generation
  number and drained the dirty sets; the next append stands behind a gap and a
  save that returned Ok is lost at the next open.
* `v_repack`: a pack that repack writes may be, by content, one of the packs it
  then quarantines; the entries point into the quarantine until the store is
  opened again.
* `v_check_old`: `check_old` refuses to finish an in-place apply that has begun
  to commit.
* `v_reader_sweeps`: opening a segmented store to read it removes generations
  newer than the `CURRENT` it read, also the one a writer is about to commit or
  has just committed. The properties of `seg_commit` hold until that happens.

Two are exceptions of properties that are checked otherwise; TLC refutes both properties
when the exception is dropped:

* "If the process dies before the commit, the on-disk store is exactly as it was
  before the batch" (`global.rs:1056`). unpublish and gc save whether or not a batch is
  open, and save what it has queued: begin, publish, gc, death leaves a store that lists
  the asset (`BatchIsInvisible` without `Never({"batchsave"})`). They also drain the
  batch's dirty set, and its commit no longer journals the records (`ReopenAgrees`,
  `RecoveredRecordsRead`). The LFS agent, which opens the batches, does neither; the
  API allows both.
* "A crash mid-push cannot corrupt: chunk/pack writes are atomic, and the next push of
  the same oid repairs the export if it is missing" (`docs/GIT_LFS.md:90`).
  `manifest.json` is written in place, and a push that finds a file there, torn or
  not, does not export the object again (`PushedIsServed` without its exception;
  `FailsForACause` has the same one).

The others were met while the conditions were found, each by dropping one:

* `index.bin` damaged, the store recovered from `.prev`: the next save renames
  the damaged file over `.prev`, and a crash before the next rename leaves
  nothing that opens (`NeverBroken`); generation numbers are used again and the
  old journal may replay over the new snapshot (`KnownTable`); gc has deleted
  record packs that only `.prev` names (`RecoveredRecordsRead`).
* A record pack that cannot be written drops the dirty set (`KnownTable`).
* In a store from before the journal, flat records are unlinked before the save
  that replaces them; after a failed append, gc sweeps record packs by a memory
  that is ahead of the disk (`RecoveredRecordsRead`); and when a second append fails,
  in gc's own save, the record pack of what the disk still lists is gone
  (`RecordsRead` is promised for one failed append).
* gc with grace 0 deletes quarantined packs, and in the loose layout chunk files,
  before the ledger is saved; a crash then leaves saved entries without bytes,
  which `put_chunk` takes for stored chunks (`LedgerBacked`). The maintenance run
  therefore has grace 1 for packfiles, and these three properties speak of
  packfiles only.
* A save during an ingest persists entries of chunks that are only in the open
  pack (`LedgerBacked`); the maintenance run calls maintenance between ingests.
* `apply_dir` cannot replace a directory by a file or a link, nor a file by a
  directory; it takes a link to a file with the right content for the file, a
  link to a directory for the directory, and never removes a link to a
  directory; and a deletion whose path leads through a link of the new build
  removes a file of the new build (`Replaceable`).
* A failed save of the segmented index does not put back the overlay it took
  (`CountsExact` holds until then); errors after the swap are not modelled.
* A fetch may fail when the network or the server's disk gives up, when the
  version or the session goes away, when a verification or gc of the cache takes a
  temporary file, and for media when a cached chunk was damaged (`FailsForAReason`).
* The collector protects what is new, leased or reachable: an old unreachable
  object that a writer finds and does not write again is none of these
  (`TransactionIntact`), and a root published after the second look with an object
  on the sweep's list loses it (`PublishedComplete`). An import is complete if the
  store was closed when the prerequisites were checked, nothing was deleted since,
  and the root was not itself claimed (`ImportCloses`).

## 6. Not modelled, and the plan

Not modelled, and why:

* Formats, manifests, signatures, the wire encoding, chunking, hashing,
  compression: functions from bytes to bytes. What a state machine needs of them
  (a checksum tells a torn file, a hash names content) is in the models.
* The command line with its benchmarks, analyzer, certification and reports, the
  desktop application, SDK bindings and engine plugins: by far most of the
  repository's lines. They call the crates modelled here and keep no state that
  a crash, a race or a retry could leave inconsistent. This bounds what share of
  the lines a model of the system can stand for.
* Workspaces and the reconstruction planner: one rewritten document, and a pure
  function over one file.
* `serverless.rs`, pushes over HTTP, HLS and web routes: transports of the
  operations that are modelled.
* In a push: a pack that is full is sealed during the ingest, so a session may write
  several (here one, sealed with the batch), and the sealing itself may fail.
* Promises of the object graph, the weaker sync modes, loss of unsynced writes at
  a power cut; two processes writing one store without the LFS agent's lock; two
  clients sharing a cache; a pull that overlaps a push.

Left to prove: of the runs' properties only the liveness ones, which are out of the
prover's reach. Their safety halves are theorems where a step could be lost
(`SleeperIsAlwaysAwaited`) or work forgotten (`JoinAlwaysComplete`, `AlwaysNew`).
