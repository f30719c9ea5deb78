---------------------------- MODULE LfsTransfer ----------------------------
(***************************************************************************)
(* The Git LFS agent over a directory remote: push sessions that ingest    *)
(* into the store and export a static tree, and pulls that resolve an      *)
(* object's metadata from that tree and fetch its chunks with the pool of  *)
(* AdaptiveFetch.                                                          *)
(*                                                                         *)
(* A session acknowledges each upload at once and makes the push visible   *)
(* when it ends: the ledger is committed, then every object is exported    *)
(* (packs, record, chunk map, manifest last), then one meta-pack and the   *)
(* meta index.  Exported files other than those two are written in place,  *)
(* so a push that dies leaves one of them torn.  The next push of an       *)
(* object exports it again if its manifest is missing, and a push that     *)
(* finds no index rebuilds it from the meta-packs of the tree.             *)
(*                                                                         *)
(* Abstracted: an object is its chunks, a pack and a meta-pack are what    *)
(* they hold, which is also their name.  The commit of the ledger is one   *)
(* step (LedgerJournal has its detail).  Pushes and pulls take turns: the  *)
(* tree only gains files, and what a pull can meet is checked in every     *)
(* state of a push by ManifestReady.                                       *)
(***************************************************************************)
EXTENDS AdaptiveFetch, Orders

CONSTANTS
    Oids,         \* the objects
    ChunksOf,     \* oid -> its chunks
    MaxRun,       \* chunks in one coalesced range
    MaxPushes,    \* bound: push sessions
    MaxFaults,    \* bound: failing uploads, sessions that die, downloads
                  \* with trouble
    MaxPulls      \* bound: downloads

ASSUME LfsTransferAssumption ==
    /\ ChunksOf \in [Oids -> SUBSET Chunks]
    /\ MaxRun \in Nat \ {0}
    /\ {MaxPushes, MaxFaults, MaxPulls} \subseteq Nat

VARIABLES
    \* the store and the session that writes it
    ledger,       \* the oids of the store's ledger
    pack_of,      \* where the ledger says a chunk is, {} if nowhere
    session,      \* what the push session is doing
    batch,        \* oids ingested, not committed
    open_pack,    \* the chunks in the open pack
    pending,      \* pending_exports
    pos,          \* which of them is being exported
    acked,        \* oids whose upload the session has acknowledged
    \* the static tree, with packs of AdaptiveFetch
    chunk_map, manifest,  \* per oid: "absent", "torn", "whole"
    meta_packs,   \* the meta-packs by mtime, each a sequence of oids
    meta_index,   \* the meta index, a sequence of meta-packs
    \* the downloading agent
    stage,        \* what the download is doing
    want,         \* the oid it is about
    index_state,  \* the meta index is "unknown", "missing" or "known"
    index,        \* the meta index as this session has read it
    l1, l2,       \* resolved oids of this session; oid -> meta-pack on disk
    fetched_packs,\* meta-packs this session has asked for
    result,       \* how the last download ended
    \* history and bounds
    published,    \* oids acknowledged in push sessions that ended well
    began,        \* what was published when the download began
    pushes, faults, pulls

storeVars == <<ledger, pack_of, session, batch, open_pack, pending, pos, acked>>
treeVars  == <<chunk_map, manifest, meta_packs, meta_index>>
pullVars  == <<stage, want, index_state, index, l1, l2, fetched_packs,
               result, began, pulls>>
lfsVars   == <<storeVars, treeVars, pullVars, published, pushes, faults>>
vars      == <<poolVars, packs, cache, trouble, lfsVars>>

NoOid == "no oid"

------------------------------------------------------------------------------
(* A push session.                                                           *)

(* open_session: the lock, the store and an open publish batch.              *)
open_session ==
    /\ session = "none" /\ stage = "idle"
    /\ pushes < MaxPushes
    /\ pushes' = pushes + 1
    /\ session' = "open"
    /\ UNCHANGED <<poolVars, packs, cache, trouble, faults, ledger, pack_of,
                   batch, open_pack, pending, pos, acked, treeVars, pullVars,
                   published>>

has_asset(oid) == oid \in ledger \union batch

(* The chunks of an object that put_chunk appends to the open pack: those    *)
(* the store has nowhere yet (the others are already known to it).           *)
new_chunks(oid) == {c \in ChunksOf[oid] : pack_of[c] = {}}

upload_trusting_the_ledger(oid) ==
    /\ session = "open"
    /\ oid \notin acked
    /\ acked' = acked \union {oid}
    /\ batch' = batch \union ({oid} \ ledger)
    /\ open_pack' = open_pack \union
                       IF has_asset(oid) THEN {} ELSE new_chunks(oid)
    /\ pending' = IF has_asset(oid) THEN pending ELSE Append(pending, oid)
    /\ UNCHANGED <<poolVars, packs, cache, trouble, faults, ledger, pack_of,
                   session, pos, treeVars, pullVars, published, pushes>>

(* An upload event: ingest a new object into the batch; queue a known one    *)
(* for export only if its manifest is not a file of the tree.  Either way    *)
(* git-lfs is told that the upload is complete.                              *)
upload(oid) ==
    /\ session = "open"
    /\ oid \notin acked
    /\ acked' = acked \union {oid}
    /\ batch' = batch \union ({oid} \ ledger)
    /\ open_pack' = open_pack \union
                       IF has_asset(oid) THEN {} ELSE new_chunks(oid)
    /\ pending' = IF has_asset(oid) /\ manifest[oid] # "absent"
                  THEN pending ELSE Append(pending, oid)
    /\ UNCHANGED <<poolVars, packs, cache, trouble, faults, ledger, pack_of,
                   session, pos, treeVars, pullVars, published, pushes>>

(* An ingest fails after some of its chunks (the order of an object's chunks *)
(* is not modelled): git-lfs is told so, the session goes on, and what was   *)
(* put stays in the open pack.                                               *)
upload_fails(oid, put) ==
    /\ session = "open"
    /\ ~has_asset(oid)
    /\ put \subseteq new_chunks(oid)
    /\ faults < MaxFaults
    /\ faults' = faults + 1
    /\ open_pack' = open_pack \union put
    /\ UNCHANGED <<poolVars, packs, cache, trouble, ledger, pack_of, session,
                   batch, pending, pos, acked, treeVars, pullVars, published,
                   pushes>>

(* finalize, commit_publish_batch: the open pack is sealed (its chunks are   *)
(* in the store, whether an object has them or not), and the ledger is       *)
(* saved.                                                                    *)
commit_publish_batch ==
    /\ session = "open"
    /\ pack_of' = [c \in Chunks |-> IF c \in open_pack THEN open_pack
                                                      ELSE pack_of[c]]
    /\ ledger' = ledger \union batch
    /\ batch' = {} /\ open_pack' = {}
    /\ pos' = 1
    /\ session' = IF pending = <<>> THEN "meta index" ELSE "packs"
    /\ UNCHANGED <<poolVars, packs, cache, trouble, faults, pending, acked,
                   treeVars, pullVars, published, pushes>>

packs_of(oid) == {pack_of[c] : c \in ChunksOf[oid]}

(* The packs of the tree, with p written up to here.                         *)
with(p, state) ==
    [q \in DOMAIN packs \union {p} |-> IF q = p THEN state ELSE packs[q]]

copy_packs_if_absent ==
    LET lacking == packs_of(pending[pos]) \ DOMAIN packs
        copying == CHOOSE p \in packs_of(pending[pos]) :
                      IF session = "packs" THEN p \in lacking ELSE ~whole(p)
    IN  /\ session \in {"packs", "pack torn"}
        /\ \/ /\ session = "packs" /\ lacking = {}
              /\ session' = "chunk map"
              /\ UNCHANGED packs
           \/ /\ session = "packs" /\ lacking # {}
              /\ session' = "pack torn"
              /\ packs' = with(copying, "torn")
           \/ /\ session = "pack torn"
              /\ session' = "packs"
              /\ packs' = with(copying, "whole")
        /\ UNCHANGED <<poolVars, cache, trouble, faults, ledger, pack_of,
                       batch, open_pack, pending, pos, acked, treeVars,
                       pullVars, published, pushes>>

(* export_asset, copy_if_different: every pack of the object that is not in  *)
(* the tree with its full length is copied, one after the other.             *)
copy_packs ==
    LET stale   == {p \in packs_of(pending[pos]) : ~whole(p)}
        copying == CHOOSE p \in stale : TRUE
    IN  /\ session \in {"packs", "pack torn"}
        /\ \/ /\ session = "packs" /\ stale = {}
              /\ session' = "chunk map"
              /\ UNCHANGED packs
           \/ /\ session = "packs" /\ stale # {}
              /\ session' = "pack torn"
              /\ packs' = with(copying, "torn")
           \/ /\ session = "pack torn"
              /\ session' = "packs"
              /\ packs' = with(copying, "whole")
        /\ UNCHANGED <<poolVars, cache, trouble, faults, ledger, pack_of,
                       batch, open_pack, pending, pos, acked, treeVars,
                       pullVars, published, pushes>>

(* The chunk map (and the record, which a pull does not read): fs::write     *)
(* truncates the file, then fills it.                                        *)
write_chunk_map ==
    /\ session \in {"chunk map", "chunk map torn"}
    /\ chunk_map' = [chunk_map EXCEPT ![pending[pos]] =
                        IF session = "chunk map" THEN "torn" ELSE "whole"]
    /\ session' = IF session = "chunk map" THEN "chunk map torn"
                                           ELSE "manifest"
    /\ UNCHANGED <<poolVars, packs, cache, trouble, faults, ledger, pack_of,
                   batch, open_pack, pending, pos, acked, manifest,
                   meta_packs, meta_index, pullVars, published, pushes>>

(* The manifest, last; then the next object, or the session's meta-pack.     *)
write_manifest ==
    /\ session \in {"manifest", "manifest torn"}
    /\ manifest' = [manifest EXCEPT ![pending[pos]] =
                       IF session = "manifest" THEN "torn" ELSE "whole"]
    /\ \/ /\ session = "manifest"
          /\ session' = "manifest torn" /\ pos' = pos
       \/ /\ session = "manifest torn"
          /\ session' = IF pos < Len(pending) THEN "packs" ELSE "meta pack"
          /\ pos' = pos + 1
    /\ UNCHANGED <<poolVars, packs, cache, trouble, faults, ledger, pack_of,
                   batch, open_pack, pending, acked, chunk_map, meta_packs,
                   meta_index, pullVars, published, pushes>>

(* export_meta_pack: the session's meta-pack is renamed into the tree, where *)
(* an earlier session may have left the same one ...                         *)
export_meta_pack ==
    /\ session = "meta pack"
    /\ meta_packs' = IF pending \in Range(meta_packs) THEN meta_packs
                     ELSE Append(meta_packs, pending)
    /\ session' = "meta index"
    /\ UNCHANGED <<poolVars, packs, cache, trouble, faults, ledger, pack_of,
                   batch, open_pack, pending, pos, acked, chunk_map, manifest,
                   meta_index, pullVars, published, pushes>>

(* The index of the tree.  Where there is none, every meta-pack found, those *)
(* of sessions that died before they wrote an index included, oldest first.  *)
(* (The index is renamed into place: it is missing or whole, never empty.)   *)
read_or_rebuild_meta_index ==
    IF meta_index = <<>> THEN meta_packs ELSE meta_index

(* ... and the index, which names a pack at most once, is replaced by one    *)
(* that ends with it.  A session that exported nothing leaves both alone.    *)
(* The agent ends.                                                           *)
export_meta_index ==
    /\ session = "meta index"
    /\ meta_index' =
          IF pending = <<>> THEN meta_index
          ELSE Append(RemoveFirst(read_or_rebuild_meta_index, pending), pending)
    /\ published' = published \union acked
    /\ session' = "none"
    /\ pending' = <<>> /\ pos' = 1 /\ acked' = {}
    /\ UNCHANGED <<poolVars, packs, cache, trouble, faults, ledger, pack_of,
                   batch, open_pack, chunk_map, manifest, meta_packs, pullVars,
                   pushes>>

(* The agent dies, or an error ends it: what it had not written is lost.     *)
crash ==
    /\ session # "none"
    /\ faults < MaxFaults
    /\ faults' = faults + 1
    /\ session' = "none"
    /\ batch' = {} /\ open_pack' = {} /\ pending' = <<>> /\ pos' = 1
    /\ acked' = {}
    /\ UNCHANGED <<poolVars, packs, cache, trouble, ledger, pack_of, treeVars,
                   pullVars, published, pushes>>

Push ==
    \/ open_session
    \/ \E oid \in Oids :
          \/ upload(oid)
          \/ \E put \in SUBSET ChunksOf[oid] : upload_fails(oid, put)
    \/ commit_publish_batch \/ copy_packs \/ write_chunk_map \/ write_manifest
    \/ export_meta_pack \/ export_meta_index

------------------------------------------------------------------------------
(* A download.                                                               *)

End(how) == result' = how /\ stage' = "idle"

(* A new agent starts with an empty resolver over the same disk cache.       *)
init_download ==
    /\ stage = "idle" /\ session = "none" /\ pulls < MaxPulls
    /\ index_state # "unknown" \/ l1 # {}
    /\ index_state' = "unknown" /\ index' = <<>>
    /\ l1' = {} /\ fetched_packs' = {}
    /\ UNCHANGED <<poolVars, packs, cache, trouble, faults, storeVars,
                   treeVars, stage, want, l2, result, began, pulls, published,
                   pushes>>

(* A download event.  Without a manifest the object is not at the remote.    *)
download(oid) ==
    /\ stage = "idle" /\ session = "none" /\ pulls < MaxPulls
    /\ pulls' = pulls + 1
    /\ want' = oid
    /\ began' = published
    /\ trouble' \in BOOLEAN
    /\ faults' = IF trouble' THEN faults + 1 ELSE faults
    /\ faults' <= MaxFaults
    /\ \/ manifest[oid] = "absent" /\ End("not found")
       \/ /\ manifest[oid] # "absent"
          /\ stage' = IF oid \in l1 THEN "resolved" ELSE "index"
          /\ result' = "none"
    /\ UNCHANGED <<poolVars, packs, cache, storeVars, treeVars, index_state,
                   index, l1, l2, fetched_packs, published, pushes>>

(* ensure_index: once per session; a missing index is asked for again when   *)
(* NEGATIVE_TTL has passed.  A transport error is an error.                  *)
ensure_index ==
    /\ stage = "index"
    /\ \/ /\ index_state # "known"
          /\ index' = meta_index
          /\ index_state' = IF meta_index = <<>> THEN "missing" ELSE "known"
          /\ stage' = "mapped"
          /\ UNCHANGED result
       \/ /\ index_state # "unknown"
          /\ stage' = "mapped"
          /\ UNCHANGED <<index_state, index, result>>
       \/ /\ index_state # "known"
          /\ trouble
          /\ End("failed")
          /\ UNCHANGED <<index_state, index>>
    /\ UNCHANGED <<poolVars, packs, cache, trouble, faults, storeVars,
                   treeVars, want, l1, l2, fetched_packs, began, pulls,
                   published, pushes>>

(* The last meta-pack of the index that lists the object, or <<>>.           *)
mapped_pack ==
    LET listing == {i \in DOMAIN index : want \in Range(index[i])}
    IN  IF listing = {} THEN <<>> ELSE index[Max(listing)]

use_mapped_pack_only ==
    /\ stage = "mapped"
    /\ \/ /\ mapped_pack # <<>>
          /\ l1' = l1 \union {want}
          /\ stage' = "resolved"
          /\ UNCHANGED result
       \/ /\ mapped_pack = <<>>
          /\ End("failed")
          /\ UNCHANGED l1
    /\ UNCHANGED <<poolVars, packs, cache, trouble, faults, storeVars,
                   treeVars, want, index_state, index, l2, fetched_packs,
                   began, pulls, published, pushes>>

(* resolve_inner after the index: the disk cache, if it comes from the pack  *)
(* the index names; else that pack, which also brings its siblings, once per *)
(* session; else, or if the pack cannot be had, the object's own files.      *)
use_mapped_pack ==
    /\ stage = "mapped"
    /\ \/ /\ mapped_pack # <<>> /\ l2[want] = mapped_pack
          /\ l1' = l1 \union {want}
          /\ stage' = "resolved"
          /\ UNCHANGED <<l2, fetched_packs>>
       \/ /\ mapped_pack # <<>> /\ l2[want] # mapped_pack
          /\ mapped_pack \in Range(meta_packs)
          /\ mapped_pack \notin fetched_packs
          /\ fetched_packs' = fetched_packs \union {mapped_pack}
          /\ l1' = l1 \union Range(mapped_pack)
          /\ l2' = [o \in Oids |-> IF o \in Range(mapped_pack)
                                   THEN mapped_pack ELSE l2[o]]
          /\ stage' = "resolved"
       \/ /\ mapped_pack # <<>> /\ l2[want] # mapped_pack
          /\ mapped_pack \notin fetched_packs
          /\ trouble
          /\ fetched_packs' = fetched_packs \union {mapped_pack}
          /\ stage' = "single"
          /\ UNCHANGED <<l1, l2>>
       \/ /\ \/ mapped_pack = <<>>
             \/ mapped_pack \in fetched_packs /\ l2[want] # mapped_pack
          /\ stage' = "single"
          /\ UNCHANGED <<l1, l2, fetched_packs>>
    /\ UNCHANGED <<poolVars, packs, cache, trouble, faults, storeVars,
                   treeVars, want, index_state, index, result, began, pulls,
                   published, pushes>>

(* resolve_single: the manifest and the chunk map, both readable.            *)
resolve_single ==
    /\ stage = "single"
    /\ \/ /\ manifest[want] = "whole" /\ chunk_map[want] = "whole"
          /\ l1' = l1 \union {want}
          /\ stage' = "resolved"
          /\ UNCHANGED result
       \/ /\ manifest[want] # "whole" \/ chunk_map[want] # "whole"
          /\ End("failed")
          /\ UNCHANGED l1
       \/ /\ trouble
          /\ End("failed")
          /\ UNCHANGED l1
    /\ UNCHANGED <<poolVars, packs, cache, trouble, faults, storeVars,
                   treeVars, want, index_state, index, l2, fetched_packs,
                   began, pulls, published, pushes>>

(* A range is a run of wanted neighbours of one pack, MaxRun of them at most *)
(* (a chunk that is not wanted is over the cap on waste, and ends the run);  *)
(* the ranges go by pack, then by offset.                                    *)
run(c, wanted) ==
    Min({b \in pack_of[c] : b <= c /\ pack_of[c] \intersect b..c \subseteq wanted})

range(c, wanted) ==
    LET place(d) == Cardinality(pack_of[c] \intersect run(d, wanted)..(d - 1))
    IN  [pack   |-> pack_of[c],
         chunks |-> {d \in wanted : /\ pack_of[d] = pack_of[c]
                                    /\ run(d, wanted) = run(c, wanted)
                                    /\ place(d) \div MaxRun = place(c) \div MaxRun}]

precedes(g, h) ==
    \/ Min(g.pack) < Min(h.pack)
    \/ Min(g.pack) = Min(h.pack) /\ Min(g.chunks) < Min(h.chunks)

plan_range_groups(wanted) ==
    LET ranges == {range(c, wanted) : c \in wanted}
    IN  SortedBy(ranges, {p \in ranges \X ranges : precedes(p[1], p[2])})

(* The chunks that are not cached are planned and the pool is started.       *)
fetch_missing ==
    /\ stage = "resolved"
    /\ spawn(plan_range_groups(ChunksOf[want] \ cache))
    /\ stage' = "fetching"
    /\ UNCHANGED <<faults, storeVars, treeVars, want, index_state, index, l1,
                   l2, fetched_packs, result, began, pulls, published,
                   pushes>>

(* The pool has joined: an error ends the download, else the object is put   *)
(* together from the cache, which must hold every chunk of it.               *)
reconstruct ==
    /\ stage = "fetching" /\ Joined
    /\ End(IF first_error = "none" /\ ChunksOf[want] \subseteq cache
           THEN "ok" ELSE "failed")
    /\ PoolGone
    /\ UNCHANGED <<faults, storeVars, treeVars, want, index_state, index, l1,
                   l2, fetched_packs, began, pulls, published, pushes>>

Pull ==
    \/ init_download \/ (\E oid \in Oids : download(oid)) \/ ensure_index
    \/ use_mapped_pack \/ resolve_single \/ fetch_missing \/ reconstruct

------------------------------------------------------------------------------

Init ==
    /\ PoolInit
    /\ packs = << >> /\ ledger = {} /\ pack_of = [c \in Chunks |-> {}]
    /\ session = "none" /\ batch = {} /\ open_pack = {} /\ pending = <<>>
    /\ pos = 1 /\ acked = {}
    /\ chunk_map = [o \in Oids |-> "absent"]
    /\ manifest = [o \in Oids |-> "absent"]
    /\ meta_packs = <<>> /\ meta_index = <<>>
    /\ stage = "idle" /\ want = NoOid /\ result = "none"
    /\ index_state = "unknown" /\ index = <<>> /\ l1 = {}
    /\ l2 = [o \in Oids |-> <<>>] /\ fetched_packs = {}
    /\ published = {} /\ began = {}
    /\ pushes = 0 /\ faults = 0 /\ pulls = 0

Pool == PoolNext /\ UNCHANGED lfsVars

Next == Push \/ crash \/ Pull \/ Pool

(* Running threads go on, and so does an agent that has been given an event; *)
(* nobody is obliged to push or to pull.                                     *)
Spec ==
    /\ Init /\ [][Next]_vars
    /\ \A w \in Workers : WF_vars(Worker(w) /\ UNCHANGED lfsVars)

------------------------------------------------------------------------------
(* What the agent promises.                                                  *)

Servable(oid) ==
    /\ manifest[oid] = "whole" /\ chunk_map[oid] = "whole"
    /\ \A c \in ChunksOf[oid] : pack_of[c] # {} /\ whole(pack_of[c])

(* In every state of a push, crashes included, an object with a readable     *)
(* manifest can be fetched: its chunk map is whole and so is every pack that *)
(* holds a chunk of it, and the meta index names only packs that exist, of   *)
(* objects that can be fetched.                                              *)
ManifestReady ==
    /\ \A o \in Oids : manifest[o] = "whole" => Servable(o)
    /\ \A i \in DOMAIN meta_index :
          /\ meta_index[i] \in Range(meta_packs)
          /\ \A o \in Range(meta_index[i]) : Servable(o)

(* Once a session that acknowledged an upload has ended well, the object is  *)
(* at the remote: also if an earlier push of it died half way, unless it     *)
(* died inside the write of the manifest.                                    *)
PushedIsServed ==
    \A o \in published : manifest[o] # "torn" => Servable(o)

(* A download fails only for a fault of its own, or for a manifest that a    *)
(* push left torn: not for an index read before the object was pushed, nor   *)
(* for a meta-pack that an earlier download could not get.  And what it does *)
(* not find has not been pushed.                                             *)
FailsForACause ==
    /\ result = "failed" => trouble \/ manifest[want] = "torn"
    /\ result = "not found" => want \notin began
=============================================================================
