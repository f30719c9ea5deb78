----------------------------- MODULE ChunkStore -----------------------------
(***************************************************************************)
(* The chunks of a CAVS store (cavs-store/src/global.rs, packfile.rs): how *)
(* they enter (put_chunk, the open pack, publish batches), how assets hold *)
(* references to them, and how they leave (unpublish, gc, the quarantine,  *)
(* repack), with a crash possible between any two effects on the disk.     *)
(*                                                                         *)
(* The ledger is saved in one step: module LedgerJournal is about the      *)
(* files behind that step and shows that they keep the promise used here.  *)
(*                                                                         *)
(* What is abstracted.  A chunk's bytes are its name, and every chunk has  *)
(* the same size, so a pack is the sequence of the chunks in it - which is *)
(* its identity, since packs are named by their content - and an offset is *)
(* a position.  Time is one bit per stamp: a stamp is young until time     *)
(* passes (Tick) and old from then on; a collection with grace 0 takes     *)
(* everything, one with grace 1 only what is old.                          *)
(***************************************************************************)
EXTENDS Naturals, Sequences, FiniteSets, SequencesExt, Orders

CONSTANTS
    Chunks,          \* chunk hashes
    Assets,          \* asset names
    Layouts,         \* StoreLayout: of "Loose" and "Packfiles"
    PackSize,        \* preferred_pack_size, in chunks
    Graces,          \* layout -> the grace periods of gc, of 0 and 1
    Maintenance,     \* which of "unpublish", "gc", "repack" are called
    WhileIngesting   \* layouts with maintenance while a batch or pack is open

ASSUME ChunkStoreAssumption ==
    /\ IsFiniteSet(Chunks) /\ IsFiniteSet(Assets)
    /\ Layouts \subseteq {"Loose", "Packfiles"}
    /\ PackSize \in Nat \ {0}
    /\ Graces \in [Layouts -> SUBSET {0, 1}]
    /\ Maintenance \subseteq {"unpublish", "gc", "repack"}
    /\ WhileIngesting \subseteq Layouts

VARIABLES
    \* the disk
    layout,          \* fixed when the store is created
    dur,             \* the saved ledger
    loose,           \* chunks/: chunks with a file of their own
    packs,           \* packs/: the sealed packs, with the age of their mtime
    quar,            \* quarantine/: packs, with the age of their .qsince stamp
    \* the open store
    pc,              \* where the running operation stands
    led,             \* the ledger in memory
    openPack,        \* what the open PackWriter holds; empty: no writer
    batch,           \* the publish batch: "none", "empty" or "queued"
    grace,           \* grace_secs of the running gc
    victims,         \* the packs the running operation will quarantine
    \* history, read by properties only
    clash            \* a repack wrote a pack that is one of its victims

disk == <<layout, dur, loose, packs, quar>>
mem  == <<led, openPack, batch, grace, victims>>
vars == <<disk, pc, mem, clash>>

-----------------------------------------------------------------------------
(* Ledger values *)

PackIds    == Seq(Chunks)
Unresolved == [pack |-> <<>>, at |-> 0]      \* ChunkInfo without pack/offset
Locations  == [pack : PackIds, at : Nat]
PackChunks(p) == {p[i] : i \in DOMAIN p}

Ledgers ==
    [ has    : SUBSET Chunks,               \* chunks with an entry
      refs   : [Chunks -> Nat],             \* refcount
      old    : SUBSET Chunks,               \* zero_since set, and an age ago
      loc    : [Chunks -> Locations],       \* pack and pack_offset
      assets : [Assets -> SUBSET Chunks] ]  \* distinct chunks of each asset

Ledger(has, refs, old, loc, assets) ==
    [has |-> has, refs |-> refs, old |-> old, loc |-> loc, assets |-> assets]

EmptyLedger ==
    Ledger({}, [c \in Chunks |-> 0], {}, [c \in Chunks |-> Unresolved], [a \in Assets |-> {}])

live_pack_set(l) == {l.loc[c].pack : c \in l.has} \ {<<>>}

\* chunk_insert of a chunk no asset references yet: zero_since is Some(0).
Enter(l, cs) ==
    Ledger(l.has \cup cs, l.refs, l.old \cup cs, l.loc, l.assets)

\* chunk_remove
Forget(l, cs) ==
    Ledger(l.has \ cs,
           [c \in Chunks |-> IF c \in cs THEN 0 ELSE l.refs[c]],
           l.old \ cs,
           [c \in Chunks |-> IF c \in cs THEN Unresolved ELSE l.loc[c]],
           l.assets)

\* decrement: saturating, and stamped with the time when it reaches zero.
Decrement(n) == IF n = 0 THEN 0 ELSE n - 1

\* Mutant: a replaced asset's references are never dropped.
Reference_keeping_the_old(l, a, cs) ==
    Ledger(l.has,
           [c \in Chunks |-> IF c \in cs \cap l.has THEN l.refs[c] + 1 ELSE l.refs[c]],
           l.old \ cs,
           l.loc,
           [l.assets EXCEPT ![a] = cs])

\* publish_asset replacing the chunks of a by cs, or unpublish_asset with
\* none: drop the references a had, then take the new ones.
Reference(l, a, cs) ==
    LET less(c) == IF c \in l.assets[a] \cap l.has THEN Decrement(l.refs[c]) ELSE l.refs[c]
    IN  Ledger(l.has,
               [c \in Chunks |-> IF c \in cs \cap l.has THEN less(c) + 1 ELSE less(c)],
               l.old \ (cs \cup {c \in l.assets[a] : less(c) = 0}),
               l.loc,
               [l.assets EXCEPT ![a] = cs])

\* chunk_update of the places of the chunks in cs.
Relocate(l, cs, place) ==
    Ledger(l.has, l.refs, l.old,
           [c \in Chunks |-> IF c \in cs THEN place[c] ELSE l.loc[c]],
           l.assets)

\* flush_packs on the ledger: every chunk of the sealed pack p gets its place.
\* A chunk whose entry went away meanwhile is entered again.
LastSlot(p, c) ==
    [pack |-> p, at |-> CHOOSE i \in DOMAIN p :
                           p[i] = c /\ \A j \in DOMAIN p : p[j] = c => j <= i]
Flush(l, p) ==
    Relocate(Enter(l, PackChunks(p) \ l.has), PackChunks(p),
             [c \in PackChunks(p) |-> LastSlot(p, c)])

-----------------------------------------------------------------------------
(* Packs on the disk *)

\* PackWriter::finish_with: the pack is named, with a new mtime.
Seal(ps) ==
    [p \in DOMAIN packs \cup ps |-> IF p \in ps THEN "young" ELSE packs[p]]

\* quarantine_pack, for each of ps: move what is there, then stamp it.
Quarantine(ps) ==
    LET moved == ps \cap DOMAIN packs
    IN  /\ packs' = [p \in DOMAIN packs \ moved |-> packs[p]]
        /\ quar'  = [p \in DOMAIN quar \cup moved |->
                       IF p \in ps THEN "young" ELSE quar[p]]

\* Mutant: a restored pack comes back with whatever stamp it had.
Restored_with_its_stamp(ps) ==
    [p \in DOMAIN packs \cup ps |-> IF p \in DOMAIN packs THEN packs[p] ELSE quar[p]]

\* restore_pack_from_quarantine: back into the live tree, without its stamp.
\* A copy the live tree already has stays behind, unstamped.
Restored(ps)    == [p \in DOMAIN packs \cup ps |-> IF p \in DOMAIN packs THEN packs[p] ELSE "old"]
LeftBehind(ps)  == [p \in DOMAIN quar \ (ps \ DOMAIN packs) |->
                       IF p \in ps THEN "unstamped" ELSE quar[p]]

\* read_chunk_stored: the bytes are where the ledger says.
Reads(l, c, where) ==
    \/ l.loc[c] = Unresolved /\ c \in loose
    \/ /\ l.loc[c].pack \in where
       /\ l.loc[c].at \in DOMAIN l.loc[c].pack
       /\ l.loc[c].pack[l.loc[c].at] = c

-----------------------------------------------------------------------------
(* Ingest *)

put_chunk(c) ==
    /\ pc = "idle"
    /\ c \notin led.has
    /\ \/ /\ layout = "Loose"
          /\ loose' = loose \cup {c}
          /\ led' = Enter(led, {c})
          /\ UNCHANGED <<packs, openPack>>
       \/ /\ layout = "Packfiles"
          /\ LET p == Append(openPack, c)
             IN  IF Len(p) >= PackSize          \* full: roll over
                 THEN /\ packs' = Seal({p})
                      /\ led' = Flush(Enter(led, {c}), p)
                      /\ openPack' = <<>>
                 ELSE /\ openPack' = p
                      /\ led' = Enter(led, {c})
                      /\ UNCHANGED packs
          /\ UNCHANGED loose
    /\ UNCHANGED <<layout, dur, quar, pc, batch, grace, victims, clash>>

\* The ledger and the packs once flush_packs has closed the open pack.
Flushed == IF openPack = <<>> THEN led ELSE Flush(led, openPack)
ClosePack ==
    /\ openPack' = <<>>
    /\ packs' = IF openPack = <<>> THEN packs ELSE Seal({openPack})

flush_packs ==
    /\ pc = "idle" /\ openPack # <<>>
    /\ led' = Flushed
    /\ ClosePack
    /\ UNCHANGED <<layout, dur, loose, quar, pc, batch, grace, victims, clash>>

begin_publish_batch ==
    /\ pc = "idle" /\ batch = "none"
    /\ batch' = "empty"
    /\ UNCHANGED <<disk, pc, led, openPack, grace, victims, clash>>

\* Outside a batch the pack is closed first and the ledger saved; inside one
\* only the ledger in memory changes.  Every chunk must have an entry.
publish_asset(a, cs) ==
    /\ pc = "idle"
    /\ \/ /\ batch = "none"
          /\ cs \subseteq Flushed.has
          /\ led' = Reference(Flushed, a, cs)
          /\ ClosePack
          /\ pc' = "save"
          /\ UNCHANGED batch
       \/ /\ batch # "none"
          /\ cs \subseteq led.has
          /\ led' = Reference(led, a, cs)
          /\ batch' = "queued"
          /\ UNCHANGED <<layout, packs, openPack, pc>>
    /\ UNCHANGED <<layout, dur, loose, quar, grace, victims, clash>>

commit_publish_batch ==
    /\ pc = "idle" /\ batch # "none"
    /\ led' = Flushed
    /\ ClosePack
    /\ pc' = IF batch = "queued" \/ openPack # <<>> THEN "save" ELSE "idle"
    /\ batch' = "none"
    /\ UNCHANGED <<layout, dur, loose, quar, grace, victims, clash>>

save_index ==
    /\ pc = "save"
    /\ dur' = led
    /\ pc' = "idle"
    /\ UNCHANGED <<layout, loose, packs, quar, mem, clash>>

-----------------------------------------------------------------------------
(* Maintenance *)

Called(op) ==
    /\ op \in Maintenance
    /\ pc = "idle"
    /\ (batch # "none" \/ openPack # <<>>) => layout \in WhileIngesting

unpublish_asset(a) ==
    /\ Called("unpublish")
    /\ led.assets[a] # {}
    /\ led' = Reference(led, a, {})
    /\ pc' = "save"
    /\ UNCHANGED <<disk, openPack, batch, grace, victims, clash>>

\* gc: forget the chunks nobody has referenced for the grace period.
Doomed(g) == {c \in led.has : led.refs[c] = 0 /\ (g = 0 \/ c \in led.old)}
gc_chunks(g) ==
    /\ Called("gc")
    /\ led' = Forget(led, Doomed(g))
    /\ loose' = loose \ {c \in Doomed(g) : led.loc[c] = Unresolved}
    /\ grace' = g
    /\ victims' = {led.loc[c].pack : c \in Doomed(g)} \ {<<>>}
    /\ pc' = "quarantine"
    /\ UNCHANGED <<layout, dur, packs, quar, openPack, batch, clash>>

\* Mutant: the packs are not checked for chunks that are still alive.
gc_quarantine_unchecked ==
    /\ pc = "quarantine"
    /\ Quarantine(victims)
    /\ victims' = {}
    /\ pc' = "orphans"
    /\ UNCHANGED <<layout, dur, loose, led, openPack, batch, grace, clash>>

\* gc: quarantine the packs they were in, where nothing else lives.
gc_quarantine ==
    /\ pc = "quarantine"
    /\ Quarantine(victims \ live_pack_set(led))
    /\ victims' = {}
    /\ pc' = "orphans"
    /\ UNCHANGED <<layout, dur, loose, led, openPack, batch, grace, clash>>

\* Mutant: the packs that no entry was in are not looked for.
quarantine_orphan_packs_skipped ==
    /\ pc = "orphans"
    /\ pc' = "sweep"
    /\ UNCHANGED <<disk, mem, clash>>

\* quarantine_orphan_packs
quarantine_orphan_packs ==
    /\ pc = "orphans"
    /\ Quarantine({p \in DOMAIN packs \ live_pack_set(led) : grace = 0 \/ packs[p] = "old"})
    /\ pc' = "sweep"
    /\ UNCHANGED <<layout, dur, loose, mem, clash>>

\* sweep_quarantine: restore what is live, stamp what has no stamp, delete
\* what has been there for the quarantine period.
sweep_quarantine ==
    LET back == DOMAIN quar \cap live_pack_set(led)
        gone == {p \in DOMAIN quar \ back : quar[p] # "unstamped" /\ (grace = 0 \/ quar[p] = "old")}
        left == LeftBehind(back)
    IN  /\ pc = "sweep"
        /\ packs' = Restored(back)
        /\ quar' = [p \in DOMAIN left \ gone |->
                      IF p \notin back /\ left[p] = "unstamped" THEN "young" ELSE left[p]]
        /\ pc' = "save" /\ grace' = 0
        /\ UNCHANGED <<layout, dur, loose, led, openPack, batch, victims, clash>>

\* repack_run_with, one group: the live chunks of the packs in order, ...
LiveSlots(order) ==
    {s \in UNION {{i} \X DOMAIN order[i] : i \in DOMAIN order} :
        LET c == order[s[1]][s[2]]
        IN  c \in led.has /\ led.loc[c] = [pack |-> order[s[1]], at |-> s[2]]}
Earlier(s, t) == s[1] < t[1] \/ (s[1] = t[1] /\ s[2] < t[2])
Moved(order) ==
    LET live  == LiveSlots(order)
        slots == SortedBy(live, {p \in live \X live : Earlier(p[1], p[2])})
    IN  [k \in DOMAIN slots |-> order[slots[k][1]][slots[k][2]]]

\* ... cut into packs of the preferred size.
PacksOf(m) == {SubSeq(m, k, Min({k + PackSize - 1, Len(m)})) :
                  k \in {i \in DOMAIN m : (i - 1) % PackSize = 0}}

\* repack_plan: merge two packs or more, or compact one with dead bytes.
Worthwhile(order) ==
    Len(order) > 1 \/ Cardinality(LiveSlots(order)) < Len(order[1])

\* repack_run closes the open pack first, which flush_packs is; each group of
\* the plan is one repack_copy.
repack_copy(order) ==
    LET moved == Moved(order)
        new   == PacksOf(moved)
        home  == [c \in PackChunks(moved) |->
                    LastSlot(CHOOSE p \in new : c \in PackChunks(p), c)]
    IN  /\ Called("repack") /\ openPack = <<>>
        /\ Worthwhile(order)
        /\ \A c \in PackChunks(moved) : Reads(led, c, DOMAIN packs)
        /\ packs' = Seal(new)
        /\ led' = Relocate(led, PackChunks(moved), home)
        /\ victims' = PackChunks(order)
        /\ clash' = (clash \/ new \cap PackChunks(order) # {})
        /\ pc' = "repack_save"
        /\ UNCHANGED <<layout, dur, loose, quar, openPack, batch, grace>>

\* Mutant: the new places are left for a later operation to save.
repack_save_forgotten ==
    /\ pc = "repack_save"
    /\ pc' = "repack_quarantine"
    /\ UNCHANGED <<disk, mem, clash>>

repack_save ==
    /\ pc = "repack_save"
    /\ dur' = led
    /\ pc' = "repack_quarantine"
    /\ UNCHANGED <<layout, loose, packs, quar, mem, clash>>

\* The packs of the group go to quarantine one after the other.
repack_quarantine ==
    /\ pc = "repack_quarantine"
    /\ \E p \in victims :
         /\ Quarantine({p})
         /\ victims' = victims \ {p}
         /\ pc' = IF victims = {p} THEN "idle" ELSE pc
    /\ UNCHANGED <<layout, dur, loose, led, openPack, batch, grace, clash>>

-----------------------------------------------------------------------------
(* The process ends and the store is opened again.                         *)

Ends ==
    /\ pc' = "down"
    /\ led' = EmptyLedger /\ openPack' = <<>> /\ batch' = "none"
    /\ grace' = 0 /\ victims' = {}

dies == pc # "down" /\ Ends /\ UNCHANGED <<disk, clash>>

\* It dies inside quarantine_pack: a pack is moved and not yet stamped.
dies_quarantining ==
    /\ pc \in {"quarantine", "repack_quarantine"}
    /\ \E p \in (victims \cap DOMAIN packs) \
                (IF pc = "quarantine" THEN live_pack_set(led) ELSE {}) :
         /\ packs' = [q \in DOMAIN packs \ {p} |-> packs[q]]
         /\ quar' = [q \in DOMAIN quar \cup {p} |->
                        IF q = p /\ p \notin DOMAIN quar THEN "unstamped" ELSE quar[q]]
    /\ Ends
    /\ UNCHANGED <<layout, dur, loose, clash>>

\* Mutant: the quarantine is not looked at.
open_inner_without_restore ==
    /\ pc = "down"
    /\ led' = dur
    /\ pc' = "idle"
    /\ clash' = FALSE
    /\ UNCHANGED <<disk, openPack, batch, grace, victims>>

\* open_inner: the ledger as saved; restore_quarantined_packs.  The open
\* pack's .part file is swept.
open_inner ==
    LET back == DOMAIN quar \cap live_pack_set(dur)
    IN  /\ pc = "down"
        /\ led' = dur
        /\ packs' = Restored(back)
        /\ quar' = LeftBehind(back)
        /\ pc' = "idle"
        /\ clash' = FALSE
        /\ UNCHANGED <<layout, dur, loose, openPack, batch, grace, victims>>

\* The grace period passes.  No operation runs that long.
Aged(l) == Ledger(l.has, l.refs, {c \in l.has : l.refs[c] = 0}, l.loc, l.assets)
Tick ==
    /\ pc \in {"idle", "down"}
    /\ led' = Aged(led) /\ dur' = Aged(dur)
    /\ packs' = [p \in DOMAIN packs |-> "old"]
    /\ quar' = [p \in DOMAIN quar |-> IF quar[p] = "unstamped" THEN quar[p] ELSE "old"]
    /\ UNCHANGED <<layout, loose, pc, openPack, batch, grace, victims, clash>>

-----------------------------------------------------------------------------
Init ==
    /\ layout \in Layouts
    /\ dur = EmptyLedger /\ loose = {} /\ packs = <<>> /\ quar = <<>>
    /\ pc = "down" /\ led = EmptyLedger /\ openPack = <<>> /\ batch = "none"
    /\ grace = 0 /\ victims = {} /\ clash = FALSE

Ingest ==
    \/ \E c \in Chunks : put_chunk(c)
    \/ flush_packs
    \/ begin_publish_batch
    \/ \E a \in Assets, cs \in (SUBSET Chunks) \ {{}} : publish_asset(a, cs)
    \/ commit_publish_batch
    \/ save_index

gc == (\E g \in Graces[layout] : gc_chunks(g)) \/ gc_quarantine \/ quarantine_orphan_packs \/ sweep_quarantine

repack ==
    \/ \E group \in (SUBSET live_pack_set(led)) \ {{}} :
         \E order \in SetToSeqs(group) : repack_copy(order)
    \/ repack_save
    \/ repack_quarantine

Next ==
    \/ Ingest
    \/ \E a \in Assets : unpublish_asset(a)
    \/ gc
    \/ repack
    \/ open_inner
    \/ dies \/ dies_quarantining
    \/ Tick

Spec == Init /\ [][Next]_vars

-----------------------------------------------------------------------------
(* Properties *)

Ages == {"young", "old"}

\* The values the variables take.
TypeOK ==
    /\ layout \in Layouts
    /\ dur \in Ledgers /\ led \in Ledgers
    /\ loose \subseteq Chunks
    /\ DOMAIN packs \subseteq PackIds /\ \A p \in DOMAIN packs : packs[p] \in Ages
    /\ DOMAIN quar \subseteq PackIds
    /\ \A p \in DOMAIN quar : quar[p] \in Ages \cup {"unstamped"}
    /\ openPack \in PackIds
    /\ batch \in {"none", "empty", "queued"}
    /\ grace \in {0, 1}
    /\ victims \subseteq PackIds /\ clash \in BOOLEAN
    /\ pc \in {"down", "idle", "save", "quarantine", "orphans", "sweep",
               "repack_save", "repack_quarantine"}

\* A ledger counts exactly the assets that reference each chunk, and has an
\* entry for every chunk an asset references.
Counted(l) ==
    /\ \A c \in Chunks : l.refs[c] = Cardinality({a \in Assets : c \in l.assets[a]})
    /\ \A a \in Assets : l.assets[a] \subseteq l.has

\* "Refcounts are adjusted so the chunk ledger reflects exactly the
\* currently-published assets" (publish_asset), in memory and on the disk,
\* through replacement, unpublish, gc, batches and crashes.
RefcountsExact == Counted(led) /\ Counted(dur)

\* Whatever point a crash strikes, every chunk the saved ledger has an entry
\* for can be read once the next open has restored the quarantine - also the
\* ones no asset references, since put_chunk skips what has an entry.  This is
\* what the quarantine is for; in the loose layout gc deletes the files of the
\* chunks it forgets before it saves the ledger, and it does not hold.
LedgerBacked ==
    layout = "Packfiles" =>
        \A c \in dur.has : Reads(dur, c, DOMAIN packs \cup DOMAIN quar)

\* With packs, between operations, every chunk the open store has an entry for
\* can be read where the entry says, unless it still sits in the open pack -
\* until a repack produces one of the packs it replaces (packs are named by
\* content).
EntriesRead ==
    layout = "Packfiles" /\ pc = "idle" /\ ~clash => \A c \in led.has :
        Reads(led, c, DOMAIN packs) \/ c \in PackChunks(openPack)

\* A chunk of a published asset can be read at every moment of a collection
\* or a repack, not only between operations: "Reads keep working throughout:
\* old packs stay in place until the ledger no longer references them"
\* (repack_run).
ReadsKeepWorking ==
    pc # "down" /\ openPack = <<>> => \A a \in Assets : \A c \in led.assets[a] :
        Reads(led, c, DOMAIN packs)

\* With packs, it holds until a repack produces one of the packs it replaces.
PublishedReadThroughout == layout = "Packfiles" /\ ~clash => ReadsKeepWorking

\* A gc that completes leaves no pack in the live tree that no entry points
\* into, whatever crashes left behind before it, except packs younger than its
\* grace period: quarantine_orphan_packs after gc's own quarantine.
GcReclaims ==
    [][pc = "sweep" /\ pc' = "save" =>
         \A p \in DOMAIN packs' \ live_pack_set(led) : grace = 1 /\ packs[p] = "young"]_vars
=============================================================================
