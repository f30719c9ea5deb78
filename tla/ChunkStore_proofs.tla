------------------------- MODULE ChunkStore_proofs -------------------------
(***************************************************************************)
(* Proofs about ChunkStore, for any sets of chunks and assets (the latter  *)
(* finite), any layout, pack size and grace, and every mix of ingest,      *)
(* maintenance and crashes.                                                *)
(***************************************************************************)
EXTENDS ChunkStore, Orders_proofs, SequenceTheorems

\* The part of a ledger's type that reference counting rests on.
Account(l) ==
    /\ l.has \subseteq Chunks
    /\ l.refs \in [Chunks -> Nat]
    /\ l.assets \in [Assets -> SUBSET Chunks]

Good(l) == Account(l) /\ Counted(l)

\* The invariant that is inductive: both ledgers are good, and what the open
\* pack will enter into the ledger are chunks.
RefInv == Good(led) /\ Good(dur) /\ openPack \in PackIds

Holders(l, c) == {a \in Assets : c \in l.assets[a]}

-----------------------------------------------------------------------------
(* The ledger operations keep a ledger good.                               *)

\* Referring assets are finitely many, so a count of zero means none.
LEMMA HoldersFinite ==
  ASSUME NEW l, NEW c
  PROVE  /\ IsFiniteSet(Holders(l, c))
         /\ Cardinality(Holders(l, c)) \in Nat
         /\ Cardinality(Holders(l, c)) = 0 <=> Holders(l, c) = {}
<1>1. Holders(l, c) \subseteq Assets
  BY DEF Holders
<1>2. IsFiniteSet(Assets)
  BY ChunkStoreAssumption
<1>3. IsFiniteSet(Holders(l, c))
  BY <1>1, <1>2, FS_Subset
<1>4. QED
  BY <1>3, FS_CardinalityType, FS_EmptySet

\* Counting looks at the entries, the counts and the assets only.
LEMMA LedgerFields ==
  ASSUME NEW h, NEW r, NEW o, NEW f, NEW s
  PROVE  /\ Ledger(h, r, o, f, s).has = h
         /\ Ledger(h, r, o, f, s).refs = r
         /\ Ledger(h, r, o, f, s).assets = s
BY DEF Ledger

\* The empty ledger of a new store.
LEMMA EmptyGood == Good(EmptyLedger)
<1>1. /\ EmptyLedger.has = {}
      /\ EmptyLedger.refs = [c \in Chunks |-> 0]
      /\ EmptyLedger.assets = [a \in Assets |-> {}]
  BY LedgerFields DEF EmptyLedger
<1>2. Account(EmptyLedger)
  BY <1>1 DEF Account
<1>3. \A c \in Chunks : {a \in Assets : c \in EmptyLedger.assets[a]} = {}
  BY <1>1
<1>4. Counted(EmptyLedger)
  BY <1>1, <1>3, FS_EmptySet DEF Counted
<1>5. QED
  BY <1>2, <1>4 DEF Good

\* New entries, and new places and ages of chunks, change no count.
LEMMA GrowGood ==
  ASSUME NEW l, Good(l), NEW h \in SUBSET Chunks, l.has \subseteq h, NEW o, NEW f
  PROVE  Good(Ledger(h, l.refs, o, f, l.assets))
BY LedgerFields DEF Good, Account, Counted

\* chunk_insert
LEMMA EnterGood ==
  ASSUME NEW l, Good(l), NEW cs \in SUBSET Chunks
  PROVE  Good(Enter(l, cs))
BY GrowGood DEF Enter, Good, Account

\* flush_packs
LEMMA FlushGood ==
  ASSUME NEW l, Good(l), NEW p \in PackIds
  PROVE  Good(Flush(l, p))
<1> DEFINE fresh == Enter(l, PackChunks(p) \ l.has)
<1>1. PackChunks(p) \subseteq Chunks
  BY DEF PackChunks, PackIds
<1>2. Good(fresh)
  BY <1>1, EnterGood
<1>3. fresh.has \in SUBSET Chunks
  BY <1>2 DEF Good, Account
<1>4. QED
  BY <1>2, <1>3, GrowGood DEF Flush, Relocate

\* The passing of time.
LEMMA AgedGood ==
  ASSUME NEW l, Good(l)
  PROVE  Good(Aged(l))
BY GrowGood DEF Aged, Good, Account

\* chunk_remove, of chunks whose count is zero: nobody refers to them.
LEMMA ForgetGood ==
  ASSUME NEW l, Good(l), NEW cs \in SUBSET Chunks, \A c \in cs : l.refs[c] = 0
  PROVE  Good(Forget(l, cs))
<1> DEFINE m == Forget(l, cs)
<1>1. m.assets = l.assets /\ m.has = l.has \ cs
        /\ m.refs = [c \in Chunks |-> IF c \in cs THEN 0 ELSE l.refs[c]]
  BY LedgerFields DEF Forget
<1> HIDE DEF m
<1>2. Account(m)
  BY <1>1 DEF Good, Account
<1>3. \A c \in Chunks : m.refs[c] = l.refs[c]
  BY <1>1
<1>4. \A c \in cs, a \in Assets : c \notin l.assets[a]
  <2>1. SUFFICES ASSUME NEW c \in cs PROVE Holders(l, c) = {}
    BY DEF Holders
  <2>2. Cardinality(Holders(l, c)) = 0
    BY DEF Good, Counted, Holders
  <2>3. QED
    BY <2>2, HoldersFinite
<1>5. Counted(m)
  <2>1. \A a \in Assets : m.assets[a] \subseteq m.has
    BY <1>1, <1>4 DEF Good, Counted
  <2>2. \A c \in Chunks : m.refs[c] = Cardinality({a \in Assets : c \in m.assets[a]})
    BY <1>1, <1>3 DEF Good, Counted
  <2>3. QED
    BY <2>1, <2>2 DEF Counted
<1>6. QED
  BY <1>2, <1>5 DEF Good, m

\* publish_asset and unpublish_asset: the counts follow the references of one
\* asset from the chunks it had to the chunks it has now.
LEMMA ReferenceGood ==
  ASSUME NEW l, Good(l), NEW a \in Assets, NEW cs \in SUBSET l.has
  PROVE  Good(Reference(l, a, cs))
<1> DEFINE m == Reference(l, a, cs)
           less(c) == IF c \in l.assets[a] \cap l.has THEN Decrement(l.refs[c]) ELSE l.refs[c]
<1>1. /\ m.has = l.has
      /\ m.refs = [c \in Chunks |-> IF c \in cs \cap l.has THEN less(c) + 1 ELSE less(c)]
      /\ m.assets = [l.assets EXCEPT ![a] = cs]
  BY LedgerFields DEF Reference
<1> HIDE DEF m
<1>2. \A c \in Chunks : less(c) \in Nat
  BY DEF Good, Account, Decrement
<1>3. Account(m)
  BY <1>1, <1>2 DEF Good, Account
<1>4. \A b \in Assets : m.assets[b] \subseteq m.has
  BY <1>1 DEF Good, Account, Counted
<1>5. ASSUME NEW c \in Chunks
      PROVE  m.refs[c] = Cardinality(Holders(m, c))
  <2> DEFINE others == {b \in Assets : b # a /\ c \in l.assets[b]}
  <2>1. IsFiniteSet(Holders(l, c)) /\ Cardinality(Holders(l, c)) \in Nat
    BY HoldersFinite
  <2>2. others = Holders(l, c) \ {a}
    BY DEF Holders
  <2>3. IsFiniteSet(others) /\ Cardinality(others) \in Nat
    <3>1. IsFiniteSet(Holders(l, c) \ {a})
      BY <2>1, FS_Subset
    <3>2. QED
      BY <2>2, <3>1, FS_CardinalityType
  <2>4. less(c) = Cardinality(others)
    <3>1. l.refs[c] = Cardinality(Holders(l, c))
      BY DEF Good, Counted, Holders
    <3>2. CASE c \in l.assets[a]
      <4>1. c \in l.has /\ a \in Holders(l, c)
        BY <3>2 DEF Good, Counted, Holders
      <4>2. Cardinality(others) = Cardinality(Holders(l, c)) - 1
        BY <4>1, <2>1, <2>2, FS_RemoveElement
      <4>3. QED
        BY <3>1, <3>2, <4>1, <4>2, <2>1, <2>3 DEF Decrement
    <3>3. CASE c \notin l.assets[a]
      <4>1. a \notin Holders(l, c)
        BY <3>3 DEF Holders
      <4>2. others = Holders(l, c)
        BY <4>1, <2>2
      <4>3. QED
        BY <3>1, <3>3, <4>2
    <3>4. QED
      BY <3>2, <3>3
  <2>5. CASE c \in cs
    <3>1. Holders(m, c) = others \cup {a}
      BY <1>1, <2>5 DEF Holders, Good, Account
    <3>2. a \notin others
      OBVIOUS
    <3>3. Cardinality(Holders(m, c)) = Cardinality(others) + 1
      BY <3>1, <3>2, <2>3, FS_AddElement
    <3>4. QED
      BY <1>1, <2>4, <2>5, <3>3
  <2>6. CASE c \notin cs
    <3>1. Holders(m, c) = others
      BY <1>1, <2>6 DEF Holders, Good, Account
    <3>2. QED
      BY <1>1, <2>4, <2>6, <3>1
  <2>7. QED
    BY <2>5, <2>6
<1>6. Counted(m)
  BY <1>4, <1>5 DEF Counted, Holders
<1>7. QED
  BY <1>3, <1>6 DEF Good, m

-----------------------------------------------------------------------------
(* The operations keep the invariant.                                      *)

\* What closing the open pack makes of the ledger.
LEMMA FlushedGood ==
  ASSUME RefInv
  PROVE  Good(Flushed)
BY FlushGood DEF RefInv, Flushed

\* A new store.
LEMMA InitRefInv ==
  ASSUME Init
  PROVE  RefInv
BY EmptyGood DEF Init, RefInv, PackIds

\* put_chunk, flush_packs and publishing.
LEMMA IngestKeeps ==
  ASSUME RefInv, Ingest
  PROVE  RefInv'
<1>1. <<>> \in PackIds
  BY DEF PackIds
<1>2. CASE \E c \in Chunks : put_chunk(c)
  <2>1. PICK c \in Chunks : put_chunk(c)
    BY <1>2
  <2>2. dur' = dur
    BY <2>1 DEF put_chunk
  <2>3. Good(Enter(led, {c}))
    BY EnterGood DEF RefInv
  <2>4. Append(openPack, c) \in PackIds
    BY DEF RefInv, PackIds
  <2>5. Good(Flush(Enter(led, {c}), Append(openPack, c)))
    BY <2>3, <2>4, FlushGood
  <2>6. \/ led' = Enter(led, {c}) /\ openPack' \in {openPack, Append(openPack, c)}
        \/ led' = Flush(Enter(led, {c}), Append(openPack, c)) /\ openPack' = <<>>
    BY <2>1 DEF put_chunk
  <2>7. QED
    BY <1>1, <2>2, <2>3, <2>4, <2>5, <2>6 DEF RefInv
<1>3. CASE flush_packs
  BY <1>1, <1>3, FlushedGood DEF flush_packs, ClosePack, RefInv
<1>4. CASE begin_publish_batch
  BY <1>4 DEF begin_publish_batch, disk, RefInv
<1>5. CASE \E a \in Assets, cs \in (SUBSET Chunks) \ {{}} : publish_asset(a, cs)
  <2>1. PICK a \in Assets, cs \in SUBSET Chunks : publish_asset(a, cs)
    BY <1>5
  <2>2. dur' = dur
    BY <2>1 DEF publish_asset
  <2>3. CASE batch = "none"
    <3>1. cs \subseteq Flushed.has /\ led' = Reference(Flushed, a, cs) /\ openPack' = <<>>
      BY <2>1, <2>3 DEF publish_asset, ClosePack
    <3>2. Good(Reference(Flushed, a, cs))
      BY <3>1, FlushedGood, ReferenceGood
    <3>3. QED
      BY <1>1, <2>2, <3>1, <3>2 DEF RefInv
  <2>4. CASE batch # "none"
    <3>1. cs \subseteq led.has /\ led' = Reference(led, a, cs) /\ openPack' = openPack
      BY <2>1, <2>4 DEF publish_asset
    <3>2. Good(Reference(led, a, cs))
      BY <3>1, ReferenceGood DEF RefInv
    <3>3. QED
      BY <2>2, <3>1, <3>2 DEF RefInv
  <2>5. QED
    BY <2>3, <2>4
<1>6. CASE commit_publish_batch
  BY <1>1, <1>6, FlushedGood DEF commit_publish_batch, ClosePack, RefInv
<1>7. CASE save_index
  BY <1>7 DEF save_index, mem, RefInv
<1>8. QED
  BY <1>2, <1>3, <1>4, <1>5, <1>6, <1>7 DEF Ingest

\* A collection forgets only chunks whose count is zero.
LEMMA GcKeeps ==
  ASSUME RefInv, gc
  PROVE  RefInv'
<1>1. CASE \E g \in Graces[layout] : gc_chunks(g)
  <2>1. PICK g \in Graces[layout] : gc_chunks(g)
    BY <1>1
  <2>2. Doomed(g) \subseteq Chunks /\ \A c \in Doomed(g) : led.refs[c] = 0
    BY DEF Doomed, RefInv, Good, Account
  <2>3. Good(Forget(led, Doomed(g)))
    BY <2>2, ForgetGood DEF RefInv
  <2>4. QED
    BY <2>1, <2>3 DEF gc_chunks, RefInv
<1>2. CASE gc_quarantine
  BY <1>2 DEF gc_quarantine, RefInv
<1>3. CASE quarantine_orphan_packs
  BY <1>3 DEF quarantine_orphan_packs, mem, RefInv
<1>4. CASE sweep_quarantine
  BY <1>4 DEF sweep_quarantine, mem, RefInv
<1>5. QED
  BY <1>1, <1>2, <1>3, <1>4 DEF gc

\* A repack only moves chunks.
LEMMA RepackKeeps ==
  ASSUME RefInv, repack
  PROVE  RefInv'
<1>1. ASSUME NEW order, repack_copy(order)
      PROVE  RefInv'
  <2>1. dur' = dur /\ openPack' = openPack
    BY <1>1 DEF repack_copy
  <2>2. \E f : led' = Ledger(led.has, led.refs, led.old, f, led.assets)
    BY <1>1 DEF repack_copy, Relocate
  <2>3. Good(led')
    BY <2>2, GrowGood DEF RefInv, Good, Account
  <2>4. QED
    BY <2>1, <2>3 DEF RefInv
<1>2. CASE repack_save
  BY <1>2 DEF repack_save, mem, RefInv
<1>3. CASE repack_quarantine
  BY <1>3 DEF repack_quarantine, RefInv
<1>4. QED
  BY <1>1, <1>2, <1>3 DEF repack

\* Every step keeps the invariant; unpublishing takes one asset's references
\* back, a crash falls back to the saved ledger.
LEMMA StepKeeps ==
  ASSUME RefInv, [Next]_vars
  PROVE  RefInv'
<1>1. CASE Ingest
  BY <1>1, IngestKeeps
<1>2. CASE \E a \in Assets : unpublish_asset(a)
  <2>1. PICK a \in Assets : unpublish_asset(a)
    BY <1>2
  <2>2. Good(Reference(led, a, {}))
    BY ReferenceGood DEF RefInv
  <2>3. QED
    BY <2>1, <2>2 DEF unpublish_asset, disk, RefInv
<1>3. CASE gc
  BY <1>3, GcKeeps
<1>4. CASE repack
  BY <1>4, RepackKeeps
<1>5. CASE open_inner
  BY <1>5 DEF open_inner, RefInv
<1>6. CASE dies \/ dies_quarantining
  <2>1. led' = EmptyLedger /\ openPack' = <<>> /\ dur' = dur
    BY <1>6 DEF dies, dies_quarantining, Ends, disk
  <2>2. QED
    BY <2>1, EmptyGood DEF RefInv, PackIds
<1>7. CASE Tick
  <2>1. Good(Aged(led)) /\ Good(Aged(dur))
    BY AgedGood DEF RefInv
  <2>2. QED
    BY <1>7, <2>1 DEF Tick, RefInv
<1>8. CASE UNCHANGED vars
  BY <1>8 DEF vars, disk, mem, RefInv
<1>9. QED
  BY <1>1, <1>2, <1>3, <1>4, <1>5, <1>6, <1>7, <1>8 DEF Next

\* publish_asset, unpublish_asset, gc, repack and the recovery after a crash
\* keep the reference counts of the ledger in memory, and of the one on disk,
\* equal to the number of published assets that use each chunk.
THEOREM RefcountsAlwaysExact == Spec => []RefcountsExact
<1>1. Init => RefInv
  BY InitRefInv
<1>2. RefInv /\ [Next]_vars => RefInv'
  BY StepKeeps
<1>3. RefInv => RefcountsExact
  BY DEF RefInv, Good, RefcountsExact
<1>4. QED
  BY <1>1, <1>2, <1>3, PTL DEF Spec

-----------------------------------------------------------------------------
(* Types: what the operations make of a ledger is a ledger.                *)

\* What the type of a ledger says of its fields.
LEMMA LedgerParts ==
  ASSUME NEW l \in Ledgers
  PROVE  /\ l.has \in SUBSET Chunks /\ l.refs \in [Chunks -> Nat] /\ l.old \in SUBSET Chunks
         /\ l.loc \in [Chunks -> Locations] /\ l.assets \in [Assets -> SUBSET Chunks]
  BY DEF Ledgers

\* Fields of their types make a ledger.
LEMMA MakeLedger ==
  ASSUME NEW h \in SUBSET Chunks, NEW r \in [Chunks -> Nat], NEW o \in SUBSET Chunks,
         NEW f \in [Chunks -> Locations], NEW s \in [Assets -> SUBSET Chunks]
  PROVE  Ledger(h, r, o, f, s) \in Ledgers
  BY DEF Ledger, Ledgers

\* The locations of a ledger that is put together.
LEMMA LocField ==
  ASSUME NEW h, NEW r, NEW o, NEW f, NEW s
  PROVE  Ledger(h, r, o, f, s).loc = f
  BY DEF Ledger

\* The unresolved location is a location.
LEMMA UnresolvedTyped == <<>> \in PackIds /\ Unresolved \in Locations
<1>1. <<>> \in Seq(Chunks)
  OBVIOUS
<1>2. QED
  BY <1>1 DEF Unresolved, Locations, PackIds

\* The ledger of a new store is a ledger.
LEMMA EmptyTyped == EmptyLedger \in Ledgers
  BY MakeLedger, UnresolvedTyped DEF EmptyLedger

\* put_chunk_bytes leaves a ledger.
LEMMA EnterTyped ==
  ASSUME NEW l \in Ledgers, NEW cs \in SUBSET Chunks
  PROVE  Enter(l, cs) \in Ledgers
  BY MakeLedger, LedgerParts DEF Enter

\* Dropping entries leaves a ledger.
LEMMA ForgetTyped ==
  ASSUME NEW l \in Ledgers, NEW cs
  PROVE  Forget(l, cs) \in Ledgers
<1>1. [c \in Chunks |-> IF c \in cs THEN 0 ELSE l.refs[c]] \in [Chunks -> Nat]
  BY LedgerParts
<1>2. [c \in Chunks |-> IF c \in cs THEN Unresolved ELSE l.loc[c]] \in [Chunks -> Locations]
  BY LedgerParts, UnresolvedTyped
<1>3. QED
  BY <1>1, <1>2, MakeLedger, LedgerParts DEF Forget

\* Publishing an asset leaves a ledger.
LEMMA ReferenceTyped ==
  ASSUME NEW l \in Ledgers, NEW a \in Assets, NEW cs \in SUBSET Chunks
  PROVE  Reference(l, a, cs) \in Ledgers
<1> DEFINE less(c) == IF c \in l.assets[a] \cap l.has THEN Decrement(l.refs[c]) ELSE l.refs[c]
           refs == [c \in Chunks |-> IF c \in cs \cap l.has THEN less(c) + 1 ELSE less(c)]
           old == l.old \ (cs \cup {c \in l.assets[a] : less(c) = 0})
           assets == [l.assets EXCEPT ![a] = cs]
<1>1. \A c \in Chunks : l.refs[c] \in Nat
  BY LedgerParts
<1>2. \A c \in Chunks : less(c) \in Nat
  BY <1>1 DEF Decrement
<1>3. refs \in [Chunks -> Nat]
  <2> HIDE DEF less
  <2>1. QED
    BY <1>2
<1>4. old \in SUBSET Chunks /\ assets \in [Assets -> SUBSET Chunks]
  BY LedgerParts
<1>5. Reference(l, a, cs) = Ledger(l.has, refs, old, l.loc, assets)
  BY DEF Reference
<1> HIDE DEF refs, old, assets
<1>6. QED
  BY <1>3, <1>4, <1>5, MakeLedger, LedgerParts

\* Moving entries to new places leaves a ledger.
LEMMA RelocateTyped ==
  ASSUME NEW l \in Ledgers, NEW cs, NEW place, \A c \in cs : place[c] \in Locations
  PROVE  Relocate(l, cs, place) \in Ledgers
<1>1. [c \in Chunks |-> IF c \in cs THEN place[c] ELSE l.loc[c]] \in [Chunks -> Locations]
  BY LedgerParts
<1>2. QED
  BY <1>1, MakeLedger, LedgerParts DEF Relocate

\* The ledger is a ledger when time has passed.
LEMMA AgedTyped ==
  ASSUME NEW l \in Ledgers
  PROVE  Aged(l) \in Ledgers
<1>1. {c \in l.has : l.refs[c] = 0} \in SUBSET Chunks
  BY LedgerParts
<1>2. QED
  BY <1>1, MakeLedger, LedgerParts DEF Aged

\* The place flush_packs gives a chunk of a pack is one where it is.
LEMMA LastSlotHolds ==
  ASSUME NEW p \in PackIds, NEW c \in PackChunks(p)
  PROVE  /\ LastSlot(p, c) \in Locations /\ LastSlot(p, c).pack = p
         /\ LastSlot(p, c).at \in DOMAIN p /\ p[LastSlot(p, c).at] = c
<1> DEFINE S == {i \in DOMAIN p : p[i] = c}
<1>1. Len(p) \in Nat /\ DOMAIN p = 1..Len(p)
  BY DEF PackIds
<1>2. S \subseteq 0..Len(p) /\ S # {}
  <2>1. S # {}
    BY DEF PackChunks
  <2>2. QED
    BY <1>1, <2>1
<1>3. Max(S) \in S /\ \A i \in S : Max(S) >= i
  <2> HIDE DEF S
  <2>1. QED
    BY <1>1, <1>2, MaxOf
<1>4. \E i \in DOMAIN p : p[i] = c /\ \A j \in DOMAIN p : p[j] = c => j <= i
  <2>1. Max(S) \in DOMAIN p /\ p[Max(S)] = c
    BY <1>3
  <2>2. \A j \in DOMAIN p : p[j] = c => j <= Max(S)
    <3>1. \A j \in DOMAIN p : p[j] = c => Max(S) >= j
      BY <1>3
    <3>2. Max(S) \in Nat
      BY <1>1, <2>1
    <3> HIDE DEF S
    <3>3. QED
      BY <1>1, <3>1, <3>2
  <2>3. QED
    BY <2>1, <2>2
<1> DEFINE at == CHOOSE i \in DOMAIN p : p[i] = c /\ \A j \in DOMAIN p : p[j] = c => j <= i
<1>5. at \in DOMAIN p /\ p[at] = c
  BY <1>4
<1>6. LastSlot(p, c) = [pack |-> p, at |-> at]
  BY DEF LastSlot
<1> HIDE DEF at, S
<1>7. at \in Nat
  BY <1>1, <1>5
<1>8. QED
  BY <1>5, <1>6, <1>7 DEF Locations

\* Flushing the open pack leaves a ledger.
LEMMA FlushTyped ==
  ASSUME NEW l \in Ledgers, NEW p \in PackIds
  PROVE  Flush(l, p) \in Ledgers
<1> DEFINE place == [c \in PackChunks(p) |-> LastSlot(p, c)]
           fresh == Enter(l, PackChunks(p) \ l.has)
<1>1. PackChunks(p) \in SUBSET Chunks
  BY DEF PackChunks, PackIds
<1>2. fresh \in Ledgers
  BY <1>1, EnterTyped
<1>3. \A c \in PackChunks(p) : place[c] \in Locations
  BY LastSlotHolds
<1>4. Flush(l, p) = Relocate(fresh, PackChunks(p), place)
  BY DEF Flush
<1> HIDE DEF place, fresh
<1>5. QED
  BY <1>2, <1>3, <1>4, RelocateTyped

\* The packs a ledger names are finitely many, and none is empty.
LEMMA LivePacksTyped ==
  ASSUME NEW l \in Ledgers
  PROVE  /\ live_pack_set(l) \subseteq PackIds
         /\ IsFiniteSet(live_pack_set(l))
         /\ <<>> \notin live_pack_set(l)
<1>1. live_pack_set(l) \subseteq PackIds /\ <<>> \notin live_pack_set(l)
  BY LedgerParts DEF live_pack_set, Locations
<1>2. IsFiniteSet(l.has)
  BY LedgerParts, ChunkStoreAssumption, FS_Subset
<1> DEFINE f == [c \in l.has |-> l.loc[c].pack]
           S == {l.loc[c].pack : c \in l.has}
<1>3. f \in Surjection(l.has, S)
  BY DEF Surjection
<1>4. IsFiniteSet(S)
  BY <1>2, <1>3, FS_Surjection
<1>5. live_pack_set(l) \subseteq S
  BY DEF live_pack_set
<1>6. QED
  BY <1>1, <1>4, <1>5, FS_Subset

-----------------------------------------------------------------------------
(* What a repack copies, and into which packs.                             *)

\* The entry of c says where c is.
Placed(l, c) == l.loc[c].at \in DOMAIN l.loc[c].pack /\ l.loc[c].pack[l.loc[c].at] = c

\* The chunks a repack moves are entries, and all those placed in its packs.
LEMMA MovedLists ==
  ASSUME led \in Ledgers, NEW group \in SUBSET live_pack_set(led), NEW order \in SetToSeqs(group)
  PROVE  /\ Moved(order) \in Seq(Chunks)
         /\ PackChunks(order) \subseteq PackIds
         /\ PackChunks(Moved(order)) \subseteq led.has
         /\ \A c \in led.has : led.loc[c].pack \in PackChunks(order) /\ Placed(led, c) =>
               c \in PackChunks(Moved(order))
<1> DEFINE n == Cardinality(group)
           live == LiveSlots(order)
           before == {p \in live \X live : Earlier(p[1], p[2])}
           slots == SortedBy(live, before)
<1>1. group \subseteq PackIds /\ IsFiniteSet(group) /\ n \in Nat
  BY LivePacksTyped, FS_Subset, FS_CardinalityType
<1>2. /\ order \in [1..n -> group] /\ DOMAIN order = 1..n
      /\ \A i, j \in 1..n : order[i] = order[j] => i = j
  BY DEF SetToSeqs
<1> HIDE DEF n
<1>3. ASSUME NEW s \in live
      PROVE  /\ s[1] \in 1..n /\ s[2] \in DOMAIN order[s[1]] /\ s[1] \in Nat /\ s[2] \in Nat
             /\ s = <<s[1], s[2]>>
             /\ order[s[1]][s[2]] \in led.has
             /\ led.loc[order[s[1]][s[2]]] = [pack |-> order[s[1]], at |-> s[2]]
  <2>1. PICK i \in DOMAIN order : s \in {i} \X DOMAIN order[i]
    BY DEF LiveSlots
  <2>2. s[1] = i /\ s[2] \in DOMAIN order[i] /\ s = <<s[1], s[2]>>
    BY <2>1
  <2>3. order[i] \in Seq(Chunks)
    BY <1>1, <1>2 DEF PackIds
  <2>4. s[2] \in Nat /\ i \in Nat
    <3>1. DOMAIN order[i] \subseteq Nat
      BY <2>3
    <3>2. QED
      BY <1>1, <1>2, <2>2, <3>1
  <2>5. QED
    BY <1>2, <2>2, <2>4 DEF LiveSlots
<1>4. \A c \in led.has : \A i \in 1..n : led.loc[c].pack = order[i] /\ Placed(led, c) =>
         <<i, led.loc[c].at>> \in live /\ order[i][led.loc[c].at] = c
  <2> SUFFICES ASSUME NEW c \in led.has, NEW i \in 1..n, led.loc[c].pack = order[i], Placed(led, c)
               PROVE  <<i, led.loc[c].at>> \in live /\ order[i][led.loc[c].at] = c
    OBVIOUS
  <2> DEFINE at == led.loc[c].at
  <2>1. led.loc[c] \in Locations
    BY LedgerParts
  <2>2. led.loc[c] = [pack |-> order[i], at |-> at]
    BY <2>1 DEF Locations
  <2>3. at \in DOMAIN order[i] /\ order[i][at] = c
    BY DEF Placed
  <2> HIDE DEF at
  <2>4. <<i, at>> \in UNION {{k} \X DOMAIN order[k] : k \in DOMAIN order}
    BY <1>2, <2>3
  <2>5. <<i, at>>[1] = i /\ <<i, at>>[2] = at
    OBVIOUS
  <2>6. <<i, at>> \in live
    BY <2>2, <2>3, <2>4, <2>5 DEF LiveSlots
  <2>7. QED
    BY <2>3, <2>6 DEF at
<1> HIDE DEF live
<1>5. IsFiniteSet(live)
  <2> DEFINE f == [s \in live |-> order[s[1]][s[2]]]
  <2>1. f \in [live -> Chunks]
    BY <1>3, LedgerParts
  <2>2. \A s, t \in live : f[s] = f[t] => s = t
    <3> SUFFICES ASSUME NEW s \in live, NEW t \in live, f[s] = f[t]
                 PROVE  s = t
      OBVIOUS
    <3>0. /\ led.loc[f[s]] = [pack |-> order[s[1]], at |-> s[2]]
          /\ led.loc[f[t]] = [pack |-> order[t[1]], at |-> t[2]]
      BY <1>3
    <3> HIDE DEF f
    <3>1. order[s[1]] = order[t[1]] /\ s[2] = t[2]
      BY <3>0
    <3>2. s[1] = t[1]
      BY <1>2, <1>3, <3>1
    <3>3. QED
      BY <1>3, <3>1, <3>2
  <2>3. f \in Injection(live, Chunks)
    BY <2>1, <2>2 DEF Injection, IsInjective
  <2>4. QED
    BY <2>3, ChunkStoreAssumption, FS_Injection
<1>6. StrictlyOrders(before, live)
  <2>1. \A s, t \in live : <<s, t>> \in before <=> Earlier(s, t)
    OBVIOUS
  <2> HIDE DEF before
  <2>2. ASSUME NEW s \in live
        PROVE  ~Earlier(s, s)
    <3>1. s[1] \in Nat /\ s[2] \in Nat
      BY <1>3
    <3>2. QED
      BY <3>1 DEF Earlier
  <2>3. ASSUME NEW s \in live, NEW t \in live, NEW u \in live, Earlier(s, t), Earlier(t, u)
        PROVE  Earlier(s, u)
    <3>1. s[1] \in Nat /\ s[2] \in Nat /\ t[1] \in Nat /\ t[2] \in Nat /\ u[1] \in Nat /\ u[2] \in Nat
      BY <1>3
    <3>2. QED
      BY <2>3, <3>1 DEF Earlier
  <2>4. ASSUME NEW s \in live, NEW t \in live
        PROVE  s = t \/ Earlier(s, t) \/ Earlier(t, s)
    <3>1. s[1] \in Nat /\ s[2] \in Nat /\ t[1] \in Nat /\ t[2] \in Nat
      BY <1>3
    <3>2. Earlier(s, t) \/ Earlier(t, s) \/ (s[1] = t[1] /\ s[2] = t[2])
      BY <3>1 DEF Earlier
    <3>3. s = <<s[1], s[2]>> /\ t = <<t[1], t[2]>>
      BY <1>3
    <3>4. QED
      BY <3>2, <3>3
  <2>5. QED
    BY <2>1, <2>2, <2>3, <2>4 DEF StrictlyOrders
<1> HIDE DEF before
<1>7. /\ Cardinality(live) \in Nat /\ slots \in [1..Cardinality(live) -> live]
      /\ \A s \in live : \E k \in 1..Cardinality(live) : slots[k] = s
  BY <1>5, <1>6, SortedByLists
<1>8. Moved(order) = [k \in DOMAIN slots |-> order[slots[k][1]][slots[k][2]]]
  BY DEF Moved, before, live
<1> HIDE DEF slots
<1>9. ASSUME NEW k \in 1..Cardinality(live)
      PROVE  Moved(order)[k] = order[slots[k][1]][slots[k][2]] /\ Moved(order)[k] \in led.has
  <2>1. slots[k] \in live
    BY <1>7
  <2>2. Moved(order)[k] = order[slots[k][1]][slots[k][2]]
    BY <1>7, <1>8
  <2>3. QED
    BY <1>3, <2>1, <2>2
<1>10. DOMAIN Moved(order) = 1..Cardinality(live)
  BY <1>7, <1>8
<1>11. Moved(order) \in [1..Cardinality(live) -> Chunks]
  <2>1. \A k \in 1..Cardinality(live) : Moved(order)[k] \in Chunks
    BY <1>9, LedgerParts
  <2>2. QED
    BY <1>7, <1>8, <2>1
<1>12. Moved(order) \in Seq(Chunks)
  BY <1>7, <1>11
<1>13. PackChunks(Moved(order)) \subseteq led.has
  BY <1>9, <1>10 DEF PackChunks
<1>14. ASSUME NEW c \in led.has, led.loc[c].pack \in PackChunks(order), Placed(led, c)
       PROVE  c \in PackChunks(Moved(order))
  <2>1. PICK i \in 1..n : led.loc[c].pack = order[i]
    BY <1>2, <1>14 DEF PackChunks
  <2>2. <<i, led.loc[c].at>> \in live /\ order[i][led.loc[c].at] = c
    BY <1>4, <1>14, <2>1
  <2>3. PICK k \in 1..Cardinality(live) : slots[k] = <<i, led.loc[c].at>>
    BY <1>7, <2>2
  <2>4. Moved(order)[k] = c
    BY <1>9, <2>2, <2>3
  <2>5. QED
    BY <1>10, <2>4 DEF PackChunks
<1>15. PackChunks(order) \subseteq PackIds
  BY <1>1, <1>2 DEF PackChunks
<1>16. QED
  BY <1>12, <1>13, <1>14, <1>15

\* Every chunk that is copied lands in a pack.
LEMMA PacksCover ==
  ASSUME NEW m \in Seq(Chunks)
  PROVE  /\ PacksOf(m) \subseteq PackIds
         /\ \A c \in PackChunks(m) : \E p \in PacksOf(m) : c \in PackChunks(p)
<1>1. /\ Len(m) \in Nat /\ DOMAIN m = 1..Len(m) /\ PackSize \in Nat /\ PackSize > 0
      /\ \A i \in 1..Len(m) : m[i] \in Chunks
  BY ChunkStoreAssumption
<1> DEFINE end(k) == Min({k + PackSize - 1, Len(m)})
<1>2. ASSUME NEW k \in DOMAIN m
      PROVE  /\ end(k) \in Nat /\ end(k) <= Len(m) /\ k \in Nat /\ 1 <= k
             /\ end(k) = Len(m) \/ end(k) = k + PackSize - 1
  <2>1. k \in Nat /\ 1 <= k /\ k + PackSize - 1 \in Nat
    BY <1>1
  <2>2. QED
    BY <1>1, <2>1, MinOfTwo
<1> HIDE DEF end
<1>3. ASSUME NEW k \in DOMAIN m
      PROVE  /\ SubSeq(m, k, end(k)) \in Seq(Chunks)
             /\ \A i \in k..end(k) : m[i] \in PackChunks(SubSeq(m, k, end(k)))
  <2>1. \A i \in k..end(k) : i \in 1..Len(m)
    BY <1>1, <1>2
  <2>2. \A i \in k..end(k) : m[i] \in Chunks
    BY <1>1, <2>1
  <2>3. /\ SubSeq(m, k, end(k)) \in Seq(Chunks)
        /\ Len(SubSeq(m, k, end(k))) = IF k <= end(k) THEN end(k) - k + 1 ELSE 0
        /\ \A i \in 1..(end(k) - k + 1) : SubSeq(m, k, end(k))[i] = m[k + i - 1]
    <3>1. k \in Int /\ end(k) \in Int
      BY <1>2
    <3>2. QED
      BY <2>2, <3>1, SubSeqProperties
  <2>4. ASSUME NEW i \in k..end(k)
        PROVE  m[i] \in PackChunks(SubSeq(m, k, end(k)))
    <3>1. /\ i - k + 1 \in 1..(end(k) - k + 1) /\ k + (i - k + 1) - 1 = i /\ k <= end(k)
      BY <1>2, <2>4
    <3>2. SubSeq(m, k, end(k))[i - k + 1] = m[i]
      BY <2>3, <3>1
    <3>3. i - k + 1 \in DOMAIN SubSeq(m, k, end(k))
      <4>1. DOMAIN SubSeq(m, k, end(k)) = 1..Len(SubSeq(m, k, end(k)))
        BY <2>3
      <4>2. QED
        BY <2>3, <3>1, <4>1
    <3>4. QED
      BY <3>2, <3>3 DEF PackChunks
  <2>5. QED
    BY <2>3, <2>4
<1> DEFINE starts == {i \in DOMAIN m : (i - 1) % PackSize = 0}
<1>4. PacksOf(m) = {SubSeq(m, k, end(k)) : k \in starts}
  BY DEF PacksOf, end
<1>5. ASSUME NEW c \in PackChunks(m)
      PROVE  \E p \in PacksOf(m) : c \in PackChunks(p)
  <2>1. PICK i \in DOMAIN m : m[i] = c
    BY <1>5 DEF PackChunks
  <2> DEFINE r == (i - 1) % PackSize
             k == i - r
  <2>2. i \in Nat /\ 1 <= i /\ i <= Len(m)
    BY <1>1
  <2>3. r \in 0..(PackSize - 1) /\ r <= i - 1 /\ ((i - 1) - r) % PackSize = 0
    <3>1. i - 1 \in Nat
      BY <2>2
    <3>2. QED
      BY <1>1, <3>1, BlockStart
  <2>4. r <= i - 1 /\ (k - 1) % PackSize = 0
    <3> HIDE DEF r
    <3>1. k - 1 = (i - 1) - r
      BY <2>2, <2>3
    <3>2. QED
      BY <2>3, <3>1
  <2> HIDE DEF r
  <2>5. k \in DOMAIN m /\ k <= i /\ i <= k + PackSize - 1
    BY <1>1, <2>2, <2>3, <2>4
  <2> HIDE DEF k
  <2>6. k \in starts
    BY <2>4, <2>5
  <2>7. i \in k..end(k)
    BY <1>2, <2>2, <2>5
  <2>8. c \in PackChunks(SubSeq(m, k, end(k)))
    BY <1>3, <2>1, <2>5, <2>7
  <2>9. QED
    BY <1>4, <2>6, <2>8
<1>6. PacksOf(m) \subseteq PackIds
  BY <1>3, <1>4 DEF PackIds
<1>7. QED
  BY <1>5, <1>6

-----------------------------------------------------------------------------
(* Types: the packs.                                                       *)

PacksTyped(f) == DOMAIN f \subseteq PackIds /\ \A p \in DOMAIN f : f[p] \in Ages

QuarTyped(f) == DOMAIN f \subseteq PackIds /\ \A p \in DOMAIN f : f[p] \in Ages \cup {"unstamped"}

\* Sealing packs leaves the packs typed.
LEMMA SealTyped ==
  ASSUME PacksTyped(packs), NEW ps \in SUBSET PackIds
  PROVE  PacksTyped(Seal(ps)) /\ DOMAIN Seal(ps) = DOMAIN packs \cup ps
  BY DEF PacksTyped, Seal, Ages

\* Quarantining packs leaves packs and quarantine typed.
LEMMA QuarantineTyped ==
  ASSUME PacksTyped(packs), QuarTyped(quar), NEW ps, Quarantine(ps)
  PROVE  PacksTyped(packs') /\ QuarTyped(quar')
  BY DEF PacksTyped, QuarTyped, Quarantine, Ages

\* Restoring packs leaves packs and quarantine typed.
LEMMA RestoredTyped ==
  ASSUME PacksTyped(packs), QuarTyped(quar), NEW ps, ps \subseteq PackIds
  PROVE  PacksTyped(Restored(ps)) /\ QuarTyped(LeftBehind(ps))
  BY DEF PacksTyped, QuarTyped, Restored, LeftBehind, Ages

\* The ledger with the open pack flushed is a ledger.
LEMMA FlushedTyped ==
  ASSUME TypeOK
  PROVE  Flushed \in Ledgers
  BY FlushTyped DEF TypeOK, Flushed

\* Closing the open pack leaves none open.
LEMMA ClosePackTyped ==
  ASSUME TypeOK, ClosePack
  PROVE  openPack' = <<>> /\ openPack' \in PackIds /\ PacksTyped(packs')
<1>1. PacksTyped(packs) /\ openPack \in PackIds
  BY DEF TypeOK, PacksTyped
<1>2. PacksTyped(Seal({openPack}))
  BY <1>1, SealTyped
<1>3. QED
  BY <1>1, <1>2, UnresolvedTyped DEF ClosePack

\* Where a repack puts what it copies.
LEMMA RepackTyped ==
  ASSUME TypeOK, NEW group \in SUBSET live_pack_set(led), NEW order \in SetToSeqs(group), repack_copy(order)
  PROVE  /\ PacksOf(Moved(order)) \subseteq PackIds
         /\ led' \in Ledgers /\ led'.has = led.has /\ led'.assets = led.assets
         /\ \A c \in PackChunks(Moved(order)) :
               led'.loc[c].pack \in PacksOf(Moved(order)) /\ Placed(led', c)
         /\ \A c \in led.has \ PackChunks(Moved(order)) : led'.loc[c] = led.loc[c]
<1> DEFINE moved == Moved(order)
           new   == PacksOf(moved)
           chosen(c) == CHOOSE p \in new : c \in PackChunks(p)
           home  == [c \in PackChunks(moved) |-> LastSlot(chosen(c), c)]
<1>1. led \in Ledgers
  BY DEF TypeOK
<1>2. /\ moved \in Seq(Chunks) /\ PackChunks(moved) \subseteq led.has
  BY <1>1, MovedLists
<1>3. /\ new \subseteq PackIds
      /\ \A c \in PackChunks(moved) : \E p \in new : c \in PackChunks(p)
  <2> HIDE DEF moved
  <2>1. QED
    BY <1>2, PacksCover
<1>4. led' = Relocate(led, PackChunks(moved), home)
  BY DEF repack_copy
<1> HIDE DEF moved, new
<1>5. ASSUME NEW c \in PackChunks(moved)
      PROVE  /\ home[c] \in Locations /\ home[c].pack \in new
             /\ home[c].at \in DOMAIN home[c].pack /\ home[c].pack[home[c].at] = c
  <2>1. chosen(c) \in new /\ c \in PackChunks(chosen(c))
    BY <1>3
  <2>2. home[c] = LastSlot(chosen(c), c)
    OBVIOUS
  <2> HIDE DEF chosen, home
  <2>3. QED
    BY <1>3, <2>1, <2>2, LastSlotHolds
<1> HIDE DEF home
<1>6. led' \in Ledgers
  BY <1>1, <1>4, <1>5, RelocateTyped
<1>7. /\ led'.has = led.has /\ led'.assets = led.assets
      /\ led'.loc = [c \in Chunks |-> IF c \in PackChunks(moved) THEN home[c] ELSE led.loc[c]]
  BY <1>4, LedgerFields, LocField DEF Relocate
<1>8. \A c \in PackChunks(moved) : led'.loc[c] = home[c]
  BY <1>1, <1>2, <1>7, LedgerParts
<1>9. \A c \in led.has \ PackChunks(moved) : led'.loc[c] = led.loc[c]
  BY <1>1, <1>7, LedgerParts
<1>10. \A c \in PackChunks(moved) : led'.loc[c].pack \in new /\ Placed(led', c)
  BY <1>5, <1>8 DEF Placed
<1>11. QED
  BY <1>3, <1>6, <1>7, <1>9, <1>10 DEF moved, new

Points == {"down", "idle", "save", "quarantine", "orphans", "sweep", "repack_save", "repack_quarantine"}

\* TypeOK, with the packs under a name.
Parts ==
    /\ layout \in Layouts /\ dur \in Ledgers /\ led \in Ledgers /\ loose \subseteq Chunks
    /\ PacksTyped(packs) /\ QuarTyped(quar) /\ openPack \in PackIds
    /\ batch \in {"none", "empty", "queued"} /\ grace \in {0, 1}
    /\ victims \subseteq PackIds /\ clash \in BOOLEAN /\ pc \in Points

\* The type invariant by its parts, now and after a step.
LEMMA TypeOKParts ==
  /\ TypeOK <=> Parts
  /\ TypeOK' <=> Parts'
  BY DEF TypeOK, Parts, PacksTyped, QuarTyped, Points

\* Every step of an ingest keeps the types.
LEMMA IngestTyped ==
  ASSUME TypeOK, Ingest
  PROVE  TypeOK'
<1>0. Parts
  BY TypeOKParts
<1> SUFFICES Parts'
  BY TypeOKParts
<1>1. ASSUME NEW c \in Chunks, put_chunk(c)
      PROVE  Parts'
  <2> DEFINE p == Append(openPack, c)
             fresh == Enter(led, {c})
  <2>1. p \in PackIds /\ fresh \in Ledgers
    BY <1>0, EnterTyped DEF Parts, PackIds
  <2>2. Flush(fresh, p) \in Ledgers /\ PacksTyped(Seal({p}))
    BY <1>0, <2>1, FlushTyped, SealTyped DEF Parts
  <2>3. /\ UNCHANGED <<layout, dur, quar, pc, batch, grace, victims, clash>>
        /\ loose' \in {loose, loose \cup {c}}
        /\ led' \in {fresh, Flush(fresh, p)}
        /\ packs' \in {packs, Seal({p})}
        /\ openPack' \in {openPack, p, <<>>}
    BY <1>1 DEF put_chunk
  <2> HIDE DEF p, fresh
  <2>4. QED
    BY <1>0, <2>1, <2>2, <2>3, UnresolvedTyped DEF Parts
<1>2. CASE flush_packs
  <2>1. /\ UNCHANGED <<layout, dur, loose, quar, pc, batch, grace, victims, clash>>
        /\ led' = Flushed /\ ClosePack
    BY <1>2 DEF flush_packs
  <2>2. QED
    BY <1>0, <2>1, FlushedTyped, ClosePackTyped DEF Parts
<1>3. CASE begin_publish_batch
  BY <1>0, <1>3 DEF begin_publish_batch, disk, Parts
<1>4. ASSUME NEW a \in Assets, NEW cs \in SUBSET Chunks, publish_asset(a, cs)
      PROVE  Parts'
  <2>1. Reference(Flushed, a, cs) \in Ledgers /\ Reference(led, a, cs) \in Ledgers
    BY <1>0, FlushedTyped, ReferenceTyped DEF Parts
  <2>2. UNCHANGED <<layout, dur, loose, quar, grace, victims, clash>>
    BY <1>4 DEF publish_asset
  <2>3. \/ led' = Reference(Flushed, a, cs) /\ ClosePack /\ pc' = "save" /\ batch' = batch
        \/ led' = Reference(led, a, cs) /\ batch' = "queued" /\ UNCHANGED <<packs, openPack, pc>>
    BY <1>4 DEF publish_asset
  <2>4. QED
    BY <1>0, <2>1, <2>2, <2>3, ClosePackTyped DEF Parts, Points
<1>5. CASE commit_publish_batch
  <2>1. /\ UNCHANGED <<layout, dur, loose, quar, grace, victims, clash>>
        /\ led' = Flushed /\ ClosePack /\ pc' \in {"save", "idle"} /\ batch' = "none"
    BY <1>5 DEF commit_publish_batch
  <2>2. QED
    BY <1>0, <2>1, FlushedTyped, ClosePackTyped DEF Parts, Points
<1>6. CASE save_index
  BY <1>0, <1>6 DEF save_index, mem, Parts, Points
<1>7. QED
  BY <1>1, <1>2, <1>3, <1>4, <1>5, <1>6 DEF Ingest

\* So does every step of gc.
LEMMA GcTyped ==
  ASSUME TypeOK, gc
  PROVE  TypeOK'
<1>0. Parts
  BY TypeOKParts
<1> SUFFICES Parts'
  BY TypeOKParts
<1>1. ASSUME NEW g \in Graces[layout], gc_chunks(g)
      PROVE  Parts'
  <2>1. g \in {0, 1}
    BY <1>0, ChunkStoreAssumption DEF Parts
  <2>2. Forget(led, Doomed(g)) \in Ledgers
    BY <1>0, ForgetTyped DEF Parts
  <2>3. /\ UNCHANGED <<layout, dur, packs, quar, openPack, batch, clash>>
        /\ led' = Forget(led, Doomed(g)) /\ loose' \subseteq loose /\ grace' = g
        /\ victims' = {led.loc[c].pack : c \in Doomed(g)} \ {<<>>} /\ pc' = "quarantine"
    BY <1>1 DEF gc_chunks
  <2>4. victims' \subseteq PackIds
    <3>1. Doomed(g) \subseteq led.has
      BY DEF Doomed
    <3>2. QED
      BY <1>0, <2>3, <3>1, LedgerParts DEF Parts, Locations
  <2>5. QED
    BY <1>0, <2>1, <2>2, <2>3, <2>4 DEF Parts, Points
<1>2. CASE gc_quarantine \/ quarantine_orphan_packs
  <2>1. /\ UNCHANGED <<layout, dur, loose, led, openPack, batch, grace, clash>>
        /\ pc' \in {"orphans", "sweep"} /\ victims' \in {{}, victims}
        /\ \E ps : Quarantine(ps)
    BY <1>2 DEF gc_quarantine, quarantine_orphan_packs, mem
  <2>2. PacksTyped(packs') /\ QuarTyped(quar')
    BY <1>0, <2>1, QuarantineTyped DEF Parts
  <2>3. QED
    BY <1>0, <2>1, <2>2 DEF Parts, Points
<1>3. CASE sweep_quarantine
  <2> DEFINE back == DOMAIN quar \cap live_pack_set(led)
             left == LeftBehind(back)
  <2>1. /\ UNCHANGED <<layout, dur, loose, led, openPack, batch, victims, clash>>
        /\ packs' = Restored(back) /\ pc' = "save" /\ grace' = 0
        /\ \E gone : quar' = [p \in DOMAIN left \ gone |->
                               IF p \notin back /\ left[p] = "unstamped" THEN "young" ELSE left[p]]
    BY <1>3 DEF sweep_quarantine
  <2>2. back \subseteq PackIds
    BY <1>0 DEF Parts, QuarTyped
  <2> HIDE DEF back
  <2>3. PacksTyped(Restored(back)) /\ QuarTyped(left)
    BY <1>0, <2>2, RestoredTyped DEF Parts
  <2> HIDE DEF left
  <2>4. QuarTyped(quar')
    BY <2>1, <2>3 DEF QuarTyped, Ages
  <2>5. QED
    BY <1>0, <2>1, <2>3, <2>4 DEF Parts, Points
<1>4. QED
  BY <1>1, <1>2, <1>3 DEF gc

\* So do the other steps.
LEMMA OthersTyped ==
  ASSUME TypeOK, repack \/ open_inner \/ dies \/ dies_quarantining \/ Tick
                 \/ (\E a \in Assets : unpublish_asset(a)) \/ UNCHANGED vars
  PROVE  TypeOK'
<1>0. Parts
  BY TypeOKParts
<1> SUFFICES Parts'
  BY TypeOKParts
<1>1. ASSUME NEW group \in SUBSET live_pack_set(led), NEW order \in SetToSeqs(group), repack_copy(order)
      PROVE  Parts'
  <2>1. /\ UNCHANGED <<layout, dur, loose, quar, openPack, batch, grace>>
        /\ packs' = Seal(PacksOf(Moved(order))) /\ victims' = PackChunks(order)
        /\ clash' \in BOOLEAN /\ pc' = "repack_save"
    BY <1>1 DEF repack_copy
  <2>2. led' \in Ledgers /\ PacksOf(Moved(order)) \subseteq PackIds
    BY <1>1, RepackTyped
  <2>3. PackChunks(order) \subseteq PackIds
    BY <1>0, MovedLists DEF Parts
  <2>4. PacksTyped(packs')
    BY <1>0, <2>1, <2>2, SealTyped DEF Parts
  <2>5. QED
    BY <1>0, <2>1, <2>2, <2>3, <2>4 DEF Parts, Points
<1>2. CASE repack_save
  BY <1>0, <1>2 DEF repack_save, mem, Parts, Points
<1>3. CASE repack_quarantine
  <2>1. /\ UNCHANGED <<layout, dur, loose, led, openPack, batch, grace, clash>>
        /\ pc' \in {"idle", pc} /\ victims' \subseteq victims
        /\ \E ps : Quarantine(ps)
    BY <1>3 DEF repack_quarantine
  <2>2. PacksTyped(packs') /\ QuarTyped(quar')
    BY <1>0, <2>1, QuarantineTyped DEF Parts
  <2>3. QED
    BY <1>0, <2>1, <2>2 DEF Parts, Points
<1>4. CASE open_inner
  <2> DEFINE back == DOMAIN quar \cap live_pack_set(dur)
  <2>1. /\ UNCHANGED <<layout, dur, loose, openPack, batch, grace, victims>>
        /\ packs' = Restored(back) /\ quar' = LeftBehind(back) /\ led' = dur
        /\ pc' = "idle" /\ clash' = FALSE
    BY <1>4 DEF open_inner
  <2>2. back \subseteq PackIds
    BY <1>0 DEF Parts, QuarTyped
  <2> HIDE DEF back
  <2>3. PacksTyped(Restored(back)) /\ QuarTyped(LeftBehind(back))
    BY <1>0, <2>2, RestoredTyped DEF Parts
  <2>4. QED
    BY <1>0, <2>1, <2>3 DEF Parts, Points
<1>5. CASE dies \/ dies_quarantining
  <2>1. /\ UNCHANGED <<layout, dur, loose, clash>>
        /\ pc' = "down" /\ led' = EmptyLedger /\ openPack' = <<>> /\ batch' = "none"
        /\ grace' = 0 /\ victims' = {}
    BY <1>5 DEF dies, dies_quarantining, Ends, disk
  <2>2. PacksTyped(packs') /\ QuarTyped(quar')
    <3>1. CASE dies
      BY <1>0, <3>1 DEF dies, disk, Parts
    <3>2. CASE dies_quarantining
      <4>1. PICK p \in DOMAIN packs :
               /\ packs' = [q \in DOMAIN packs \ {p} |-> packs[q]]
               /\ quar' = [q \in DOMAIN quar \cup {p} |->
                             IF q = p /\ p \notin DOMAIN quar THEN "unstamped" ELSE quar[q]]
        BY <3>2 DEF dies_quarantining
      <4>2. QED
        BY <1>0, <4>1 DEF Parts, PacksTyped, QuarTyped, Ages
    <3>3. QED
      BY <1>5, <3>1, <3>2
  <2>3. QED
    BY <1>0, <2>1, <2>2, EmptyTyped, UnresolvedTyped DEF Parts, Points
<1>6. CASE Tick
  <2>1. /\ UNCHANGED <<layout, loose, pc, openPack, batch, grace, victims, clash>>
        /\ led' = Aged(led) /\ dur' = Aged(dur)
        /\ packs' = [p \in DOMAIN packs |-> "old"]
        /\ quar' = [p \in DOMAIN quar |-> IF quar[p] = "unstamped" THEN quar[p] ELSE "old"]
    BY <1>6 DEF Tick
  <2>2. PacksTyped(packs') /\ QuarTyped(quar')
    BY <1>0, <2>1 DEF Parts, PacksTyped, QuarTyped, Ages
  <2>3. QED
    BY <1>0, <2>1, <2>2, AgedTyped DEF Parts
<1>7. CASE \E a \in Assets : unpublish_asset(a)
  <2>1. PICK a \in Assets : unpublish_asset(a)
    BY <1>7
  <2>2. Reference(led, a, {}) \in Ledgers
    BY <1>0, ReferenceTyped DEF Parts
  <2>3. QED
    BY <1>0, <2>1, <2>2 DEF unpublish_asset, disk, Parts, Points
<1>8. CASE UNCHANGED vars
  BY <1>0, <1>8 DEF vars, disk, mem, Parts
<1>9. QED
  BY <1>1, <1>2, <1>3, <1>4, <1>5, <1>6, <1>7, <1>8 DEF repack

\* In every layout, whatever is called and whenever the process dies, the
\* ledgers, the packs and the quarantine keep their shape: in particular a
\* repack's moved chunks are cut into packs that are sequences of chunks.
THEOREM AlwaysTyped == Spec => []TypeOK
<1>1. Init => TypeOK
  <2>1. DOMAIN <<>> = {}
    OBVIOUS
  <2>2. QED
    BY <2>1, EmptyTyped, UnresolvedTyped DEF Init, TypeOK
<1>2. TypeOK /\ [Next]_vars => TypeOK'
  BY IngestTyped, GcTyped, OthersTyped DEF Next
<1>3. QED
  BY <1>1, <1>2, PTL DEF Spec

-----------------------------------------------------------------------------
(* The bytes behind the entries, in the packfile layout.                   *)

\* Every chunk the saved ledger has an entry for is in a pack, live or in
\* quarantine, where the entry says.
DurKept == \A c \in dur.has : Placed(dur, c) /\ dur.loc[c].pack \in DOMAIN packs \cup DOMAIN quar

\* The same of the open store's ledger, unless the chunk is in the open pack;
\* and without a clash the pack is live.
LedKept ==
    pc # "down" => \A c \in led.has :
        \/ c \in PackChunks(openPack)
        \/ /\ Placed(led, c)
           /\ led.loc[c].pack \in DOMAIN packs \cup DOMAIN quar
           /\ ~clash => led.loc[c].pack \in DOMAIN packs

\* Only a resting store has an open pack.
Quiet == pc # "idle" => openPack = <<>>

\* What is saved is still in memory, at the same place, unless an operation
\* is under way.
DurWithin ==
    pc \in {"idle", "repack_quarantine"} => \A c \in dur.has :
        c \in led.has /\ led.loc[c] = dur.loc[c] /\ c \notin PackChunks(openPack)

\* A collection that has not saved yet: what the saved ledger needs has not
\* been in quarantine long enough to be deleted.
Collecting ==
    /\ pc \in {"quarantine", "orphans", "sweep"} => grace = 1
    /\ pc = "quarantine" => \A c \in dur.has : dur.loc[c].pack \in victims \cup live_pack_set(led)
    /\ pc \in {"orphans", "sweep"} => \A c \in dur.has :
           \/ dur.loc[c].pack \in DOMAIN packs \cup live_pack_set(led)
           \/ dur.loc[c].pack \in DOMAIN quar /\ quar[dur.loc[c].pack] # "old"

\* The packs a repack replaces hold nothing any more, unless it wrote one of
\* them again.
Replaced ==
    pc \in {"repack_save", "repack_quarantine"} /\ ~clash => victims \cap live_pack_set(led) = {}

PackInv == DurKept /\ LedKept /\ Quiet /\ DurWithin /\ Collecting /\ Replaced

\* What the proofs below assume of the callers, in the packfile layout: gc
\* has a grace period, and maintenance runs with no batch and no pack open.
Graceful == "Packfiles" \in Layouts => 0 \notin Graces["Packfiles"]
Apart    == "Packfiles" \notin WhileIngesting

\* Which entries the operations leave, and where these point.
LEMMA EnterPlaces ==
  ASSUME NEW l, NEW cs
  PROVE  Enter(l, cs).has = l.has \cup cs /\ Enter(l, cs).loc = l.loc
  BY LedgerFields, LocField DEF Enter

\* Publishing and time move no entry.
LEMMA SamePlaces ==
  ASSUME NEW l, NEW a, NEW cs
  PROVE  /\ Reference(l, a, cs).has = l.has /\ Reference(l, a, cs).loc = l.loc
         /\ Aged(l).has = l.has /\ Aged(l).loc = l.loc
  BY LedgerFields, LocField DEF Reference, Aged

\* Dropping entries moves none of the others.
LEMMA ForgetPlaces ==
  ASSUME NEW l \in Ledgers, NEW cs
  PROVE  /\ Forget(l, cs).has = l.has \ cs
         /\ \A c \in l.has \ cs : Forget(l, cs).loc[c] = l.loc[c]
  BY LedgerFields, LocField, LedgerParts DEF Forget

\* Flushing places the chunks of the pack in it and moves no other.
LEMMA FlushPlaces ==
  ASSUME NEW l \in Ledgers, NEW p \in PackIds
  PROVE  /\ Flush(l, p).has = l.has \cup PackChunks(p)
         /\ \A c \in PackChunks(p) : Placed(Flush(l, p), c) /\ Flush(l, p).loc[c].pack = p
         /\ \A c \in Chunks \ PackChunks(p) : Flush(l, p).loc[c] = l.loc[c]
<1> DEFINE place == [c \in PackChunks(p) |-> LastSlot(p, c)]
           fresh == Enter(l, PackChunks(p) \ l.has)
<1>1. Flush(l, p) = Relocate(fresh, PackChunks(p), place)
  BY DEF Flush
<1>2. fresh.has = l.has \cup PackChunks(p) /\ fresh.loc = l.loc
  BY EnterPlaces
<1> HIDE DEF fresh
<1>3. /\ Flush(l, p).has = l.has \cup PackChunks(p)
      /\ Flush(l, p).loc = [c \in Chunks |-> IF c \in PackChunks(p) THEN place[c] ELSE l.loc[c]]
  <2> HIDE DEF place
  <2>1. QED
    BY <1>1, <1>2, LedgerFields, LocField DEF Relocate
<1>4. PackChunks(p) \subseteq Chunks
  BY DEF PackChunks, PackIds
<1>5. ASSUME NEW c \in PackChunks(p)
      PROVE  Placed(Flush(l, p), c) /\ Flush(l, p).loc[c].pack = p
  <2>1. place[c] = LastSlot(p, c)
    OBVIOUS
  <2> HIDE DEF place
  <2>2. Flush(l, p).loc[c] = LastSlot(p, c)
    BY <1>3, <1>4, <2>1
  <2>3. QED
    BY <2>2, LastSlotHolds DEF Placed
<1> HIDE DEF place
<1>6. QED
  BY <1>3, <1>5

\* A chunk that is where its entry says is in a pack that is live.
LEMMA PlacedLive ==
  ASSUME NEW l, NEW c \in l.has, Placed(l, c)
  PROVE  l.loc[c].pack \in live_pack_set(l)
<1>1. DOMAIN <<>> = {}
  OBVIOUS
<1>2. l.loc[c].pack # <<>>
  BY <1>1 DEF Placed
<1>3. QED
  BY <1>2 DEF live_pack_set

\* The empty pack holds nothing.
LEMMA EmptyPack == PackChunks(<<>>) = {}
  BY DEF PackChunks

\* flush_packs: what the open pack held is in a live pack afterwards.
LEMMA FlushedKept ==
  ASSUME TypeOK, PackInv, pc # "down", ClosePack
  PROVE  /\ DOMAIN packs \subseteq DOMAIN packs' /\ openPack' = <<>>
         /\ \A c \in Flushed.has :
              /\ Placed(Flushed, c)
              /\ Flushed.loc[c].pack \in DOMAIN packs' \cup DOMAIN quar
              /\ ~clash => Flushed.loc[c].pack \in DOMAIN packs'
         /\ led.has \subseteq Flushed.has
         /\ \A c \in led.has : c \notin PackChunks(openPack) => Flushed.loc[c] = led.loc[c]
<1>1. led \in Ledgers /\ openPack \in PackIds /\ PacksTyped(packs)
  BY TypeOKParts DEF Parts
<1>2. LedKept
  BY DEF PackInv
<1>3. CASE openPack = <<>>
  BY <1>2, <1>3, EmptyPack DEF ClosePack, Flushed, LedKept
<1>4. CASE openPack # <<>>
  <2>1. /\ Flushed = Flush(led, openPack) /\ packs' = Seal({openPack}) /\ openPack' = <<>>
    BY <1>4 DEF Flushed, ClosePack
  <2>2. DOMAIN packs' = DOMAIN packs \cup {openPack}
    BY <1>1, <2>1, SealTyped
  <2>3. /\ Flushed.has = led.has \cup PackChunks(openPack)
        /\ \A c \in PackChunks(openPack) : Placed(Flushed, c) /\ Flushed.loc[c].pack = openPack
        /\ \A c \in Chunks \ PackChunks(openPack) : Flushed.loc[c] = led.loc[c]
    BY <1>1, <2>1, FlushPlaces
  <2>4. \A c \in led.has \ PackChunks(openPack) : Flushed.loc[c] = led.loc[c]
    BY <1>1, <2>3, LedgerParts
  <2>5. \A c \in led.has \ PackChunks(openPack) :
           /\ Placed(Flushed, c)
           /\ Flushed.loc[c].pack \in DOMAIN packs \cup DOMAIN quar
           /\ ~clash => Flushed.loc[c].pack \in DOMAIN packs
    BY <1>2, <2>4 DEF LedKept, Placed
  <2>6. QED
    BY <2>1, <2>2, <2>3, <2>4, <2>5
<1>5. QED
  BY <1>3, <1>4

\* Every step of an ingest keeps the entries backed by packs.
LEMMA IngestPacks ==
  ASSUME TypeOK, layout = "Packfiles", PackInv, Ingest
  PROVE  PackInv'
<1>0. /\ Parts /\ DurKept /\ LedKept /\ Quiet /\ DurWithin /\ Collecting /\ Replaced
  BY TypeOKParts DEF PackInv
<1>1. ASSUME NEW c \in Chunks, put_chunk(c)
      PROVE  PackInv'
  <2> DEFINE p == Append(openPack, c)
             fresh == Enter(led, {c})
  <2>0. layout # "Loose"
    OBVIOUS
  <2>1. /\ pc = "idle" /\ c \notin led.has
        /\ UNCHANGED <<dur, quar, pc, clash, grace, victims>>
        /\ \/ packs' = Seal({p}) /\ led' = Flush(fresh, p) /\ openPack' = <<>>
           \/ openPack' = p /\ led' = fresh /\ UNCHANGED packs
    BY <1>1, <2>0 DEF put_chunk
  <2>2. p \in PackIds /\ fresh \in Ledgers /\ PackChunks(p) = PackChunks(openPack) \cup {c}
    <3>1. openPack \in Seq(Chunks) /\ Len(openPack) \in Nat
      BY <1>0 DEF Parts, PackIds
    <3>2. /\ p \in Seq(Chunks) /\ Len(p) = Len(openPack) + 1
          /\ \A i \in 1..Len(openPack) : p[i] = openPack[i]
          /\ p[Len(openPack) + 1] = c
      BY <3>1
    <3>3. DOMAIN p = 1..(Len(openPack) + 1) /\ DOMAIN openPack = 1..Len(openPack)
      BY <3>1, <3>2
    <3>4. fresh \in Ledgers
      BY <1>0, EnterTyped DEF Parts
    <3> HIDE DEF p
    <3>5. PackChunks(p) \subseteq PackChunks(openPack) \cup {c}
      <4> SUFFICES ASSUME NEW i \in DOMAIN p
                   PROVE  p[i] \in PackChunks(openPack) \cup {c}
        BY DEF PackChunks
      <4>1. CASE i = Len(openPack) + 1
        BY <3>2, <4>1
      <4>2. CASE i # Len(openPack) + 1
        <5>1. i \in 1..Len(openPack)
          BY <3>1, <3>3, <4>2
        <5>2. QED
          BY <3>2, <3>3, <5>1 DEF PackChunks
      <4>3. QED
        BY <4>1, <4>2
    <3>6. PackChunks(openPack) \cup {c} \subseteq PackChunks(p)
      <4>1. Len(openPack) + 1 \in DOMAIN p /\ \A i \in DOMAIN openPack : i \in DOMAIN p
        BY <3>1, <3>3
      <4>2. QED
        BY <3>2, <3>3, <4>1 DEF PackChunks
    <3>7. QED
      BY <3>2, <3>4, <3>5, <3>6 DEF PackIds
  <2>3. fresh.has = led.has \cup {c} /\ fresh.loc = led.loc
    BY EnterPlaces
  <2>4. /\ Flush(fresh, p).has = fresh.has \cup PackChunks(p)
        /\ \A d \in PackChunks(p) : Placed(Flush(fresh, p), d) /\ Flush(fresh, p).loc[d].pack = p
        /\ \A d \in Chunks \ PackChunks(p) : Flush(fresh, p).loc[d] = fresh.loc[d]
    BY <2>2, FlushPlaces
  <2>5. DOMAIN Seal({p}) = DOMAIN packs \cup {p}
    BY <1>0, <2>2, SealTyped DEF Parts
  <2>6. \A d \in dur.has : d \in led.has /\ led.loc[d] = dur.loc[d] /\ d \notin PackChunks(openPack) /\ d # c
    BY <1>0, <2>1 DEF DurWithin
  <2>7. led.has \subseteq Chunks
    BY <1>0, LedgerParts DEF Parts
  <2>8. \A d \in led.has : d \in PackChunks(openPack) \/
           /\ Placed(led, d)
           /\ led.loc[d].pack \in DOMAIN packs \cup DOMAIN quar
           /\ ~clash => led.loc[d].pack \in DOMAIN packs
    BY <1>0, <2>1 DEF LedKept
  <2> HIDE DEF p, fresh
  <2>9. CASE packs' = Seal({p}) /\ led' = Flush(fresh, p) /\ openPack' = <<>>
    <3>1. DOMAIN packs' = DOMAIN packs \cup {p} /\ PackChunks(openPack') = {}
      BY <2>5, <2>9, EmptyPack
    <3>2. led'.has = led.has \cup PackChunks(p)
      BY <2>2, <2>3, <2>4, <2>9
    <3>3. \A d \in PackChunks(p) : Placed(led', d) /\ led'.loc[d].pack = p
      BY <2>4, <2>9
    <3>4. \A d \in led.has \ PackChunks(p) : led'.loc[d] = led.loc[d]
      BY <2>3, <2>4, <2>7, <2>9
    <3>5. LedKept'
      <4>1. \A d \in led.has \ PackChunks(p) : Placed(led', d)
        BY <2>2, <2>8, <3>4 DEF Placed
      <4>2. QED
        BY <2>1, <2>2, <2>8, <3>1, <3>2, <3>3, <3>4, <4>1 DEF LedKept
    <3>6. DurKept'
      BY <1>0, <2>1, <3>1 DEF DurKept, Placed
    <3>7. DurWithin'
      BY <2>1, <2>2, <2>6, <3>1, <3>2, <3>4 DEF DurWithin
    <3>8. QED
      BY <2>1, <3>5, <3>6, <3>7 DEF PackInv, Quiet, Collecting, Replaced
  <2>10. CASE openPack' = p /\ led' = fresh /\ UNCHANGED packs
    <3>1. led'.has = led.has \cup {c} /\ led'.loc = led.loc
      BY <2>3, <2>10
    <3>2. LedKept'
      BY <2>1, <2>2, <2>8, <2>10, <3>1 DEF LedKept, Placed
    <3>3. DurKept'
      BY <1>0, <2>1, <2>10 DEF DurKept, Placed
    <3>4. DurWithin'
      BY <2>1, <2>2, <2>6, <2>10, <3>1 DEF DurWithin
    <3>5. QED
      BY <2>1, <3>2, <3>3, <3>4 DEF PackInv, Quiet, Collecting, Replaced
  <2>11. QED
    BY <2>1, <2>9, <2>10
<1>2. ASSUME pc = "idle", led'.has = Flushed.has, led'.loc = Flushed.loc, ClosePack,
             UNCHANGED <<dur, quar, clash, grace, victims>>, pc' \in {"idle", "save"}
      PROVE  PackInv'
  <2>1. /\ DOMAIN packs \subseteq DOMAIN packs' /\ openPack' = <<>>
        /\ \A c \in Flushed.has :
             /\ Placed(Flushed, c)
             /\ Flushed.loc[c].pack \in DOMAIN packs' \cup DOMAIN quar
             /\ ~clash => Flushed.loc[c].pack \in DOMAIN packs'
        /\ led.has \subseteq Flushed.has
        /\ \A c \in led.has : c \notin PackChunks(openPack) => Flushed.loc[c] = led.loc[c]
    BY <1>2, FlushedKept
  <2>2. LedKept'
    BY <1>2, <2>1 DEF LedKept, Placed
  <2>3. DurKept'
    BY <1>0, <1>2, <2>1 DEF DurKept, Placed
  <2>4. DurWithin'
    <3>1. PackChunks(openPack') = {}
      BY <2>1, EmptyPack
    <3>2. QED
      BY <1>0, <1>2, <2>1, <3>1 DEF DurWithin
  <2>5. QED
    BY <1>2, <2>1, <2>2, <2>3, <2>4 DEF PackInv, Quiet, Collecting, Replaced
<1>3. ASSUME UNCHANGED <<dur, quar, packs, openPack, pc, clash, grace, victims>>, pc = "idle",
             led'.has = led.has, led'.loc = led.loc
      PROVE  PackInv'
  <2>1. LedKept'
    BY <1>0, <1>3 DEF LedKept, Placed
  <2>2. QED
    BY <1>0, <1>3, <2>1 DEF PackInv, DurKept, Placed, Quiet, DurWithin, Collecting, Replaced
<1>4. CASE flush_packs
  BY <1>2, <1>4 DEF flush_packs
<1>5. CASE begin_publish_batch
  BY <1>3, <1>5 DEF begin_publish_batch, disk
<1>6. ASSUME NEW a \in Assets, NEW cs \in SUBSET Chunks, publish_asset(a, cs)
      PROVE  PackInv'
  <2>1. UNCHANGED <<dur, quar, clash, grace, victims>> /\ pc = "idle"
    BY <1>6 DEF publish_asset
  <2>2. \/ led' = Reference(Flushed, a, cs) /\ ClosePack /\ pc' = "save"
        \/ led' = Reference(led, a, cs) /\ UNCHANGED <<packs, openPack, pc>>
    BY <1>6 DEF publish_asset
  <2>3. CASE led' = Reference(Flushed, a, cs) /\ ClosePack /\ pc' = "save"
    <3>1. led'.has = Flushed.has /\ led'.loc = Flushed.loc
      BY <2>3, SamePlaces
    <3>2. QED
      BY <1>2, <2>1, <2>3, <3>1
  <2>4. CASE led' = Reference(led, a, cs) /\ UNCHANGED <<packs, openPack, pc>>
    <3>1. led'.has = led.has /\ led'.loc = led.loc
      BY <2>4, SamePlaces
    <3>2. QED
      BY <1>3, <2>1, <2>4, <3>1
  <2>5. QED
    BY <2>2, <2>3, <2>4
<1>7. CASE commit_publish_batch
  <2>1. pc' \in {"idle", "save"}
    BY <1>7 DEF commit_publish_batch
  <2>2. QED
    BY <1>2, <1>7, <2>1 DEF commit_publish_batch
<1>8. CASE save_index
  <2>1. /\ pc = "save" /\ pc' = "idle" /\ dur' = led
        /\ UNCHANGED <<packs, quar, led, openPack, grace, victims, clash>>
    BY <1>8 DEF save_index, mem
  <2>2. openPack = <<>> /\ PackChunks(openPack) = {}
    BY <1>0, <2>1, EmptyPack DEF Quiet
  <2>3. LedKept' /\ DurKept'
    BY <1>0, <2>1, <2>2 DEF LedKept, DurKept, Placed
  <2>4. DurWithin'
    BY <2>1, <2>2 DEF DurWithin
  <2>5. QED
    BY <2>1, <2>3, <2>4 DEF PackInv, Quiet, Collecting, Replaced
<1>9. QED
  BY <1>1, <1>4, <1>5, <1>6, <1>7, <1>8 DEF Ingest

\* Moving packs to quarantine keeps them in the store.
LEMMA QuarantineKeeps ==
  ASSUME NEW ps, Quarantine(ps)
  PROVE  /\ DOMAIN packs' = DOMAIN packs \ ps
         /\ DOMAIN packs' \cup DOMAIN quar' = DOMAIN packs \cup DOMAIN quar
         /\ DOMAIN quar \subseteq DOMAIN quar'
         /\ \A p \in DOMAIN packs \ ps : packs'[p] = packs[p]
         /\ \A p \in DOMAIN quar' \cap ps : quar'[p] = "young"
         /\ \A p \in DOMAIN quar \ ps : quar'[p] = quar[p]
  BY DEF Quarantine

\* So does gc, which drops entries and then quarantines what no entry names.
LEMMA GcPacks ==
  ASSUME TypeOK, layout = "Packfiles", Graceful, Apart, PackInv, gc
  PROVE  PackInv'
<1>0. /\ Parts /\ DurKept /\ LedKept /\ Quiet /\ DurWithin /\ Collecting /\ Replaced
  BY TypeOKParts DEF PackInv
<1>1. ASSUME NEW g \in Graces[layout], gc_chunks(g)
      PROVE  PackInv'
  <2>1. /\ Called("gc") /\ led' = Forget(led, Doomed(g)) /\ grace' = g /\ pc' = "quarantine"
        /\ victims' = {led.loc[c].pack : c \in Doomed(g)} \ {<<>>}
        /\ UNCHANGED <<dur, packs, quar, openPack, clash>>
    BY <1>1 DEF gc_chunks
  <2>2. pc = "idle" /\ openPack = <<>> /\ PackChunks(openPack) = {}
    BY <2>1, EmptyPack DEF Called, Apart
  <2>3. g = 1
    <3>1. g \in {0, 1} /\ layout \in Layouts
      BY <1>0, ChunkStoreAssumption DEF Parts
    <3>2. QED
      BY <1>1, <3>1 DEF Graceful
  <2>4. /\ led'.has = led.has \ Doomed(g)
        /\ \A c \in led.has \ Doomed(g) : led'.loc[c] = led.loc[c]
    BY <1>0, <2>1, ForgetPlaces DEF Parts
  <2>5. DurKept'
    BY <1>0, <2>1 DEF DurKept, Placed
  <2>6. LedKept'
    BY <1>0, <2>1, <2>2, <2>4 DEF LedKept, Placed
  <2>7. ASSUME NEW c \in dur.has
        PROVE  dur.loc[c].pack \in victims' \cup live_pack_set(led')
    <3>1. /\ c \in led.has /\ led.loc[c] = dur.loc[c] /\ Placed(dur, c) /\ Placed(led, c)
      BY <1>0, <2>2 DEF DurWithin, DurKept, Placed
    <3>2. led.loc[c].pack # <<>>
      BY <3>1, PlacedLive DEF live_pack_set
    <3>3. CASE c \in Doomed(g)
      BY <2>1, <3>1, <3>2, <3>3
    <3>4. CASE c \notin Doomed(g)
      BY <2>4, <3>1, <3>2, <3>4 DEF live_pack_set
    <3>5. QED
      BY <3>3, <3>4
  <2>8. Collecting'
    BY <2>1, <2>3, <2>7 DEF Collecting
  <2>9. QED
    BY <2>1, <2>2, <2>5, <2>6, <2>8 DEF PackInv, Quiet, DurWithin, Replaced
<1>2. ASSUME NEW ps, Quarantine(ps), ps \cap live_pack_set(led) = {}, pc \in {"quarantine", "orphans"},
             pc' \in {"orphans", "sweep"}, UNCHANGED <<dur, led, openPack, grace, clash>>,
             pc = "quarantine" => ps = victims \ live_pack_set(led)
      PROVE  PackInv'
  <2>0. openPack = <<>> /\ grace = 1 /\ PackChunks(openPack) = {}
    BY <1>0, <1>2, EmptyPack DEF Quiet, Collecting
  <2>1. /\ DOMAIN packs' = DOMAIN packs \ ps
        /\ DOMAIN packs' \cup DOMAIN quar' = DOMAIN packs \cup DOMAIN quar
        /\ DOMAIN quar \subseteq DOMAIN quar'
        /\ \A p \in DOMAIN quar' \cap ps : quar'[p] = "young"
        /\ \A p \in DOMAIN quar \ ps : quar'[p] = quar[p]
    BY <1>2, QuarantineKeeps
  <2>2. DurKept'
    BY <1>0, <1>2, <2>1 DEF DurKept, Placed
  <2>3. LedKept'
    <3>1. ASSUME NEW c \in led.has
          PROVE  /\ Placed(led, c) /\ led.loc[c].pack \in DOMAIN packs \cup DOMAIN quar
                 /\ ~clash => led.loc[c].pack \in DOMAIN packs
                 /\ led.loc[c].pack \notin ps
      <4>1. /\ Placed(led, c) /\ led.loc[c].pack \in DOMAIN packs \cup DOMAIN quar
            /\ ~clash => led.loc[c].pack \in DOMAIN packs
        BY <1>0, <1>2, <2>0 DEF LedKept
      <4>2. QED
        BY <1>2, <4>1, PlacedLive
    <3>2. QED
      BY <1>2, <2>1, <3>1 DEF LedKept, Placed
  <2>4. ASSUME NEW c \in dur.has
        PROVE  \/ dur.loc[c].pack \in DOMAIN packs' \cup live_pack_set(led)
               \/ dur.loc[c].pack \in DOMAIN quar' /\ quar'[dur.loc[c].pack] # "old"
    <3> DEFINE p == dur.loc[c].pack
    <3>1. p \in DOMAIN packs \cup DOMAIN quar
      BY <1>0 DEF DurKept
    <3>2. p \in DOMAIN packs' \cup live_pack_set(led) \/ p \in ps \/ (p \in DOMAIN quar /\ quar[p] # "old")
      <4>1. CASE pc = "quarantine"
        BY <1>0, <1>2, <4>1 DEF Collecting
      <4>2. CASE pc = "orphans"
        BY <1>0, <2>1, <4>2 DEF Collecting
      <4>3. QED
        BY <1>2, <4>1, <4>2
    <3> HIDE DEF p
    <3>3. p \in DOMAIN packs' \cup live_pack_set(led) \/ (p \in DOMAIN quar' /\ quar'[p] # "old")
      BY <2>1, <3>1, <3>2
    <3>4. QED
      BY <3>3 DEF p
  <2>5. Collecting'
    BY <1>2, <2>0, <2>4 DEF Collecting
  <2>6. QED
    BY <1>2, <2>0, <2>2, <2>3, <2>5 DEF PackInv, Quiet, DurWithin, Replaced
<1>3. CASE gc_quarantine
  BY <1>2, <1>3 DEF gc_quarantine
<1>4. CASE quarantine_orphan_packs
  BY <1>2, <1>4 DEF quarantine_orphan_packs, mem
<1>5. CASE sweep_quarantine
  <2> DEFINE back == DOMAIN quar \cap live_pack_set(led)
             gone == {p \in DOMAIN quar \ back : quar[p] # "unstamped" /\ (grace = 0 \/ quar[p] = "old")}
             left == LeftBehind(back)
  <2>1. /\ pc = "sweep" /\ pc' = "save" /\ packs' = Restored(back)
        /\ quar' = [p \in DOMAIN left \ gone |->
                      IF p \notin back /\ left[p] = "unstamped" THEN "young" ELSE left[p]]
        /\ UNCHANGED <<dur, led, openPack, victims, clash>>
    BY <1>5 DEF sweep_quarantine
  <2>2. DOMAIN packs' = DOMAIN packs \cup back /\ DOMAIN quar' = (DOMAIN quar \ (back \ DOMAIN packs)) \ gone
    BY <2>1 DEF Restored, LeftBehind
  <2>3. grace = 1 /\ openPack = <<>> /\ PackChunks(openPack) = {}
    BY <1>0, <2>1, EmptyPack DEF Collecting, Quiet
  <2>4. ASSUME NEW p \in DOMAIN packs \cup DOMAIN quar, p \in live_pack_set(led)
        PROVE  p \in DOMAIN packs'
    BY <2>2, <2>4
  <2>5. ASSUME NEW p \in DOMAIN quar, p \notin live_pack_set(led), quar[p] # "old"
        PROVE  p \in DOMAIN quar'
    BY <2>2, <2>3, <2>5
  <2>6. DOMAIN packs \subseteq DOMAIN packs'
    BY <2>2
  <2> HIDE DEF back, gone, left
  <2>7. ASSUME NEW c \in dur.has
        PROVE  Placed(dur, c) /\ dur.loc[c].pack \in DOMAIN packs' \cup DOMAIN quar'
    <3>1. /\ Placed(dur, c) /\ dur.loc[c].pack \in DOMAIN packs \cup DOMAIN quar
          /\ \/ dur.loc[c].pack \in DOMAIN packs \cup live_pack_set(led)
             \/ dur.loc[c].pack \in DOMAIN quar /\ quar[dur.loc[c].pack] # "old"
      BY <1>0, <2>1 DEF DurKept, Collecting
    <3>2. QED
      BY <2>4, <2>5, <2>6, <3>1
  <2>8. ASSUME NEW c \in led.has
        PROVE  Placed(led, c) /\ led.loc[c].pack \in DOMAIN packs'
    <3>1. Placed(led, c) /\ led.loc[c].pack \in DOMAIN packs \cup DOMAIN quar
      BY <1>0, <2>1, <2>3 DEF LedKept
    <3>2. QED
      BY <2>4, <3>1, PlacedLive
  <2>9. DurKept' /\ LedKept'
    BY <2>1, <2>7, <2>8 DEF DurKept, LedKept, Placed
  <2>10. QED
    BY <2>1, <2>3, <2>9 DEF PackInv, Quiet, DurWithin, Collecting, Replaced
<1>6. QED
  BY <1>1, <1>3, <1>4, <1>5 DEF gc

\* So does repack, which moves entries before it retires their packs.
LEMMA RepackPacks ==
  ASSUME TypeOK, layout = "Packfiles", PackInv, repack
  PROVE  PackInv'
<1>0. /\ Parts /\ DurKept /\ LedKept /\ Quiet /\ DurWithin /\ Collecting /\ Replaced
  BY TypeOKParts DEF PackInv
<1>1. ASSUME NEW group \in SUBSET live_pack_set(led), NEW order \in SetToSeqs(group), repack_copy(order)
      PROVE  PackInv'
  <2> DEFINE moved == PackChunks(Moved(order))
             new   == PacksOf(Moved(order))
  <2>1. /\ pc = "idle" /\ openPack = <<>> /\ packs' = Seal(new) /\ victims' = PackChunks(order)
        /\ clash' = (clash \/ new \cap PackChunks(order) # {}) /\ pc' = "repack_save"
        /\ UNCHANGED <<dur, quar, openPack>>
    BY <1>1 DEF repack_copy, Called
  <2>2. /\ new \subseteq PackIds /\ led'.has = led.has
        /\ \A c \in moved : led'.loc[c].pack \in new /\ Placed(led', c)
        /\ \A c \in led.has \ moved : led'.loc[c] = led.loc[c]
    BY <1>1, RepackTyped
  <2>3. \A c \in led.has : led.loc[c].pack \in PackChunks(order) /\ Placed(led, c) => c \in moved
    BY <1>0, MovedLists DEF Parts
  <2>4. DOMAIN packs' = DOMAIN packs \cup new
    BY <1>0, <2>1, <2>2, SealTyped DEF Parts
  <2>5. \A c \in led.has :
          /\ Placed(led, c) /\ led.loc[c].pack \in DOMAIN packs \cup DOMAIN quar
          /\ ~clash => led.loc[c].pack \in DOMAIN packs
    BY <1>0, <2>1, EmptyPack DEF LedKept
  <2> HIDE DEF moved, new
  <2>6. ~clash' => ~clash /\ new \cap victims' = {}
    BY <2>1
  <2>7. ASSUME NEW c \in led.has
        PROVE  /\ Placed(led', c) /\ led'.loc[c].pack \in DOMAIN packs' \cup DOMAIN quar
               /\ ~clash' => led'.loc[c].pack \in DOMAIN packs' /\ led'.loc[c].pack \notin victims'
    <3>1. CASE c \in moved
      BY <2>2, <2>4, <2>6, <3>1
    <3>2. CASE c \notin moved
      <4>1. led'.loc[c] = led.loc[c]
        BY <2>2, <3>2
      <4>2. led.loc[c].pack \notin victims'
        BY <2>1, <2>3, <2>5, <3>2
      <4>3. Placed(led', c)
        BY <2>5, <4>1 DEF Placed
      <4>4. QED
        BY <2>4, <2>5, <2>6, <4>1, <4>2, <4>3
    <3>3. QED
      BY <3>1, <3>2
  <2>8. DurKept'
    BY <1>0, <2>1, <2>4 DEF DurKept, Placed
  <2>9. LedKept'
    BY <2>1, <2>2, <2>7 DEF LedKept
  <2>10. Replaced'
    BY <2>1, <2>2, <2>7 DEF Replaced, live_pack_set
  <2>11. QED
    BY <2>1, <2>8, <2>9, <2>10 DEF PackInv, Quiet, DurWithin, Collecting
<1>2. CASE repack_save
  <2>1. /\ pc = "repack_save" /\ pc' = "repack_quarantine" /\ dur' = led
        /\ UNCHANGED <<packs, quar, led, openPack, grace, victims, clash>>
    BY <1>2 DEF repack_save, mem
  <2>2. openPack = <<>> /\ PackChunks(openPack) = {}
    BY <1>0, <2>1, EmptyPack DEF Quiet
  <2>3. LedKept' /\ DurKept'
    BY <1>0, <2>1, <2>2 DEF LedKept, DurKept, Placed
  <2>4. DurWithin'
    BY <2>1, <2>2 DEF DurWithin
  <2>5. Replaced'
    BY <1>0, <2>1 DEF Replaced
  <2>6. QED
    BY <2>1, <2>2, <2>3, <2>4, <2>5 DEF PackInv, Quiet, Collecting
<1>3. CASE repack_quarantine
  <2>1. PICK p \in victims : Quarantine({p}) /\ victims' = victims \ {p}
    BY <1>3 DEF repack_quarantine
  <2>2. /\ pc = "repack_quarantine" /\ pc' \in {"idle", "repack_quarantine"}
        /\ UNCHANGED <<dur, led, openPack, clash>>
    BY <1>3 DEF repack_quarantine
  <2>3. /\ DOMAIN packs' = DOMAIN packs \ {p}
        /\ DOMAIN packs' \cup DOMAIN quar' = DOMAIN packs \cup DOMAIN quar
    BY <2>1, QuarantineKeeps
  <2>4. openPack = <<>> /\ PackChunks(openPack) = {}
    BY <1>0, <2>2, EmptyPack DEF Quiet
  <2>5. ASSUME NEW c \in led.has
        PROVE  /\ Placed(led, c) /\ led.loc[c].pack \in DOMAIN packs' \cup DOMAIN quar'
               /\ ~clash => led.loc[c].pack \in DOMAIN packs'
    <3>1. /\ Placed(led, c) /\ led.loc[c].pack \in DOMAIN packs \cup DOMAIN quar
          /\ ~clash => led.loc[c].pack \in DOMAIN packs
      BY <1>0, <2>2, <2>4 DEF LedKept
    <3>2. ~clash => led.loc[c].pack # p
      BY <1>0, <2>1, <2>2, <3>1, PlacedLive DEF Replaced
    <3>3. QED
      BY <2>3, <3>1, <3>2
  <2>6. LedKept' /\ DurKept'
    BY <1>0, <2>2, <2>3, <2>5 DEF LedKept, DurKept, Placed
  <2>7. DurWithin'
    BY <1>0, <2>2 DEF DurWithin
  <2>8. Replaced'
    BY <1>0, <2>1, <2>2 DEF Replaced
  <2>9. QED
    BY <2>2, <2>4, <2>6, <2>7, <2>8 DEF PackInv, Quiet, Collecting
<1>4. QED
  BY <1>1, <1>2, <1>3 DEF repack

\* So do the other steps.
LEMMA OthersPacks ==
  ASSUME TypeOK, layout = "Packfiles", Apart, PackInv,
         open_inner \/ dies \/ dies_quarantining \/ Tick
           \/ (\E a \in Assets : unpublish_asset(a)) \/ UNCHANGED vars
  PROVE  PackInv'
<1>0. /\ Parts /\ DurKept /\ LedKept /\ Quiet /\ DurWithin /\ Collecting /\ Replaced
  BY TypeOKParts DEF PackInv
<1>1. CASE open_inner
  <2> DEFINE back == DOMAIN quar \cap live_pack_set(dur)
  <2>1. /\ pc = "down" /\ pc' = "idle" /\ led' = dur /\ packs' = Restored(back)
        /\ quar' = LeftBehind(back) /\ UNCHANGED <<dur, openPack>>
    BY <1>1 DEF open_inner
  <2>2. /\ DOMAIN packs' = DOMAIN packs \cup back
        /\ DOMAIN packs \cup DOMAIN quar \subseteq DOMAIN packs' \cup DOMAIN quar'
    BY <2>1 DEF Restored, LeftBehind
  <2>3. openPack = <<>> /\ PackChunks(openPack) = {}
    BY <1>0, <2>1, EmptyPack DEF Quiet
  <2>4. ASSUME NEW c \in dur.has
        PROVE  Placed(dur, c) /\ dur.loc[c].pack \in DOMAIN packs'
    <3>1. Placed(dur, c) /\ dur.loc[c].pack \in DOMAIN packs \cup DOMAIN quar
      BY <1>0 DEF DurKept
    <3>2. QED
      BY <2>2, <3>1, PlacedLive
  <2> HIDE DEF back
  <2>5. LedKept' /\ DurKept'
    BY <2>1, <2>4 DEF LedKept, DurKept, Placed
  <2>6. DurWithin'
    BY <2>1, <2>3 DEF DurWithin
  <2>7. QED
    BY <2>1, <2>5, <2>6 DEF PackInv, Quiet, Collecting, Replaced
<1>2. CASE dies \/ dies_quarantining
  <2>1. pc' = "down" /\ openPack' = <<>> /\ UNCHANGED dur
    BY <1>2 DEF dies, dies_quarantining, Ends, disk
  <2>2. DOMAIN packs \cup DOMAIN quar \subseteq DOMAIN packs' \cup DOMAIN quar'
    <3>1. CASE dies
      BY <3>1 DEF dies, disk
    <3>2. CASE dies_quarantining
      BY <3>2 DEF dies_quarantining
    <3>3. QED
      BY <1>2, <3>1, <3>2
  <2>3. DurKept'
    BY <1>0, <2>1, <2>2 DEF DurKept, Placed
  <2>4. QED
    BY <2>1, <2>3 DEF PackInv, LedKept, Quiet, DurWithin, Collecting, Replaced
<1>3. CASE Tick
  <2>1. /\ pc \in {"idle", "down"} /\ led' = Aged(led) /\ dur' = Aged(dur)
        /\ DOMAIN packs' = DOMAIN packs /\ DOMAIN quar' = DOMAIN quar
        /\ UNCHANGED <<pc, openPack, grace, victims, clash>>
    BY <1>3 DEF Tick
  <2>2. led'.has = led.has /\ led'.loc = led.loc /\ dur'.has = dur.has /\ dur'.loc = dur.loc
    BY <2>1, SamePlaces
  <2>3. LedKept'
    BY <1>0, <2>1, <2>2 DEF LedKept, Placed
  <2>4. DurKept'
    BY <1>0, <2>1, <2>2 DEF DurKept, Placed
  <2>5. DurWithin'
    BY <1>0, <2>1, <2>2 DEF DurWithin
  <2>6. QED
    BY <1>0, <2>1, <2>3, <2>4, <2>5 DEF PackInv, Quiet, Collecting, Replaced
<1>4. CASE \E a \in Assets : unpublish_asset(a)
  <2>1. PICK a \in Assets : unpublish_asset(a)
    BY <1>4
  <2>2. /\ Called("unpublish") /\ led' = Reference(led, a, {}) /\ pc' = "save"
        /\ UNCHANGED <<dur, packs, quar, openPack, clash>>
    BY <2>1 DEF unpublish_asset, disk
  <2>3. pc = "idle" /\ openPack = <<>>
    BY <2>2 DEF Called, Apart
  <2>4. led'.has = led.has /\ led'.loc = led.loc
    BY <2>2, SamePlaces
  <2>5. LedKept' /\ DurKept'
    BY <1>0, <2>2, <2>3, <2>4 DEF LedKept, DurKept, Placed
  <2>6. QED
    BY <2>2, <2>3, <2>5 DEF PackInv, Quiet, DurWithin, Collecting, Replaced
<1>5. CASE UNCHANGED vars
  <2>1. UNCHANGED <<dur, led, packs, quar, openPack, pc, grace, victims, clash>>
    BY <1>5 DEF vars, disk, mem
  <2>2. LedKept' /\ DurKept'
    BY <1>0, <2>1 DEF LedKept, DurKept, Placed
  <2>3. QED
    BY <1>0, <2>1, <2>2 DEF PackInv, Quiet, DurWithin, Collecting, Replaced
<1>6. QED
  BY <1>1, <1>2, <1>3, <1>4, <1>5

\* The layout is chosen once; the invariant is about one of the two.
StoreInv == TypeOK /\ RefInv /\ (layout = "Packfiles" => PackInv)

\* The layout of a store never changes.
LEMMA LayoutFixed ==
  ASSUME [Next]_vars
  PROVE  layout' = layout
<1>1. ASSUME NEW a \in Assets, NEW cs \in SUBSET Chunks, publish_asset(a, cs)
      PROVE  layout' = layout
  BY <1>1 DEF publish_asset
<1>2. Ingest => layout' = layout
  BY <1>1 DEF Ingest, put_chunk, flush_packs, begin_publish_batch, commit_publish_batch, save_index, disk
<1>3. gc => layout' = layout
  BY DEF gc, gc_chunks, gc_quarantine, quarantine_orphan_packs, sweep_quarantine
<1>4. repack => layout' = layout
  BY DEF repack, repack_copy, repack_save, repack_quarantine
<1>5. QED
  BY <1>2, <1>3, <1>4 DEF Next, unpublish_asset, open_inner, dies, dies_quarantining, Tick, disk, vars

\* The invariant holds after every step.
LEMMA StoreKeeps ==
  ASSUME Graceful, Apart, StoreInv, [Next]_vars
  PROVE  StoreInv'
<1>1. TypeOK' /\ RefInv'
  BY IngestTyped, GcTyped, OthersTyped, StepKeeps DEF StoreInv, Next
<1>2. layout' = layout
  BY LayoutFixed
<1>3. ASSUME layout = "Packfiles"
      PROVE  PackInv'
  BY <1>3, IngestPacks, GcPacks, RepackPacks, OthersPacks DEF StoreInv, Next
<1>4. QED
  BY <1>1, <1>2, <1>3 DEF StoreInv

\* The invariant holds in every state.
LEMMA StoreAlways ==
  ASSUME Graceful, Apart
  PROVE  Spec => []StoreInv
<1>1. Init => StoreInv
  <2> SUFFICES ASSUME Init
               PROVE  StoreInv
    OBVIOUS
  <2>1. TypeOK
    <3>1. DOMAIN <<>> = {}
      OBVIOUS
    <3>2. QED
      BY <3>1, EmptyTyped, UnresolvedTyped DEF Init, TypeOK
  <2>2. dur.has = {}
    BY LedgerFields DEF Init, EmptyLedger
  <2>3. PackInv
    BY <2>2 DEF Init, PackInv, DurKept, LedKept, Quiet, DurWithin, Collecting, Replaced
  <2>4. QED
    BY <2>1, <2>3, InitRefInv DEF StoreInv
<1>2. StoreInv /\ [Next]_vars => StoreInv'
  BY StoreKeeps
<1>3. QED
  BY <1>1, <1>2, PTL DEF Spec

\* In a packfile store whose gc has a grace period and whose maintenance runs
\* with no pack open, every chunk the saved ledger has an entry for is where
\* the entry says, in packs/ or in quarantine/, at every moment and so at
\* every crash: put_chunk, publish, gc, sweep_quarantine and repack_run order
\* their effects on the disk so that the ledger is never ahead of the packs.
THEOREM LedgerAlwaysBacked ==
  ASSUME Graceful, Apart
  PROVE  Spec => []LedgerBacked
<1>1. StoreInv => LedgerBacked
  BY DEF StoreInv, PackInv, DurKept, Placed, LedgerBacked, Reads
<1>2. QED
  BY <1>1, StoreAlways, PTL

\* Under the same conditions, between operations, everything the open store
\* has an entry for reads where the entry says or sits in the open pack, until
\* a repack writes one of the packs it is about to quarantine.
THEOREM EntriesAlwaysRead ==
  ASSUME Graceful, Apart
  PROVE  Spec => []EntriesRead
<1>1. StoreInv => EntriesRead
  BY DEF StoreInv, PackInv, LedKept, Placed, EntriesRead, Reads
<1>2. QED
  BY <1>1, StoreAlways, PTL

\* Under the same conditions, a chunk of a published asset reads at every
\* moment of gc and of repack_run, not only between operations.
THEOREM PublishedAlwaysReads ==
  ASSUME Graceful, Apart
  PROVE  Spec => []PublishedReadThroughout
<1>1. StoreInv => PublishedReadThroughout
  <2> SUFFICES ASSUME StoreInv, layout = "Packfiles", ~clash, pc # "down", openPack = <<>>,
                      NEW a \in Assets, NEW c \in led.assets[a]
               PROVE  Reads(led, c, DOMAIN packs)
    BY DEF PublishedReadThroughout, ReadsKeepWorking
  <2>1. c \in led.has
    BY DEF StoreInv, RefInv, Good, Counted
  <2>2. QED
    BY <2>1, EmptyPack DEF StoreInv, PackInv, LedKept, Placed, Reads
<1>2. QED
  BY <1>1, StoreAlways, PTL

-----------------------------------------------------------------------------
(* What a completed gc leaves, in every layout and with every grace.       *)

SweepLeaves ==
    pc = "sweep" => \A p \in DOMAIN packs \ live_pack_set(led) : grace = 1 /\ packs[p] = "young"

\* Which steps reach and leave the sweep.
LEMMA SweepSteps ==
  ASSUME [Next]_vars
  PROVE  /\ pc' = "sweep" => quarantine_orphan_packs \/ UNCHANGED vars
         /\ pc = "sweep" /\ pc' = "save" => sweep_quarantine
<1>1. ASSUME NEW a \in Assets, NEW cs \in SUBSET Chunks, publish_asset(a, cs)
      PROVE  pc' \in {"idle", "save"} /\ pc = "idle"
  BY <1>1 DEF publish_asset
<1>2. Ingest => pc' \in {"idle", "save"} /\ pc # "sweep"
  BY <1>1 DEF Ingest, put_chunk, flush_packs, begin_publish_batch, commit_publish_batch, save_index
<1>3. repack => pc' # "sweep" /\ pc # "sweep"
  BY DEF repack, repack_copy, repack_save, repack_quarantine, Called
<1>4. \A g : gc_chunks(g) => pc' = "quarantine"
  BY DEF gc_chunks
<1>5. gc_quarantine => pc' = "orphans"
  BY DEF gc_quarantine
<1>6. sweep_quarantine => pc' = "save"
  BY DEF sweep_quarantine
<1>7. quarantine_orphan_packs => pc' = "sweep"
  BY DEF quarantine_orphan_packs
<1>8. (\E a \in Assets : unpublish_asset(a)) => pc' = "save" /\ pc = "idle"
  BY DEF unpublish_asset, Called
<1>9. open_inner \/ dies \/ dies_quarantining => pc' \in {"idle", "down"}
  BY DEF open_inner, dies, dies_quarantining, Ends
<1>10. Tick => pc' = pc /\ pc # "sweep"
  BY DEF Tick
<1>11. UNCHANGED vars => pc' = pc
  BY DEF vars
<1>12. QED
  BY <1>2, <1>3, <1>4, <1>5, <1>6, <1>7, <1>8, <1>9, <1>10, <1>11 DEF Next, gc

\* gc takes every pack that no entry points into out of the live tree, unless
\* it is younger than the grace period, whatever crashes left there before:
\* quarantine_orphan_packs sees every pack, and sweep_quarantine puts back
\* only packs an entry points into.
THEOREM GcAlwaysReclaims == Spec => GcReclaims
<1>1. Init => TypeOK /\ SweepLeaves
  <2>1. DOMAIN <<>> = {}
    OBVIOUS
  <2>2. QED
    BY <2>1, EmptyTyped, UnresolvedTyped DEF Init, TypeOK, SweepLeaves
<1>2. TypeOK /\ SweepLeaves /\ [Next]_vars => (TypeOK /\ SweepLeaves)'
  <2> SUFFICES ASSUME TypeOK, SweepLeaves, [Next]_vars
               PROVE  TypeOK' /\ SweepLeaves'
    OBVIOUS
  <2>1. TypeOK'
    BY IngestTyped, GcTyped, OthersTyped DEF Next
  <2>2. CASE quarantine_orphan_packs
    <3> DEFINE ps == {p \in DOMAIN packs \ live_pack_set(led) : grace = 0 \/ packs[p] = "old"}
    <3>1. Quarantine(ps) /\ UNCHANGED <<led, grace>>
      BY <2>2 DEF quarantine_orphan_packs, mem
    <3>2. DOMAIN packs' = DOMAIN packs \ ps /\ \A p \in DOMAIN packs \ ps : packs'[p] = packs[p]
      <4> HIDE DEF ps
      <4>1. QED
        BY <3>1, QuarantineKeeps
    <3>3. grace \in {0, 1} /\ \A p \in DOMAIN packs : packs[p] \in {"young", "old"}
      BY DEF TypeOK, Ages
    <3>4. QED
      BY <2>1, <3>1, <3>2, <3>3 DEF SweepLeaves
  <2>3. CASE UNCHANGED vars
    BY <2>1, <2>3 DEF vars, disk, mem, SweepLeaves
  <2>4. QED
    BY <2>1, <2>2, <2>3, SweepSteps DEF SweepLeaves
<1>3. TypeOK /\ SweepLeaves /\ [Next]_vars =>
        [pc = "sweep" /\ pc' = "save" =>
           \A p \in DOMAIN packs' \ live_pack_set(led) : grace = 1 /\ packs[p] = "young"]_vars
  <2> SUFFICES ASSUME SweepLeaves, [Next]_vars, pc = "sweep", pc' = "save",
                      NEW p \in DOMAIN packs' \ live_pack_set(led)
               PROVE  grace = 1 /\ packs[p] = "young"
    OBVIOUS
  <2>1. packs' = Restored(DOMAIN quar \cap live_pack_set(led))
    BY SweepSteps DEF sweep_quarantine
  <2>2. p \in DOMAIN packs
    BY <2>1 DEF Restored
  <2>3. QED
    BY <2>2 DEF SweepLeaves
<1>4. QED
  BY <1>1, <1>2, <1>3, PTL DEF Spec, GcReclaims

=============================================================================
