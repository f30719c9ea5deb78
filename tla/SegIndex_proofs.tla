-------------------------- MODULE SegIndex_proofs --------------------------
(***************************************************************************)
(* Proofs about the segmented ledger: whatever the writer was doing, the   *)
(* store opens to the ledger of the last save, its counts are exact, and a *)
(* reader holds one generation.                                            *)
(***************************************************************************)
EXTENDS SegIndex, Orders_proofs

-----------------------------------------------------------------------------
(* The inductive invariant *)

Table      == [Chunks -> Int]
AssetTable == [Assets -> SUBSET Chunks]
Records    == UNION {[D -> Int] : D \in SUBSET Chunks}
Segments   == [kind : {"base", "delta"}, recs : Records]
Dir        == [has : SUBSET {"root", "assets"}, root : Seq(Segments), assets : AssetTable]

Steps == {"begin", "segment", "assets", "root", "swap"}

Types ==
    /\ mono \in [gen : Nat, table : Table, assets : AssetTable]
    /\ cur \in Nat
    /\ DOMAIN dirs \subseteq Nat /\ dirs \in [DOMAIN dirs -> Dir]
    /\ pc \in Steps \cup {"idle", "down", "reload", "prune", "pool", "cleanup"}
    /\ job \in {"commit", "compact", "migrate"}
    /\ gen \in Nat
    /\ segs \in Seq(Segments)
    /\ seg \in BOOLEAN
    /\ table \in Table
    /\ assets \in AssetTable
    /\ dirty \in Records
    /\ rd \in [Readers -> [at : {"out", "sweep", "root", "assets", "done"}, cur : Nat,
                           table : Table, assets : AssetTable]]
    /\ lost \in BOOLEAN /\ swept \in BOOLEAN

\* Every root on the disk has its segments, and CURRENT names a generation
\* that opens.
Disk ==
    /\ \A g \in DOMAIN dirs : ToSet(dirs[g].root) \subseteq pool
    /\ cur # 0 => Opens(cur)
    /\ pc = "prune" => \A g \in DOMAIN dirs : g <= cur

\* What the process holds is what CURRENT names.
Memory ==
    /\ pc \notin {"down", "reload"} => (seg <=> cur # 0)
    /\ pc = "down" => ~seg
    /\ pc \in {"prune", "pool", "cleanup"} => cur # 0
    /\ seg /\ pc # "reload" => gen = cur /\ segs = LookupOrder(dirs[cur].root)
    /\ cur = 0 /\ pc # "down" => mono = [gen |-> gen, table |-> table, assets |-> assets]
    /\ pc \in {"idle", "down"} => job = "commit"
    /\ pc \in Steps \cup {"reload"} => (seg <=> job # "migrate")
    /\ job # "commit" => dirty = NoRecords

\* What a save has written by the time it stands at pc.
Staged ==
    /\ pc \in Steps \ {"begin"} => next \in DOMAIN dirs
    /\ pc \in {"assets", "root", "swap"} => ToSet(Root) \subseteq pool
    /\ pc \in {"root", "swap"} => dirs[next].assets = assets /\ "assets" \in dirs[next].has
    /\ pc = "swap" => dirs[next].root = Root /\ "root" \in dirs[next].has
    /\ pc = "reload" => cur = next /\ LedgerOf(cur) = Saving

\* When the ledger in memory is the one a restart would find.
Settled ==
    /\ pc \in {"prune", "pool", "cleanup"} => Durable = View
    /\ job # "commit" => Durable = View
    /\ pc = "idle" /\ (result = "ok" \/ ~lost) => Durable = View

Counted == ~lost => Exact(Durable) /\ (pc \in Steps => Exact(Saving))

\* A reader is at a generation CURRENT named, which is not written any more.
Reading ==
    \A r \in Readers :
        LET g == rd[r].cur IN
        /\ rd[r].at # "out" => 0 < g /\ g <= cur
        /\ rd[r].at \in {"assets", "done"} /\ g \in DOMAIN dirs =>
               rd[r].table = Live(LookupOrder(dirs[g].root))
        /\ rd[r].at = "done" /\ g \in DOMAIN dirs => rd[r].assets = dirs[g].assets

Whole == Disk /\ Memory /\ Staged /\ Settled /\ Counted /\ Reading

\* All of it as long as no reader swept a generation from under the writer.
Inv == Types /\ (~swept => Whole)

-----------------------------------------------------------------------------
(* Looking a chunk up *)

\* The segments of a root are strictly ordered: the newest delta first, then
\* the bases as they stand.
LEMMA EarlierOrders ==
  ASSUME NEW root \in Seq(Segments)
  PROVE  /\ Len(root) \in Nat /\ DOMAIN root = 1..Len(root)
         /\ IsFiniteSet(DOMAIN root) /\ Cardinality(DOMAIN root) = Len(root)
         /\ StrictlyOrders(Earlier(root), DOMAIN root)
<1>1. Len(root) \in Nat /\ DOMAIN root = 1..Len(root)
  OBVIOUS
<1>2. IsFiniteSet(1..Len(root)) /\ Cardinality(1..Len(root)) = Len(root)
  BY <1>1, FS_Interval
<1>3. \A i, j \in DOMAIN root :
         <<i, j>> \in Earlier(root) <=>
           \/ root[i].kind = "delta" /\ (root[j].kind = "delta" => i > j)
           \/ root[i].kind # "delta" /\ root[j].kind # "delta" /\ i < j
  BY DEF Earlier
<1>4. StrictlyOrders(Earlier(root), DOMAIN root)
  <2>1. ASSUME NEW x \in DOMAIN root
        PROVE  <<x, x>> \notin Earlier(root)
    BY <1>1, <1>3
  <2>2. ASSUME NEW x \in DOMAIN root, NEW y \in DOMAIN root, NEW z \in DOMAIN root,
               <<x, y>> \in Earlier(root), <<y, z>> \in Earlier(root)
        PROVE  <<x, z>> \in Earlier(root)
    BY <1>1, <1>3, <2>2
  <2>3. ASSUME NEW x \in DOMAIN root, NEW y \in DOMAIN root
        PROVE  x = y \/ <<x, y>> \in Earlier(root) \/ <<y, x>> \in Earlier(root)
    BY <1>1, <1>3
  <2>4. QED
    BY <2>1, <2>2, <2>3 DEF StrictlyOrders
<1>5. QED
  BY <1>1, <1>2, <1>4

\* The places in a root whose segments have a record of c.
Holding(root, c) == {i \in DOMAIN root : c \in DOMAIN root[i].recs}

\* i is the one of them that is looked at first.
Decides(root, c, i) ==
    /\ i \in Holding(root, c)
    /\ \A j \in Holding(root, c) : j = i \/ <<i, j>> \in Earlier(root)

\* A lookup finds the record of the first segment that has one.
LEMMA LookupDecides ==
  ASSUME NEW root \in Seq(Segments), NEW c
  PROVE  /\ Holding(root, c) = {} => lookup(LookupOrder(root), c) = Tombstone
         /\ Holding(root, c) # {} =>
              \E i \in DOMAIN root : /\ Decides(root, c, i)
                                     /\ lookup(LookupOrder(root), c) = root[i].recs[c]
<1> DEFINE o == SortedBy(DOMAIN root, Earlier(root))
           ss == LookupOrder(root)
           hits == {k \in DOMAIN ss : c \in DOMAIN ss[k].recs}
<1>1. /\ Len(root) \in Nat /\ DOMAIN root = 1..Len(root)
      /\ IsFiniteSet(DOMAIN root) /\ Cardinality(DOMAIN root) = Len(root)
      /\ StrictlyOrders(Earlier(root), DOMAIN root)
  BY EarlierOrders
<1>2. /\ o \in [1..Len(root) -> DOMAIN root]
      /\ \A i \in DOMAIN root : \E k \in 1..Len(root) : o[k] = i
  <2> HIDE DEF ss, hits
  <2>1. /\ o \in [1..Cardinality(DOMAIN root) -> DOMAIN root]
        /\ \A i \in DOMAIN root : \E k \in 1..Cardinality(DOMAIN root) : o[k] = i
    BY <1>1, SortedByLists
  <2> HIDE DEF o
  <2>2. QED
    BY <1>1, <2>1
<1>3. \A k, l \in 1..Len(root) : k < l => <<o[k], o[l]>> \in Earlier(root)
  BY <1>1, SortedByOrdered
<1>4. /\ DOMAIN ss = 1..Len(root)
      /\ \A k \in 1..Len(root) : ss[k] = root[o[k]]
  BY <1>1 DEF LookupOrder
<1>5. lookup(ss, c) = IF hits = {} THEN Tombstone ELSE ss[Min(hits)].recs[c]
  BY DEF lookup
<1>6. hits \subseteq 1..Len(root) /\ \A k \in 1..Len(root) : k \in hits <=> o[k] \in Holding(root, c)
  BY <1>2, <1>4 DEF Holding
<1> HIDE DEF o, ss, hits
<1>7. hits = {} <=> Holding(root, c) = {}
  BY <1>2, <1>6 DEF Holding
<1>8. ASSUME hits # {}
      PROVE  \E i \in DOMAIN root : Decides(root, c, i) /\ lookup(ss, c) = root[i].recs[c]
  <2> DEFINE m == Min(hits)
  <2>1. m \in hits /\ \A k \in hits : m <= k
    BY <1>1, <1>6, <1>8, MinOf
  <2>2. m \in 1..Len(root) /\ o[m] \in Holding(root, c) /\ o[m] \in DOMAIN root
    BY <1>2, <1>6, <2>1
  <2>3. lookup(ss, c) = root[o[m]].recs[c]
    BY <1>4, <1>5, <1>8, <2>2
  <2> HIDE DEF m
  <2>4. ASSUME NEW j \in Holding(root, c)
        PROVE  j = o[m] \/ <<o[m], j>> \in Earlier(root)
    <3>1. PICK k \in 1..Len(root) : o[k] = j
      BY <1>2 DEF Holding
    <3>2. k \in hits
      BY <1>6, <3>1
    <3>3. m = k \/ m < k
      BY <1>1, <2>1, <2>2, <3>2
    <3>4. QED
      BY <1>3, <2>2, <3>1, <3>3
  <2>5. QED
    BY <2>2, <2>3, <2>4 DEF Decides
<1>9. QED
  BY <1>5, <1>7, <1>8 DEF ss

\* Only one segment decides.
LEMMA DecidesOnce ==
  ASSUME NEW root \in Seq(Segments), NEW c, NEW i, NEW j, Decides(root, c, i), Decides(root, c, j)
  PROVE  i = j
<1>1. i \in DOMAIN root /\ j \in DOMAIN root
  BY DEF Decides, Holding
<1>2. i = j \/ (<<i, j>> \in Earlier(root) /\ <<j, i>> \in Earlier(root))
  BY DEF Decides
<1>3. StrictlyOrders(Earlier(root), DOMAIN root)
  BY EarlierOrders
<1>4. QED
  BY <1>1, <1>2, <1>3 DEF StrictlyOrders

\* What segments hold in all is a table.
LEMMA LiveIsTable ==
  ASSUME NEW ss \in Seq(Segments)
  PROVE  Live(ss) \in Table
<1>1. ASSUME NEW c \in Chunks
      PROVE  lookup(ss, c) \in Int
  <2> DEFINE hits == {i \in DOMAIN ss : c \in DOMAIN ss[i].recs}
  <2>1. lookup(ss, c) = IF hits = {} THEN Tombstone ELSE ss[Min(hits)].recs[c]
    BY DEF lookup
  <2>2. hits \subseteq Nat
    OBVIOUS
  <2>3. ASSUME NEW i \in hits
        PROVE  ss[i].recs[c] \in Int
    <3>1. ss[i] \in Segments /\ c \in DOMAIN ss[i].recs
      OBVIOUS
    <3>2. ss[i].recs \in Records
      BY <3>1 DEF Segments
    <3>3. PICK D \in SUBSET Chunks : ss[i].recs \in [D -> Int]
      BY <3>2 DEF Records
    <3>4. QED
      BY <3>1, <3>3
  <2> HIDE DEF hits
  <2>4. hits # {} => Min(hits) \in hits
    BY <2>2, MinOf
  <2>5. QED
    BY <2>1, <2>3, <2>4 DEF Tombstone
<1>2. QED
  BY <1>1 DEF Live, Table

\* Ordering a root for lookups keeps it a sequence of segments.
LEMMA LookupOrderIsSeq ==
  ASSUME NEW root \in Seq(Segments)
  PROVE  LookupOrder(root) \in Seq(Segments)
<1> DEFINE o == SortedBy(DOMAIN root, Earlier(root))
<1>1. /\ Len(root) \in Nat /\ DOMAIN root = 1..Len(root)
      /\ IsFiniteSet(DOMAIN root) /\ Cardinality(DOMAIN root) = Len(root)
      /\ StrictlyOrders(Earlier(root), DOMAIN root)
  BY EarlierOrders
<1>2. o \in [1..Cardinality(DOMAIN root) -> DOMAIN root]
  BY <1>1, SortedByLists
<1>3. LookupOrder(root) = [k \in DOMAIN root |-> root[o[k]]]
  BY DEF LookupOrder
<1> HIDE DEF o
<1>4. \A k \in 1..Len(root) : root[o[k]] \in Segments
  BY <1>1, <1>2
<1>5. QED
  BY <1>1, <1>3, <1>4

\* A delta at the end of the root shadows what was there.
LEMMA LiveAppend ==
  ASSUME NEW root \in Seq(Segments), NEW d \in Records
  PROVE  /\ Append(root, Segment("delta", d)) \in Seq(Segments)
         /\ Live(LookupOrder(Append(root, Segment("delta", d)))) = Shadow(Live(LookupOrder(root)), d)
<1> DEFINE s == Segment("delta", d)
           n == Len(root)
           root2 == Append(root, s)
<1>1. s \in Segments /\ s.kind = "delta" /\ s.recs = d
  BY DEF Segment, Segments
<1> HIDE DEF s
<1>2. /\ root2 \in Seq(Segments)
      /\ n \in Nat /\ DOMAIN root = 1..n
      /\ DOMAIN root2 = 1..(n + 1)
      /\ \A i \in 1..n : root2[i] = root[i]
      /\ root2[n + 1] = s
  BY <1>1
<1> HIDE DEF root2, n
<1>3. \A i, j \in 1..n : <<i, j>> \in Earlier(root2) <=> <<i, j>> \in Earlier(root)
  BY <1>2 DEF Earlier
<1>4. \A j \in 1..n : <<n + 1, j>> \in Earlier(root2)
  BY <1>1, <1>2 DEF Earlier
<1>5. ASSUME NEW c \in Chunks
      PROVE  lookup(LookupOrder(root2), c) = IF c \in DOMAIN d THEN d[c] ELSE lookup(LookupOrder(root), c)
  <2>1. CASE c \in DOMAIN d
    <3>1. n + 1 \in Holding(root2, c)
      BY <1>1, <1>2, <2>1 DEF Holding
    <3>2. \A j \in Holding(root2, c) : j = n + 1 \/ j \in 1..n
      BY <1>2 DEF Holding
    <3>3. Decides(root2, c, n + 1)
      BY <1>4, <3>1, <3>2 DEF Decides
    <3>4. PICK i \in DOMAIN root2 : Decides(root2, c, i) /\ lookup(LookupOrder(root2), c) = root2[i].recs[c]
      BY <1>2, <3>1, LookupDecides
    <3>5. i = n + 1
      BY <1>2, <3>3, <3>4, DecidesOnce
    <3>6. QED
      BY <1>1, <1>2, <2>1, <3>4, <3>5
  <2>2. CASE c \notin DOMAIN d
    <3>1. Holding(root2, c) = Holding(root, c)
      <4>1. n + 1 \notin Holding(root2, c)
        BY <1>1, <1>2, <2>2 DEF Holding
      <4>2. \A j \in 1..n : j \in Holding(root2, c) <=> j \in Holding(root, c)
        BY <1>2 DEF Holding
      <4>3. Holding(root2, c) \subseteq 1..(n + 1) /\ Holding(root, c) \subseteq 1..n
        BY <1>2 DEF Holding
      <4>4. \A j \in 1..(n + 1) : j = n + 1 \/ j \in 1..n
        BY <1>2
      <4>5. QED
        BY <4>1, <4>2, <4>3, <4>4
    <3>2. Holding(root, c) \subseteq 1..n
      BY <1>2 DEF Holding
    <3>3. \A i \in 1..n : Decides(root2, c, i) => Decides(root, c, i) /\ root2[i] = root[i]
      BY <1>2, <1>3, <3>1, <3>2 DEF Decides
    <3>4. CASE Holding(root, c) = {}
      BY <1>2, <2>2, <3>1, <3>4, LookupDecides
    <3>5. CASE Holding(root, c) # {}
      <4>1. PICK i \in DOMAIN root2 : Decides(root2, c, i) /\ lookup(LookupOrder(root2), c) = root2[i].recs[c]
        BY <1>2, <3>1, <3>5, LookupDecides
      <4>2. PICK j \in DOMAIN root : Decides(root, c, j) /\ lookup(LookupOrder(root), c) = root[j].recs[c]
        BY <3>5, LookupDecides
      <4>3. i \in 1..n
        BY <3>1, <3>2, <4>1 DEF Decides
      <4>4. i = j
        BY <3>3, <4>1, <4>2, <4>3, DecidesOnce
      <4>5. QED
        BY <2>2, <3>3, <4>1, <4>2, <4>3, <4>4
    <3>6. QED
      BY <3>4, <3>5
  <2>3. QED
    BY <2>1, <2>2
<1>6. Live(LookupOrder(root2)) = Shadow(Live(LookupOrder(root)), d)
  BY <1>5 DEF Live, Shadow
<1>7. QED
  BY <1>2, <1>6 DEF root2, s

\* A record of every chunk that is there lies in one of the blocks.
LEMMA BlockOf ==
  ASSUME NEW n \in Nat, NEW T \in Nat, T > 0, NEW j \in 1..n
  PROVE  /\ (j - 1) \div T + 1 \in 1..((n + T - 1) \div T)
         /\ (n + T - 1) \div T \in Nat
<1> DEFINE q == (j - 1) \div T
           p == (n + T - 1) \div T
<1>1. q \in Nat /\ T * q <= j - 1
  OBVIOUS
<1>2. p \in Nat /\ n + T - 1 < T * p + T
  OBVIOUS
<1> HIDE DEF q, p
<1>3. ASSUME p <= q
      PROVE  FALSE
  <2>1. PICK d \in Nat : q = p + d
    BY <1>1, <1>2, <1>3
  <2>2. T * q = T * p + T * d /\ T * d \in Nat /\ T * p \in Nat
    BY <1>2, <2>1
  <2>3. QED
    BY <1>1, <1>2, <2>2
<1>4. q + 1 \in 1..p
  BY <1>1, <1>2, <1>3
<1>5. QED
  BY <1>2, <1>4 DEF q, p

\* The constants a segment's size and its chunks depend on.
LEMMA Constants ==
  SegTarget \in Nat /\ SegTarget > 0 /\ IsFiniteSet(Chunks) /\ Chunks \subseteq Int
<1>1. IsFiniteSet(Chunks) /\ Chunks = 1..Cardinality(Chunks)
  BY SegIndexAssumption
<1>2. SegTarget \in Nat /\ SegTarget > 0
  BY SegIndexAssumption
<1>3. Chunks \subseteq Int
  <2>1. PICK n : n = Cardinality(Chunks)
    OBVIOUS
  <2>2. Chunks = 1..n /\ n \in Nat
    BY <1>1, <2>1, FS_CardinalityType
  <2>3. QED
    BY <2>2
<1>4. QED
  BY <1>1, <1>2, <1>3

\* Bases written from a table hold that table.
LEMMA LiveBases ==
  ASSUME NEW t \in Table
  PROVE  Bases(t) \in Seq(Segments) /\ Live(LookupOrder(Bases(t))) = t
<1> DEFINE n == Cardinality(Present(t))
           order == {p \in Chunks \X Chunks : p[1] < p[2]}
           live == SortedBy(Present(t), order)
           part(i) == {live[j] : j \in {k \in 1..n : (k - 1) \div SegTarget = i - 1}}
           m == (n + SegTarget - 1) \div SegTarget
<1>1. SegTarget \in Nat /\ SegTarget > 0 /\ IsFiniteSet(Chunks) /\ Chunks \subseteq Int
  BY Constants
<1>2. IsFiniteSet(Present(t)) /\ Present(t) \subseteq Chunks
  BY <1>1, FS_Subset DEF Present
<1>3. StrictlyOrders(order, Present(t))
  <2>1. \A x, y \in Chunks : <<x, y>> \in order <=> x < y
    OBVIOUS
  <2> HIDE DEF order
  <2>2. \A x \in Present(t) : x \in Int /\ x \in Chunks
    BY <1>1, <1>2
  <2>3. \A x \in Present(t) : <<x, x>> \notin order
    BY <2>1, <2>2
  <2>4. \A x, y, z \in Present(t) : <<x, y>> \in order /\ <<y, z>> \in order => <<x, z>> \in order
    BY <2>1, <2>2
  <2>5. \A x, y \in Present(t) : x = y \/ <<x, y>> \in order \/ <<y, x>> \in order
    <3> SUFFICES ASSUME NEW x \in Present(t), NEW y \in Present(t)
                 PROVE  x = y \/ <<x, y>> \in order \/ <<y, x>> \in order
      OBVIOUS
    <3>1. x \in Int /\ y \in Int /\ x \in Chunks /\ y \in Chunks
      BY <2>2
    <3>2. x = y \/ x < y \/ y < x
      BY <3>1
    <3>3. QED
      BY <2>1, <3>1, <3>2
  <2>6. QED
    BY <2>3, <2>4, <2>5 DEF StrictlyOrders
<1>4. /\ n \in Nat
      /\ live \in [1..n -> Present(t)]
      /\ \A c \in Present(t) : \E k \in 1..n : live[k] = c
  <2> HIDE DEF order
  <2>1. QED
    BY <1>2, <1>3, SortedByLists
<1>5. Bases(t) = [i \in 1..m |-> Segment("base", [c \in part(i) |-> t[c]])]
  BY DEF Bases
<1> HIDE DEF live, n, order
<1>6. m \in Nat
  <2>1. n + SegTarget - 1 \in Nat
    BY <1>1, <1>4
  <2>2. QED
    BY <1>1, <2>1
<1>7. \A i \in 1..m : part(i) \subseteq Present(t)
  BY <1>4
<1>8. \A c \in Present(t) : \E i \in 1..m : c \in part(i)
  <2> TAKE c \in Present(t)
  <2>1. PICK k \in 1..n : live[k] = c
    BY <1>4
  <2>2. (k - 1) \div SegTarget + 1 \in 1..m
    BY <1>1, <1>4, BlockOf
  <2>3. (k - 1) \div SegTarget \in Int
    BY <1>1, <1>4
  <2>4. c \in part((k - 1) \div SegTarget + 1)
    BY <2>1, <2>3
  <2>5. QED
    BY <2>2, <2>4
<1> HIDE DEF part, m
<1>9. \A i \in 1..m : /\ Bases(t)[i] = [kind |-> "base", recs |-> [c \in part(i) |-> t[c]]]
                      /\ Bases(t)[i] \in Segments
  <2> TAKE i \in 1..m
  <2>1. Bases(t)[i] = [kind |-> "base", recs |-> [c \in part(i) |-> t[c]]]
    BY <1>5 DEF Segment
  <2>2. part(i) \in SUBSET Chunks
    BY <1>2, <1>7
  <2>3. [c \in part(i) |-> t[c]] \in [part(i) -> Int]
    BY <2>2 DEF Table
  <2>4. [c \in part(i) |-> t[c]] \in Records
    BY <2>2, <2>3 DEF Records
  <2>5. QED
    BY <2>1, <2>4 DEF Segments
<1>10. Bases(t) \in Seq(Segments) /\ DOMAIN Bases(t) = 1..m
  <2>1. \E f : Bases(t) = [i \in 1..m |-> f[i]]
    <3>1. Bases(t) = [i \in 1..m |-> Bases(t)[i]]
      BY <1>5
    <3>2. QED
      BY <3>1
  <2>2. PICK f : Bases(t) = [i \in 1..m |-> f[i]]
    BY <2>1
  <2>3. \A i \in 1..m : f[i] \in Segments
    BY <1>9, <2>2
  <2>4. [i \in 1..m |-> f[i]] \in Seq(Segments)
    BY <1>6, <2>3
  <2>5. QED
    BY <2>2, <2>4
<1>11. ASSUME NEW c \in Chunks
       PROVE  lookup(LookupOrder(Bases(t)), c) = t[c]
  <2>1. \A i \in Holding(Bases(t), c) : c \in Present(t) /\ Bases(t)[i].recs[c] = t[c]
    BY <1>7, <1>9, <1>10 DEF Holding
  <2>2. c \in Present(t) => Holding(Bases(t), c) # {}
    BY <1>8, <1>9, <1>10 DEF Holding
  <2>3. CASE Holding(Bases(t), c) = {}
    BY <1>10, <2>2, <2>3, LookupDecides DEF Present
  <2>4. CASE Holding(Bases(t), c) # {}
    <3>1. PICK i \in DOMAIN Bases(t) : Decides(Bases(t), c, i)
                                       /\ lookup(LookupOrder(Bases(t)), c) = Bases(t)[i].recs[c]
      BY <1>10, <2>4, LookupDecides
    <3>2. QED
      BY <2>1, <3>1 DEF Decides
  <2>5. QED
    BY <2>3, <2>4
<1>12. Live(LookupOrder(Bases(t))) = t
  BY <1>11 DEF Live, Table
<1>13. QED
  BY <1>10, <1>12

\* Nothing on top of a table leaves it.
LEMMA ShadowNone ==
  ASSUME NEW t \in Table
  PROVE  Shadow(t, NoRecords) = t
  BY DEF Shadow, NoRecords, Table

-----------------------------------------------------------------------------
(* The callers of save_index keep the counts exact *)

Users(as, c) == {a \in Assets : c \in as[a]}

\* How many assets reference a chunk after one asset is replaced.
LEMMA UsersChange ==
  ASSUME NEW as \in AssetTable, NEW a \in Assets, NEW cs \in SUBSET Chunks, NEW c
  PROVE  LET u == Cardinality(Users(as, c))
             v == Cardinality(Users([as EXCEPT ![a] = cs], c))
         IN  /\ u \in Nat /\ v \in Nat
             /\ c \in as[a] => u > 0
             /\ c \in cs /\ c \notin as[a] => v = u + 1
             /\ c \notin cs /\ c \in as[a] => v = u - 1
             /\ (c \in cs <=> c \in as[a]) => v = u
<1> DEFINE as2 == [as EXCEPT ![a] = cs]
           U == Users(as, c)
           V == Users(as2, c)
<1>1. IsFiniteSet(Assets)
  BY SegIndexAssumption
<1>2. IsFiniteSet(U) /\ IsFiniteSet(V)
  BY <1>1, FS_Subset DEF Users
<1>3. Cardinality(U) \in Nat /\ Cardinality(V) \in Nat
  BY <1>2, FS_CardinalityType
<1>4. /\ a \in U <=> c \in as[a]
      /\ a \in V <=> c \in cs
      /\ \A x \in Assets : x # a => (x \in U <=> x \in V)
      /\ U \subseteq Assets /\ V \subseteq Assets
  BY DEF Users, AssetTable
<1> HIDE DEF U, V
<1>5. c \in as[a] => Cardinality(U) > 0
  <2>1. U # {} => Cardinality(U) # 0
    BY <1>2, FS_EmptySet
  <2>2. c \in as[a] => U # {}
    BY <1>4
  <2>3. \A k \in Nat : k # 0 => k > 0
    OBVIOUS
  <2>4. QED
    BY <1>3, <2>1, <2>2, <2>3
<1>6. c \in cs /\ c \notin as[a] => Cardinality(V) = Cardinality(U) + 1
  <2>1. c \in cs /\ c \notin as[a] => V = U \cup {a} /\ a \notin U
    BY <1>4
  <2>2. QED
    BY <1>2, <2>1, FS_AddElement
<1>7. c \notin cs /\ c \in as[a] => Cardinality(V) = Cardinality(U) - 1
  <2>1. c \notin cs /\ c \in as[a] => V = U \ {a} /\ a \in U
    BY <1>4
  <2>2. QED
    BY <1>2, <2>1, FS_RemoveElement
<1>8. (c \in cs <=> c \in as[a]) => Cardinality(V) = Cardinality(U)
  <2>1. ASSUME c \in cs <=> c \in as[a]
        PROVE  V = U
    <3>1. a \in U <=> a \in V
      BY <1>4, <2>1
    <3>2. \A x \in Assets : x \in U <=> x \in V
      BY <1>4, <3>1
    <3>3. QED
      BY <1>4, <3>2
  <2>2. QED
    BY <2>1
<1>9. QED
  BY <1>3, <1>5, <1>6, <1>7, <1>8 DEF U, V

\* Exact, chunk by chunk.
LEMMA ExactIff ==
  ASSUME NEW t, NEW as
  PROVE  Exact(Ledger(t, as)) <=>
           \A c \in Chunks : IF Cardinality(Users(as, c)) = 0 THEN t[c] \in {Tombstone, 0}
                             ELSE t[c] = Cardinality(Users(as, c))
<1>1. Ledger(t, as).table = t /\ Ledger(t, as).assets = as
  BY DEF Ledger
<1> HIDE DEF Ledger
<1>2. QED
  BY <1>1 DEF Exact, Users

\* The table a process works with is a table.
LEMMA BaseIsTable ==
  ASSUME Types
  PROVE  Base \in Table
<1>1. segs \in Seq(Segments) /\ table \in Table /\ seg \in BOOLEAN
  BY DEF Types
<1>2. Live(segs) \in Table
  BY <1>1, LiveIsTable
<1>3. QED
  BY <1>1, <1>2 DEF Base

\* What a caller hands to save_index: records and an asset table that leave
\* exact counts exact.
Saves(over, as) ==
    /\ over \in Records /\ as \in AssetTable
    /\ Exact(View) => Exact(Ledger(Shadow(Base, over), as))
    /\ save_index(over, as)

\* Publishing takes the new references and drops the old ones.
LEMMA PublishSaves ==
  ASSUME Types, NEW a \in Assets, NEW cs \in Contents, publish_asset(a, cs)
  PROVE  \E over, as : Saves(over, as)
<1> DEFINE t0 == Base
           t1 == [c \in Chunks |-> IF c \in cs /\ t0[c] = Tombstone THEN 0 ELSE t0[c]]
           t2 == [c \in Chunks |-> IF c \in assets[a] /\ t1[c] # Tombstone THEN Less(t1[c]) ELSE t1[c]]
           D == cs \cup (assets[a] \cap Present(t1))
           over == [c \in D |-> IF c \in cs THEN t2[c] + 1 ELSE t2[c]]
           as == [assets EXCEPT ![a] = cs]
<1>1. t0 \in Table /\ assets \in AssetTable /\ cs \in SUBSET Chunks
  BY BaseIsTable, SegIndexAssumption DEF Types
<1>2. save_index(over, as)
  BY DEF publish_asset
<1> HIDE DEF t0
<1>3. as \in AssetTable
  BY <1>1 DEF AssetTable
<1>4. t1 \in Table
  BY <1>1 DEF Table
<1>5. t2 \in Table
  BY <1>4 DEF Table, Less
<1>6. D \in SUBSET Chunks
  BY <1>1 DEF Present
<1> HIDE DEF D, t1, t2, as
<1>7. over \in [D -> Int]
  BY <1>5, <1>6 DEF Table
<1>8. over \in Records
  BY <1>6, <1>7 DEF Records
<1>9. Exact(View) => Exact(Ledger(Shadow(Base, over), as))
  <2> SUFFICES ASSUME Exact(View)
               PROVE  Exact(Ledger(Shadow(t0, over), as))
    BY DEF t0
  <2>1. \A c \in Chunks : IF Cardinality(Users(assets, c)) = 0 THEN t0[c] \in {Tombstone, 0}
                          ELSE t0[c] = Cardinality(Users(assets, c))
    BY ExactIff DEF View, t0
  <2>2. ASSUME NEW c \in Chunks
        PROVE  IF Cardinality(Users(as, c)) = 0 THEN Shadow(t0, over)[c] \in {Tombstone, 0}
               ELSE Shadow(t0, over)[c] = Cardinality(Users(as, c))
    <3> DEFINE u == Cardinality(Users(assets, c))
               v == Cardinality(Users(as, c))
    <3>1. /\ u \in Nat /\ v \in Nat
          /\ c \in assets[a] => u > 0
          /\ c \in cs /\ c \notin assets[a] => v = u + 1
          /\ c \notin cs /\ c \in assets[a] => v = u - 1
          /\ (c \in cs <=> c \in assets[a]) => v = u
      BY <1>1, UsersChange DEF as
    <3>2. IF u = 0 THEN t0[c] \in {Tombstone, 0} ELSE t0[c] = u
      BY <2>1
    <3> HIDE DEF u, v
    <3>3. t1[c] = IF c \in cs /\ t0[c] = Tombstone THEN 0 ELSE t0[c]
      BY DEF t1
    <3>4. t2[c] = IF c \in assets[a] /\ t1[c] # Tombstone THEN Less(t1[c]) ELSE t1[c]
      BY DEF t2
    <3>5. c \in D <=> c \in cs \/ (c \in assets[a] /\ t1[c] # Tombstone)
      BY DEF D, Present
    <3>6. Shadow(t0, over)[c] = IF c \in D THEN (IF c \in cs THEN t2[c] + 1 ELSE t2[c]) ELSE t0[c]
      BY DEF Shadow
    <3>7. IF v = 0 THEN Shadow(t0, over)[c] \in {Tombstone, 0} ELSE Shadow(t0, over)[c] = v
      BY <3>1, <3>2, <3>3, <3>4, <3>5, <3>6 DEF Less, Tombstone
    <3>8. QED
      BY <3>7 DEF v
  <2> HIDE DEF over
  <2>3. QED
    BY <2>2, ExactIff
<1> HIDE DEF over
<1>10. QED
  BY <1>2, <1>3, <1>8, <1>9 DEF Saves

\* Unpublishing drops the references of the asset.
LEMMA UnpublishSaves ==
  ASSUME Types, NEW a \in Assets, unpublish_asset(a)
  PROVE  \E over, as : Saves(over, as)
<1> DEFINE t0 == Base
           D == assets[a] \cap Present(t0)
           over == [c \in D |-> Less(t0[c])]
           as == [assets EXCEPT ![a] = {}]
<1>1. t0 \in Table /\ assets \in AssetTable
  BY BaseIsTable DEF Types
<1>2. save_index(over, as)
  BY DEF unpublish_asset
<1> HIDE DEF t0
<1>3. as \in AssetTable
  BY <1>1 DEF AssetTable
<1>4. D \in SUBSET Chunks
  BY <1>1 DEF Present
<1> HIDE DEF D, as
<1>5. over \in [D -> Int]
  BY <1>1, <1>4 DEF Table, Less
<1>6. over \in Records
  BY <1>4, <1>5 DEF Records
<1>7. Exact(View) => Exact(Ledger(Shadow(Base, over), as))
  <2> SUFFICES ASSUME Exact(View)
               PROVE  Exact(Ledger(Shadow(t0, over), as))
    BY DEF t0
  <2>1. \A c \in Chunks : IF Cardinality(Users(assets, c)) = 0 THEN t0[c] \in {Tombstone, 0}
                          ELSE t0[c] = Cardinality(Users(assets, c))
    BY ExactIff DEF View, t0
  <2>2. ASSUME NEW c \in Chunks
        PROVE  IF Cardinality(Users(as, c)) = 0 THEN Shadow(t0, over)[c] \in {Tombstone, 0}
               ELSE Shadow(t0, over)[c] = Cardinality(Users(as, c))
    <3> DEFINE u == Cardinality(Users(assets, c))
               v == Cardinality(Users(as, c))
    <3>1. /\ u \in Nat /\ v \in Nat
          /\ c \in assets[a] => u > 0
          /\ c \in assets[a] => v = u - 1
          /\ c \notin assets[a] => v = u
      <4>1. {} \in SUBSET Chunks /\ c \notin {}
        OBVIOUS
      <4>2. as = [assets EXCEPT ![a] = {}]
        BY DEF as
      <4>3. /\ u \in Nat /\ v \in Nat
            /\ c \in assets[a] => u > 0
            /\ c \notin {} /\ c \in assets[a] => v = u - 1
            /\ (c \in {} <=> c \in assets[a]) => v = u
        BY <1>1, <4>1, <4>2, UsersChange
      <4> HIDE DEF u, v
      <4>4. QED
        BY <4>3
    <3>2. IF u = 0 THEN t0[c] \in {Tombstone, 0} ELSE t0[c] = u
      BY <2>1
    <3> HIDE DEF u, v
    <3>3. c \in D <=> c \in assets[a] /\ t0[c] # Tombstone
      BY DEF D, Present
    <3>4. Shadow(t0, over)[c] = IF c \in D THEN Less(t0[c]) ELSE t0[c]
      BY DEF Shadow
    <3>5. IF v = 0 THEN Shadow(t0, over)[c] \in {Tombstone, 0} ELSE Shadow(t0, over)[c] = v
      BY <3>1, <3>2, <3>3, <3>4 DEF Less, Tombstone
    <3>6. QED
      BY <3>5 DEF v
  <2> HIDE DEF over
  <2>3. QED
    BY <2>2, ExactIff
<1> HIDE DEF over
<1>8. QED
  BY <1>2, <1>3, <1>6, <1>7 DEF Saves

\* gc drops records whose count is zero, which no asset references.
LEMMA GcSaves ==
  ASSUME Types, gc
  PROVE  \E over, as : Saves(over, as)
<1>1. PICK cs \in SUBSET {c \in Chunks : Base[c] = 0} : save_index([c \in cs |-> Tombstone], assets)
  BY DEF gc
<1> DEFINE t0 == Base
           over == [c \in cs |-> Tombstone]
<1>2. assets \in AssetTable
  BY DEF Types
<1>3. cs \in SUBSET Chunks /\ \A c \in cs : t0[c] = 0
  OBVIOUS
<1>4. over \in [cs -> Int]
  BY DEF Tombstone
<1>5. over \in Records
  BY <1>3, <1>4 DEF Records
<1>6. Exact(View) => Exact(Ledger(Shadow(t0, over), assets))
  <2> SUFFICES ASSUME Exact(View)
               PROVE  Exact(Ledger(Shadow(t0, over), assets))
    OBVIOUS
  <2>1. \A c \in Chunks : IF Cardinality(Users(assets, c)) = 0 THEN t0[c] \in {Tombstone, 0}
                          ELSE t0[c] = Cardinality(Users(assets, c))
    BY ExactIff DEF View
  <2> HIDE DEF t0
  <2>2. \A c \in Chunks : Shadow(t0, over)[c] = IF c \in cs THEN Tombstone ELSE t0[c]
    BY DEF Shadow
  <2> HIDE DEF over
  <2>3. \A c \in Chunks : IF Cardinality(Users(assets, c)) = 0 THEN Shadow(t0, over)[c] \in {Tombstone, 0}
                          ELSE Shadow(t0, over)[c] = Cardinality(Users(assets, c))
    BY <1>3, <2>1, <2>2
  <2>4. QED
    BY <2>3, ExactIff
<1>7. QED
  BY <1>1, <1>2, <1>5, <1>6 DEF Saves

-----------------------------------------------------------------------------
(* Types *)

\* What the new root lists are segments.
LEMMA RootIsSeq ==
  ASSUME Types, RootReadable
  PROVE  Root \in Seq(Segments)
<1>1. /\ job \in {"commit", "compact", "migrate"}
      /\ table \in Table /\ segs \in Seq(Segments) /\ dirty \in Records
      /\ dirs \in [DOMAIN dirs -> Dir]
  BY DEF Types
<1>2. CASE job = "migrate"
  BY <1>1, <1>2, LiveBases DEF Root
<1>3. CASE job = "compact"
  <2>1. Live(segs) \in Table
    BY <1>1, LiveIsTable
  <2>2. Root = Bases(Live(segs))
    BY <1>3 DEF Root
  <2>3. QED
    BY <2>1, <2>2, LiveBases
<1>4. CASE job = "commit"
  <2>1. dirs[gen] \in Dir
    BY <1>1, <1>4 DEF RootReadable
  <2>2. dirs[gen].root \in Seq(Segments)
    BY <2>1 DEF Dir
  <2>3. Append(dirs[gen].root, Segment("delta", dirty)) \in Seq(Segments)
    BY <1>1, <2>2, LiveAppend
  <2>4. Root = IF dirty = NoRecords THEN dirs[gen].root
               ELSE Append(dirs[gen].root, Segment("delta", dirty))
    BY <1>4 DEF Root
  <2>5. QED
    BY <2>2, <2>3, <2>4
<1>5. QED
  BY <1>1, <1>2, <1>3, <1>4

\* The empty tables are tables.
LEMMA EmptyTables ==
  NoTable \in Table /\ NoAssets \in AssetTable /\ NoRecords \in Records /\ EmptyDir \in Dir
<1>1. NoTable \in Table /\ NoAssets \in AssetTable
  BY DEF NoTable, NoAssets, Tombstone, Table, AssetTable
<1>2. NoRecords \in [{} -> Int]
  BY DEF NoRecords
<1>3. NoRecords \in Records
  BY <1>2 DEF Records
<1>4. <<>> \in Seq(Segments)
  OBVIOUS
<1>5. EmptyDir \in Dir
  BY <1>1, <1>4 DEF EmptyDir, Dir
<1>6. QED
  BY <1>1, <1>3, <1>5

\* A table with records on top of it is a table.
LEMMA ShadowIsTable ==
  ASSUME NEW t \in Table, NEW over \in Records
  PROVE  Shadow(t, over) \in Table
<1>1. PICK D \in SUBSET Chunks : over \in [D -> Int]
  BY DEF Records
<1>2. QED
  BY <1>1 DEF Shadow, Table

\* The types of the disk and of the process that writes.
DiskTypes ==
    /\ mono \in [gen : Nat, table : Table, assets : AssetTable]
    /\ cur \in Nat
    /\ DOMAIN dirs \subseteq Nat /\ dirs \in [DOMAIN dirs -> Dir]

WriterTypes ==
    /\ pc \in Steps \cup {"idle", "down", "reload", "prune", "pool", "cleanup"}
    /\ job \in {"commit", "compact", "migrate"}
    /\ gen \in Nat
    /\ segs \in Seq(Segments)
    /\ seg \in BOOLEAN
    /\ table \in Table
    /\ assets \in AssetTable
    /\ dirty \in Records

ReaderTypes ==
    rd \in [Readers -> [at : {"out", "sweep", "root", "assets", "done"}, cur : Nat,
                        table : Table, assets : AssetTable]]

\* Types is made of the three and the two flags.
LEMMA TypesParts ==
  Types <=> DiskTypes /\ WriterTypes /\ ReaderTypes /\ lost \in BOOLEAN /\ swept \in BOOLEAN
  BY DEF Types, DiskTypes, WriterTypes, ReaderTypes

\* Sweeping and other removals keep directories what they are.
LEMMA DirsKept ==
  ASSUME DiskTypes, NEW G \in SUBSET DOMAIN dirs, dirs' = [g \in G |-> dirs[g]]
  PROVE  DOMAIN dirs' \subseteq Nat /\ dirs' \in [DOMAIN dirs' -> Dir]
<1>1. DOMAIN dirs' = G
  OBVIOUS
<1>2. \A g \in G : dirs[g] \in Dir
  BY DEF DiskTypes
<1>3. QED
  BY <1>1, <1>2 DEF DiskTypes

\* The types hold at the start.
LEMMA TypesInit == Init => Types
<1> SUFFICES ASSUME Init PROVE Types
  OBVIOUS
<1>1. DiskTypes
  <2>1. mono \in [gen : Nat, table : Table, assets : AssetTable] /\ cur \in Nat
    BY EmptyTables DEF Init
  <2>2. DOMAIN dirs = {}
    BY DEF Init
  <2>3. dirs \in [{} -> Dir]
    BY DEF Init
  <2>4. QED
    BY <2>1, <2>2, <2>3 DEF DiskTypes
<1>2. WriterTypes
  <2>1. <<>> \in Seq(Segments)
    OBVIOUS
  <2>2. QED
    BY <2>1, EmptyTables DEF Init, WriterTypes
<1>3. ReaderTypes
  BY EmptyTables DEF Init, ReaderTypes
<1>4. QED
  BY <1>1, <1>2, <1>3, TypesParts DEF Init

\* Every step is one of a save's caller, of the save, or of a reader.
LEMMA NextCases ==
  ASSUME Types, Next
  PROVE  \/ \E over, as : Saves(over, as)
         \/ migrate \/ begin \/ write_segment \/ write_assets \/ write_root \/ swap_current
         \/ reload \/ prune_generations \/ prune_pool \/ remove_monolithic
         \/ save_fails \/ crash \/ open
         \/ \E r \in Readers : \/ read_current(r) \/ read_sweep(r) \/ read_root(r)
                               \/ read_assets(r) \/ refresh(r)
<1>1. CASE \E a \in Assets, cs \in Contents : publish_asset(a, cs)
  BY <1>1, PublishSaves
<1>2. CASE \E a \in Assets : unpublish_asset(a)
  BY <1>2, UnpublishSaves
<1>3. CASE gc
  BY <1>3, GcSaves
<1>4. QED
  BY <1>1, <1>2, <1>3 DEF Next

\* A reader's step changes its own entry to one of the right type.
LEMMA ReaderTyped ==
  ASSUME ReaderTypes, NEW r \in Readers,
         NEW at \in {"out", "sweep", "root", "assets", "done"}, NEW g \in Nat,
         NEW t \in Table, NEW as \in AssetTable, Reader(r, at, g, t, as)
  PROVE  ReaderTypes'
  BY DEF ReaderTypes, Reader

\* The steps of the writing process keep the types.
LEMMA WriterTypesNext ==
  ASSUME Types,
         \/ \E over, as : Saves(over, as)
         \/ migrate \/ begin \/ write_segment \/ write_assets \/ write_root \/ swap_current
         \/ reload \/ prune_generations \/ prune_pool \/ remove_monolithic
         \/ save_fails \/ crash \/ open
  PROVE  Types'
<1>1. DiskTypes /\ WriterTypes /\ ReaderTypes /\ lost \in BOOLEAN /\ swept \in BOOLEAN
  BY TypesParts
<1>2. (DiskTypes /\ WriterTypes /\ ReaderTypes /\ lost \in BOOLEAN /\ swept \in BOOLEAN)' => Types'
  BY TypesParts, PTL
<1>3. ASSUME UNCHANGED rd
      PROVE  ReaderTypes'
  BY <1>1, <1>3 DEF ReaderTypes
<1>4. ASSUME UNCHANGED <<mono, cur, dirs>>
      PROVE  DiskTypes'
  BY <1>1, <1>4 DEF DiskTypes
<1>5. ASSUME NEW over, NEW as, Saves(over, as)
      PROVE  Types'
  <2>1. save_index(over, as) /\ over \in Records /\ as \in AssetTable
    BY <1>5 DEF Saves
  <2>2. Shadow(table, over) \in Table
    BY <1>1, <2>1, ShadowIsTable DEF WriterTypes
  <2>3. gen + 1 \in Nat /\ gen \in Nat
    BY <1>1 DEF WriterTypes
  <2>4. WriterTypes'
    BY <1>1, <2>1, <2>2, <2>3 DEF WriterTypes, save_index, Steps
  <2>5. DiskTypes'
    <3>1. mono' \in [gen : Nat, table : Table, assets : AssetTable]
      <4>1. mono' = mono \/ mono' = [gen |-> gen + 1, table |-> Shadow(table, over), assets |-> as]
        BY <2>1 DEF save_index
      <4>2. [gen |-> gen + 1, table |-> Shadow(table, over), assets |-> as]
               \in [gen : Nat, table : Table, assets : AssetTable]
        BY <2>1, <2>2, <2>3
      <4>3. QED
        BY <1>1, <4>1, <4>2 DEF DiskTypes
    <3>2. UNCHANGED <<cur, dirs>>
      BY <2>1 DEF save_index
    <3>3. QED
      BY <1>1, <3>1, <3>2 DEF DiskTypes
  <2>6. UNCHANGED rd /\ UNCHANGED <<lost, swept>>
    BY <2>1 DEF save_index, ghosts
  <2>7. QED
    BY <1>1, <1>2, <1>3, <2>4, <2>5, <2>6
<1>6. CASE migrate
  <2>1. WriterTypes'
    BY <1>1, <1>6, EmptyTables DEF WriterTypes, migrate, Steps
  <2>2. UNCHANGED <<mono, cur, dirs>> /\ UNCHANGED rd /\ UNCHANGED <<lost, swept>>
    BY <1>6 DEF migrate, disk, ghosts
  <2>3. QED
    BY <1>1, <1>2, <1>3, <1>4, <2>1, <2>2
<1>7. CASE begin
  <2>1. WriterTypes'
    BY <1>1, <1>7 DEF WriterTypes, begin, Steps
  <2>2. UNCHANGED <<mono, cur>> /\ UNCHANGED rd /\ UNCHANGED <<lost, swept>>
    BY <1>7 DEF begin, ghosts
  <2>3. gen + 1 \in Nat
    BY <1>1 DEF WriterTypes
  <2>4. /\ DOMAIN dirs' = DOMAIN dirs \cup {gen + 1}
        /\ dirs' = [g \in DOMAIN dirs \cup {gen + 1} |-> IF g \in DOMAIN dirs THEN dirs[g] ELSE EmptyDir]
    BY <1>7 DEF begin, next
  <2>5. \A g \in DOMAIN dirs \cup {gen + 1} : (IF g \in DOMAIN dirs THEN dirs[g] ELSE EmptyDir) \in Dir
    BY <1>1, EmptyTables DEF DiskTypes
  <2>6. dirs' \in [DOMAIN dirs' -> Dir]
    BY <2>4, <2>5
  <2>7. DiskTypes'
    BY <1>1, <2>2, <2>3, <2>4, <2>6 DEF DiskTypes
  <2>8. QED
    BY <1>1, <1>2, <1>3, <2>1, <2>2, <2>7
<1>8. CASE write_segment
  <2>1. WriterTypes'
    BY <1>1, <1>8 DEF WriterTypes, write_segment, Steps
  <2>2. UNCHANGED <<mono, cur, dirs>> /\ UNCHANGED rd /\ UNCHANGED <<lost, swept>>
    BY <1>8 DEF write_segment, ghosts
  <2>3. QED
    BY <1>1, <1>2, <1>3, <1>4, <2>1, <2>2
<1>9. ASSUME NEW file \in {"root", "assets"}, NEW root \in Seq(Segments), NEW as \in AssetTable,
             next \in DOMAIN dirs, dirs' = Put(next, file, root, as), UNCHANGED <<mono, cur>>
      PROVE  DiskTypes'
  <2>1. dirs[next] \in Dir
    BY <1>1, <1>9 DEF DiskTypes
  <2>2. [has |-> dirs[next].has \cup {file}, root |-> root, assets |-> as] \in Dir
    BY <2>1 DEF Dir
  <2>3. dirs' = [dirs EXCEPT ![next] = [has |-> dirs[next].has \cup {file}, root |-> root, assets |-> as]]
    BY <1>9 DEF Put
  <2>4. dirs' \in [DOMAIN dirs -> Dir]
    BY <1>1, <2>2, <2>3 DEF DiskTypes
  <2>5. QED
    BY <1>1, <1>9, <2>4 DEF DiskTypes
<1>10. CASE write_assets
  <2>1. WriterTypes'
    BY <1>1, <1>10 DEF WriterTypes, write_assets, Steps
  <2>2. UNCHANGED <<mono, cur>> /\ UNCHANGED rd /\ UNCHANGED <<lost, swept>>
    BY <1>10 DEF write_assets, ghosts
  <2>3. next \in DOMAIN dirs /\ dirs' = Put(next, "assets", dirs[next].root, assets)
    BY <1>10 DEF write_assets
  <2>4. dirs[next].root \in Seq(Segments) /\ assets \in AssetTable
    BY <1>1, <2>3 DEF DiskTypes, Dir, WriterTypes
  <2>5. DiskTypes'
    BY <1>9, <2>2, <2>3, <2>4
  <2>6. QED
    BY <1>1, <1>2, <1>3, <2>1, <2>2, <2>5
<1>11. CASE write_root
  <2>1. WriterTypes'
    BY <1>1, <1>11 DEF WriterTypes, write_root, Steps
  <2>2. UNCHANGED <<mono, cur>> /\ UNCHANGED rd /\ UNCHANGED <<lost, swept>>
    BY <1>11 DEF write_root, ghosts
  <2>3. next \in DOMAIN dirs /\ RootReadable /\ dirs' = Put(next, "root", Root, dirs[next].assets)
    BY <1>11 DEF write_root
  <2>4. Root \in Seq(Segments)
    BY <2>3, RootIsSeq
  <2>5. dirs[next].assets \in AssetTable
    BY <1>1, <2>3 DEF DiskTypes, Dir
  <2>6. DiskTypes'
    BY <1>9, <2>2, <2>3, <2>4, <2>5
  <2>7. QED
    BY <1>1, <1>2, <1>3, <2>1, <2>2, <2>6
<1>12. CASE swap_current
  <2>1. WriterTypes'
    BY <1>1, <1>12 DEF WriterTypes, swap_current, Steps
  <2>2. UNCHANGED <<mono, dirs>> /\ UNCHANGED rd /\ UNCHANGED <<lost, swept>> /\ cur' = gen + 1
    BY <1>12 DEF swap_current, ghosts, next
  <2>3. DiskTypes'
    BY <1>1, <2>2 DEF DiskTypes, WriterTypes
  <2>4. QED
    BY <1>1, <1>2, <1>3, <2>1, <2>2, <2>3
<1>13. ASSUME dirs' = SweepFrom(cur)
       PROVE  DOMAIN dirs' \subseteq Nat /\ dirs' \in [DOMAIN dirs' -> Dir]
  <2> DEFINE G == {x \in DOMAIN dirs : x <= cur}
  <2>1. dirs' = [h \in G |-> dirs[h]] /\ G \in SUBSET DOMAIN dirs
    BY <1>13 DEF SweepFrom
  <2> HIDE DEF G
  <2>2. QED
    BY <1>1, <2>1, DirsKept
<1>14. ASSUME Opens(cur)
       PROVE  LookupOrder(dirs[cur].root) \in Seq(Segments) /\ dirs[cur].assets \in AssetTable
  <2>1. dirs[cur].root \in Seq(Segments) /\ dirs[cur].assets \in AssetTable
    BY <1>1, <1>14 DEF Opens, DiskTypes, Dir
  <2>2. QED
    BY <2>1, LookupOrderIsSeq
<1>15. CASE reload
  <2>1. /\ Opens(cur) /\ dirs' = SweepFrom(cur)
        /\ gen' = cur /\ segs' = LookupOrder(dirs[cur].root) /\ seg' = TRUE
        /\ dirty' = NoRecords /\ table' = NoTable
        /\ pc' \in {"cleanup", "begin", "prune"}
        /\ job' \in {job, "compact"}
        /\ UNCHANGED <<mono, cur, assets>> /\ UNCHANGED rd /\ UNCHANGED <<lost, swept>>
    BY <1>15 DEF reload, ghosts
  <2>2. WriterTypes'
    BY <1>1, <1>14, <2>1, EmptyTables DEF WriterTypes, DiskTypes, Steps
  <2>3. DiskTypes'
    BY <1>1, <1>13, <2>1 DEF DiskTypes
  <2>4. QED
    BY <1>1, <1>2, <1>3, <2>1, <2>2, <2>3
<1>16. CASE prune_generations
  <2>1. WriterTypes'
    BY <1>1, <1>16 DEF WriterTypes, prune_generations, Steps
  <2>2. UNCHANGED <<mono, cur>> /\ UNCHANGED rd /\ UNCHANGED <<lost, swept>>
    BY <1>16 DEF prune_generations, ghosts
  <2> DEFINE G == Newest(DOMAIN dirs, 2)
  <2>3. dirs' = [g \in G |-> dirs[g]] /\ G \in SUBSET DOMAIN dirs
    BY <1>16 DEF prune_generations, Newest
  <2> HIDE DEF G
  <2>4. DiskTypes'
    BY <1>1, <2>2, <2>3, DirsKept DEF DiskTypes
  <2>5. QED
    BY <1>1, <1>2, <1>3, <2>1, <2>2, <2>4
<1>17. CASE prune_pool
  <2>1. WriterTypes'
    BY <1>1, <1>17 DEF WriterTypes, prune_pool, Steps
  <2>2. UNCHANGED <<mono, cur, dirs>> /\ UNCHANGED rd /\ UNCHANGED <<lost, swept>>
    BY <1>17 DEF prune_pool, ghosts
  <2>3. QED
    BY <1>1, <1>2, <1>3, <1>4, <2>1, <2>2
<1>18. CASE remove_monolithic
  <2>1. WriterTypes'
    BY <1>1, <1>18 DEF WriterTypes, remove_monolithic, Steps
  <2>2. /\ UNCHANGED <<cur, dirs>> /\ UNCHANGED rd /\ UNCHANGED <<lost, swept>>
        /\ mono' = [gen |-> 0, table |-> NoTable, assets |-> NoAssets]
    BY <1>18 DEF remove_monolithic, ghosts
  <2>3. mono' \in [gen : Nat, table : Table, assets : AssetTable]
    BY <2>2, EmptyTables
  <2>4. DiskTypes'
    BY <1>1, <2>2, <2>3 DEF DiskTypes
  <2>5. QED
    BY <1>1, <1>2, <1>3, <2>1, <2>2, <2>4
<1>19. CASE save_fails
  <2>1. WriterTypes'
    BY <1>1, <1>19, EmptyTables DEF WriterTypes, save_fails, Steps
  <2>2. UNCHANGED <<mono, cur, dirs>> /\ UNCHANGED rd /\ UNCHANGED swept /\ lost' \in BOOLEAN
    BY <1>1, <1>19 DEF save_fails, disk
  <2>3. QED
    BY <1>1, <1>2, <1>3, <1>4, <2>1, <2>2
<1>20. CASE crash
  <2>1. <<>> \in Seq(Segments)
    OBVIOUS
  <2>2. WriterTypes'
    BY <1>1, <1>20, <2>1, EmptyTables DEF WriterTypes, crash, Steps
  <2>3. UNCHANGED <<mono, cur, dirs>> /\ UNCHANGED rd /\ UNCHANGED <<lost, swept>>
    BY <1>20 DEF crash, disk, ghosts
  <2>4. QED
    BY <1>1, <1>2, <1>3, <1>4, <2>2, <2>3
<1>21. CASE open
  <2>1. UNCHANGED <<mono, cur>> /\ UNCHANGED rd /\ UNCHANGED <<lost, swept>>
    BY <1>21 DEF open, ghosts
  <2>2. DiskTypes'
    <3>1. dirs' = dirs \/ dirs' = SweepFrom(cur)
      BY <1>21 DEF open
    <3>2. QED
      BY <1>1, <1>13, <2>1, <3>1 DEF DiskTypes
  <2>3. WriterTypes'
    <3>1. CASE cur # 0
      BY <1>1, <1>14, <1>21, <3>1 DEF WriterTypes, DiskTypes, open, Steps
    <3>2. CASE cur = 0
      BY <1>1, <1>21, <3>2 DEF WriterTypes, DiskTypes, open, Steps
    <3>3. QED
      BY <3>1, <3>2
  <2>4. QED
    BY <1>1, <1>2, <1>3, <2>1, <2>2, <2>3
<1>22. QED
  BY <1>5, <1>6, <1>7, <1>8, <1>10, <1>11, <1>12, <1>15, <1>16, <1>17, <1>18, <1>19, <1>20, <1>21

\* So do the steps of the readers.
LEMMA ReaderTypesNext ==
  ASSUME Types, NEW r \in Readers,
         read_current(r) \/ read_sweep(r) \/ read_root(r) \/ read_assets(r) \/ refresh(r)
  PROVE  Types'
<1>1. DiskTypes /\ WriterTypes /\ ReaderTypes /\ lost \in BOOLEAN /\ swept \in BOOLEAN
  BY TypesParts
<1>2. (DiskTypes /\ WriterTypes /\ ReaderTypes /\ lost \in BOOLEAN /\ swept \in BOOLEAN)' => Types'
  BY TypesParts, PTL
<1>3. UNCHANGED writer /\ UNCHANGED <<mono, cur>> /\ UNCHANGED lost
  BY DEF read_current, read_sweep, read_root, read_assets, refresh, disk, ghosts
<1>4. WriterTypes'
  BY <1>1, <1>3 DEF WriterTypes, writer
<1>5. swept' \in BOOLEAN
  BY <1>1 DEF read_current, read_sweep, read_root, read_assets, refresh, ghosts
<1>6. DiskTypes'
  <2>1. CASE read_sweep(r)
    <3> DEFINE G == {x \in DOMAIN dirs : x <= rd[r].cur}
    <3>1. dirs' = [h \in G |-> dirs[h]] /\ G \in SUBSET DOMAIN dirs
      BY <2>1 DEF read_sweep, SweepFrom
    <3> HIDE DEF G
    <3>2. QED
      BY <1>1, <1>3, <3>1, DirsKept DEF DiskTypes
  <2>2. CASE read_current(r) \/ read_root(r) \/ read_assets(r) \/ refresh(r)
    <3>1. UNCHANGED dirs
      BY <2>2 DEF read_current, read_root, read_assets, refresh, disk
    <3>2. QED
      BY <1>1, <1>3, <3>1 DEF DiskTypes
  <2>3. QED
    BY <2>1, <2>2
<1>7. rd[r].cur \in Nat /\ rd[r].table \in Table /\ cur \in Nat
  BY <1>1 DEF ReaderTypes, DiskTypes
<1>8. ASSUME NEW g \in DOMAIN dirs
      PROVE  Live(LookupOrder(dirs[g].root)) \in Table /\ dirs[g].assets \in AssetTable
  <2>1. dirs[g].root \in Seq(Segments) /\ dirs[g].assets \in AssetTable
    BY <1>1 DEF DiskTypes, Dir
  <2>2. QED
    BY <2>1, LookupOrderIsSeq, LiveIsTable
<1>9. ReaderTypes'
  <2>1. CASE read_current(r)
    BY <1>1, <1>7, <2>1, ReaderTyped, EmptyTables DEF read_current
  <2>2. CASE read_sweep(r)
    BY <1>1, <1>7, <2>2, ReaderTyped, EmptyTables DEF read_sweep
  <2>3. CASE read_root(r)
    <3>1. \/ /\ rd[r].cur \in DOMAIN dirs
             /\ Reader(r, "assets", rd[r].cur, Live(LookupOrder(dirs[rd[r].cur].root)), NoAssets)
          \/ Reader(r, "out", 0, NoTable, NoAssets)
      BY <2>3 DEF read_root
    <3>2. QED
      BY <1>1, <1>7, <1>8, <3>1, ReaderTyped, EmptyTables
  <2>4. CASE read_assets(r)
    <3>1. \/ /\ rd[r].cur \in DOMAIN dirs
             /\ Reader(r, "done", rd[r].cur, rd[r].table, dirs[rd[r].cur].assets)
          \/ Reader(r, "out", 0, NoTable, NoAssets)
      BY <2>4 DEF read_assets
    <3>2. QED
      BY <1>1, <1>7, <1>8, <3>1, ReaderTyped, EmptyTables
  <2>5. CASE refresh(r)
    BY <1>1, <2>5, ReaderTyped, EmptyTables DEF refresh
  <2>6. QED
    BY <2>1, <2>2, <2>3, <2>4, <2>5
<1>10. QED
  BY <1>2, <1>3, <1>4, <1>5, <1>6, <1>9, <1>1

-----------------------------------------------------------------------------
(* What the invariant says of the save that runs *)

\* A store with a CURRENT is read from the generation it names.
LEMMA DurableIs ==
  ASSUME Disk
  PROVE  /\ cur # 0 => Durable = LedgerOf(cur) /\ cur \in DOMAIN dirs
         /\ cur = 0 => Durable = Ledger(mono.table, mono.assets)
  BY DEF Disk, Durable, Opens

\* A save writes to a generation after the one CURRENT names.
LEMMA NextIsNew ==
  ASSUME Types, Disk, Memory, pc \in Steps
  PROVE  /\ next \in Nat /\ next > cur /\ next # gen /\ next # 0
         /\ cur # 0 => gen = cur
         /\ job = "commit" => cur # 0
         /\ RootReadable
<1>1. gen \in Nat /\ cur \in Nat /\ next = gen + 1
  BY DEF Types, next
<1>2. pc \notin {"down", "reload"}
  BY DEF Steps
<1>3. seg <=> cur # 0
  BY <1>2 DEF Memory
<1>4. cur # 0 => gen = cur
  BY <1>2, <1>3 DEF Memory
<1>5. job = "commit" => cur # 0
  BY <1>3 DEF Memory
<1>6. RootReadable
  BY <1>4, <1>5 DEF RootReadable, Disk, Opens
<1>7. next \in Nat /\ next > cur /\ next # gen /\ next # 0
  BY <1>1, <1>4
<1>8. QED
  BY <1>4, <1>5, <1>6, <1>7

\* The root a save writes holds the ledger that is being saved.
LEMMA RootHoldsSaving ==
  ASSUME Types, Disk, Memory, pc \in Steps
  PROVE  Live(LookupOrder(Root)) = Shadow(Base, dirty)
<1>1. /\ job \in {"commit", "compact", "migrate"}
      /\ table \in Table /\ segs \in Seq(Segments) /\ dirty \in Records
      /\ dirs \in [DOMAIN dirs -> Dir]
  BY DEF Types
<1>2. Base \in Table
  BY BaseIsTable
<1>3. seg <=> job # "migrate"
  BY DEF Memory
<1>4. job # "commit" => Shadow(Base, dirty) = Base
  BY <1>2, ShadowNone DEF Memory
<1>5. CASE job = "migrate"
  <2>1. Root = Bases(table) /\ Base = table
    BY <1>3, <1>5 DEF Root, Base
  <2>2. QED
    BY <1>1, <1>4, <1>5, <2>1, LiveBases
<1>6. CASE job = "compact"
  <2>1. Root = Bases(Base)
    BY <1>3, <1>6 DEF Root, Base
  <2>2. QED
    BY <1>2, <1>4, <1>6, <2>1, LiveBases
<1>7. CASE job = "commit"
  <2>1. cur # 0 /\ gen = cur /\ RootReadable
    BY <1>7, NextIsNew
  <2>2. dirs[gen].root \in Seq(Segments)
    <3>1. dirs[gen] \in Dir
      BY <1>1, <1>7, <2>1 DEF RootReadable
    <3>2. QED
      BY <3>1 DEF Dir
  <2>3. Base = Live(LookupOrder(dirs[gen].root))
    <3>1. pc # "reload"
      BY DEF Steps
    <3>2. seg
      BY <1>3, <1>7
    <3>3. QED
      BY <2>1, <3>1, <3>2 DEF Memory, Base
  <2>4. Root = IF dirty = NoRecords THEN dirs[gen].root
               ELSE Append(dirs[gen].root, Segment("delta", dirty))
    BY <1>7 DEF Root
  <2>5. CASE dirty = NoRecords
    BY <1>2, <2>3, <2>4, <2>5, ShadowNone
  <2>6. CASE dirty # NoRecords
    BY <1>1, <2>2, <2>3, <2>4, <2>6, LiveAppend
  <2>7. QED
    BY <2>5, <2>6
<1>8. QED
  BY <1>1, <1>5, <1>6, <1>7

\* Without records on top, what is saved is what is in memory.
LEMMA SavingIsView ==
  ASSUME Types, dirty = NoRecords
  PROVE  Saving = View
  BY BaseIsTable, ShadowNone DEF Saving, View

-----------------------------------------------------------------------------
(* Steps that leave the generations up to CURRENT alone *)

\* Then a restart finds the same ledger.
LEMMA DurableKept ==
  ASSUME Disk, UNCHANGED <<mono, cur>>,
         cur # 0 => cur \in DOMAIN dirs' /\ dirs'[cur] = dirs[cur] /\ ToSet(dirs[cur].root) \subseteq pool'
  PROVE  Durable' = Durable /\ (cur # 0 => Opens(cur)')
  BY DEF Disk, Durable, Opens, LedgerOf

\* And a reader's generation is what it was, if it is still there.
LEMMA ReadingKept ==
  ASSUME Types, Reading, UNCHANGED rd, cur' \in Nat, cur <= cur',
         \A g \in DOMAIN dirs' : 0 < g /\ g <= cur => g \in DOMAIN dirs /\ dirs'[g] = dirs[g]
  PROVE  Reading'
<1> SUFFICES ASSUME NEW r \in Readers
             PROVE  LET g == rd'[r].cur IN
                    /\ rd'[r].at # "out" => 0 < g /\ g <= cur'
                    /\ rd'[r].at \in {"assets", "done"} /\ g \in DOMAIN dirs' =>
                         rd'[r].table = Live(LookupOrder(dirs'[g].root))
                    /\ rd'[r].at = "done" /\ g \in DOMAIN dirs' => rd'[r].assets = dirs'[g].assets
  BY DEF Reading
<1> DEFINE g == rd[r].cur
<1>1. rd' = rd /\ g \in Nat /\ cur \in Nat
  BY DEF Types
<1>2. /\ rd[r].at # "out" => 0 < g /\ g <= cur
      /\ rd[r].at \in {"assets", "done"} /\ g \in DOMAIN dirs => rd[r].table = Live(LookupOrder(dirs[g].root))
      /\ rd[r].at = "done" /\ g \in DOMAIN dirs => rd[r].assets = dirs[g].assets
  BY DEF Reading
<1>3. rd[r].at # "out" => g <= cur'
  BY <1>1, <1>2
<1>4. rd[r].at # "out" /\ g \in DOMAIN dirs' => g \in DOMAIN dirs /\ dirs'[g] = dirs[g]
  BY <1>2
<1>5. QED
  BY <1>1, <1>2, <1>3, <1>4

\* A process that is left alone holds and saves what it did.
LEMMA WriterKept ==
  ASSUME UNCHANGED <<segs, seg, table, assets, dirty>>
  PROVE  View' = View /\ Saving' = Saving
  BY DEF View, Saving, Base

\* The root of a save does not change while its generation is written.
LEMMA RootKept ==
  ASSUME Types, Disk, Memory, pc \in Steps, UNCHANGED <<job, gen, segs, table, dirty>>,
         cur # 0 => dirs'[cur] = dirs[cur]
  PROVE  Root' = Root
<1>1. /\ cur # 0 => gen = cur
      /\ job = "commit" => cur # 0
  BY NextIsNew
<1>2. job = "commit" => dirs'[gen] = dirs[gen]
  BY <1>1
<1>3. CASE job = "commit"
  BY <1>2, <1>3 DEF Root, NoRecords
<1>4. CASE job # "commit"
  <2>1. job \in {"compact", "migrate"}
    BY <1>4 DEF Types
  <2>2. QED
    BY <1>4, <2>1 DEF Root
<1>5. QED
  BY <1>3, <1>4

-----------------------------------------------------------------------------
(* One step *)

\* What a step may change of the ledger a restart would find.
Shows == Durable' # Durable => Durable' \in {Saving, View'}

\* A caller of save_index: nothing on the disk changes, or all of the
\* monolithic ledger.
LEMMA SaveStep ==
  ASSUME Types, Types', Whole, NEW over, NEW as, Saves(over, as)
  PROVE  Whole' /\ Shows
<1>1. save_index(over, as) /\ over \in Records /\ as \in AssetTable
      /\ (Exact(View) => Exact(Ledger(Shadow(Base, over), as)))
  BY DEF Saves
<1>2. /\ pc = "idle" /\ assets' = as /\ job' = "commit"
      /\ UNCHANGED <<cur, dirs, pool, segs, seg>> /\ UNCHANGED rd /\ UNCHANGED lost
  BY <1>1 DEF save_index, ghosts
<1>3. Disk /\ Memory /\ Settled /\ Counted /\ Reading
  BY DEF Whole
<1>4. ~lost => Exact(Ledger(Shadow(Base, over), as))
  BY <1>1, <1>2, <1>3 DEF Settled, Counted
<1>5. seg <=> cur # 0
  BY <1>2, <1>3 DEF Memory
<1>6. Reading'
  BY <1>2, <1>3, ReadingKept DEF Types
<1>7. (\A g \in DOMAIN dirs' : ToSet(dirs'[g].root) \subseteq pool') /\ (cur' # 0 => Opens(cur)')
  BY <1>2, <1>3 DEF Disk, Opens
<1>8. CASE seg
  <2>1. /\ dirty' = over /\ pc' = "begin"
        /\ UNCHANGED <<mono, gen, table>>
    BY <1>1, <1>8 DEF save_index
  <2>2. Durable' = Durable
    BY <1>2, <1>3, <2>1, DurableKept DEF Disk, Opens
  <2>3. Disk'
    BY <1>7, <2>1 DEF Disk
  <2>4. Memory'
    BY <1>2, <1>3, <1>5, <1>8, <2>1 DEF Memory, Steps
  <2>5. Staged'
    BY <2>1 DEF Staged, Steps
  <2>6. Settled'
    BY <1>2, <2>1 DEF Settled
  <2>7. Saving' = Ledger(Shadow(Base, over), as)
    BY <1>2, <2>1 DEF Saving, Base
  <2>8. Counted'
    BY <1>2, <1>3, <1>4, <2>2, <2>7 DEF Counted
  <2>9. QED
    BY <1>6, <2>2, <2>3, <2>4, <2>5, <2>6, <2>8 DEF Whole, Shows
<1>9. CASE ~seg
  <2>1. /\ table' = Shadow(table, over) /\ gen' = gen + 1
        /\ mono' = [gen |-> gen + 1, table |-> Shadow(table, over), assets |-> as]
        /\ UNCHANGED <<dirty, pc>>
    BY <1>1, <1>9 DEF save_index
  <2>2. cur = 0 /\ cur' = 0
    BY <1>2, <1>5, <1>9
  <2>3. Durable' = Ledger(Shadow(table, over), as) /\ View' = Ledger(Shadow(table, over), as)
    BY <1>2, <1>9, <2>1, <2>2 DEF Durable, View, Base
  <2>4. Disk'
    BY <1>2, <1>7, <2>1 DEF Disk
  <2>5. Memory'
    BY <1>2, <1>3, <1>9, <2>1, <2>2 DEF Memory, Steps
  <2>6. Staged'
    BY <1>2, <2>1 DEF Staged, Steps
  <2>7. Settled'
    BY <2>3 DEF Settled
  <2>8. Counted'
    BY <1>2, <1>4, <1>9, <2>1, <2>3 DEF Counted, Base, Steps
  <2>9. QED
    BY <1>6, <2>3, <2>4, <2>5, <2>6, <2>7, <2>8 DEF Whole, Shows
<1>10. QED
  BY <1>8, <1>9

\* The migration starts from the ledger in memory, which is the one on the
\* disk.
LEMMA MigrateStep ==
  ASSUME Types, Types', Whole, migrate
  PROVE  Whole' /\ Shows
<1>1. /\ pc = "idle" /\ ~seg /\ pc' = "begin" /\ job' = "migrate" /\ dirty' = NoRecords
      /\ UNCHANGED <<mono, cur, dirs, pool, gen, segs, seg, table, assets>>
      /\ UNCHANGED rd /\ UNCHANGED lost
  BY DEF migrate, disk, ghosts
<1>2. Disk /\ Memory /\ Settled /\ Counted /\ Reading
  BY DEF Whole
<1>3. cur = 0 /\ mono = [gen |-> gen, table |-> table, assets |-> assets]
  BY <1>1, <1>2 DEF Memory
<1>4. Durable = View /\ Durable' = Durable /\ View' = View
  BY <1>1, <1>3 DEF Durable, View, Base
<1>5. Saving' = View'
  <2>1. (Types /\ dirty = NoRecords)' => (Saving = View)'
    BY SavingIsView, PTL
  <2>2. QED
    BY <1>1, <2>1
<1>6. Disk'
  BY <1>1, <1>2 DEF Disk, Opens
<1>7. Memory'
  BY <1>1, <1>2, <1>3 DEF Memory, Steps
<1>8. Staged'
  BY <1>1 DEF Staged, Steps
<1>9. Settled'
  BY <1>4 DEF Settled
<1>10. Counted'
  BY <1>1, <1>2, <1>4, <1>5 DEF Counted
<1>11. Reading'
  BY <1>1, <1>2, ReadingKept DEF Types
<1>12. QED
  BY <1>4, <1>6, <1>7, <1>8, <1>9, <1>10, <1>11 DEF Whole, Shows

\* Steps of a save that stay before the swap: the disk below the new
\* generation and the process are left alone.
LEMMA StagingKeeps ==
  ASSUME Types, Types', Whole, pc \in Steps, pc' \in Steps \ {"begin"},
         UNCHANGED <<mono, cur>>, UNCHANGED <<job, gen, segs, seg, table, assets, dirty>>,
         UNCHANGED rd, UNCHANGED lost,
         pool \subseteq pool', next \in DOMAIN dirs',
         \A g \in DOMAIN dirs' \ {next} : g \in DOMAIN dirs /\ dirs'[g] = dirs[g],
         DOMAIN dirs \subseteq DOMAIN dirs',
         ToSet(dirs'[next].root) \subseteq pool'
  PROVE  /\ Disk' /\ Memory' /\ Settled' /\ Counted' /\ Reading'
         /\ Root' = Root /\ next' = next /\ Shows
<1>1. Disk /\ Memory /\ Settled /\ Counted /\ Reading
  BY DEF Whole
<1>2. next \in Nat /\ next > cur /\ next # gen /\ (cur # 0 => gen = cur)
  BY <1>1, NextIsNew
<1>3. cur \in Nat /\ DOMAIN dirs' \subseteq Nat
  BY DEF Types
<1>4. cur # 0 => cur \in DOMAIN dirs' /\ dirs'[cur] = dirs[cur] /\ ToSet(dirs[cur].root) \subseteq pool'
  <2>1. cur # next
    BY <1>2, <1>3
  <2>2. cur # 0 => cur \in DOMAIN dirs /\ ToSet(dirs[cur].root) \subseteq pool
    BY <1>1 DEF Disk, Opens
  <2>3. QED
    BY <2>1, <2>2
<1>5. Durable' = Durable /\ (cur # 0 => Opens(cur)')
  BY <1>1, <1>4, DurableKept
<1>6. View' = View /\ Saving' = Saving
  BY WriterKept
<1>7. Root' = Root
  BY <1>1, <1>4, RootKept
<1>8. next' = next
  BY DEF next
<1>9. pc \notin {"down", "reload", "prune", "pool", "cleanup", "idle"}
      /\ pc' \notin {"down", "reload", "prune", "pool", "cleanup", "idle"} /\ pc' \in Steps
  BY DEF Steps
<1>10. Disk'
  <2>1. \A g \in DOMAIN dirs' : ToSet(dirs'[g].root) \subseteq pool'
    BY <1>1 DEF Disk
  <2>2. QED
    BY <1>5, <1>9, <2>1 DEF Disk
<1>11. Memory'
  BY <1>1, <1>4, <1>9 DEF Memory
<1>12. Settled'
  BY <1>1, <1>5, <1>6, <1>9 DEF Settled
<1>13. Counted'
  BY <1>1, <1>5, <1>6, <1>9 DEF Counted
<1>14. Reading'
  <2>1. \A g \in DOMAIN dirs' : 0 < g /\ g <= cur => g \in DOMAIN dirs /\ dirs'[g] = dirs[g]
    <3>1. \A g \in DOMAIN dirs' : g <= cur => g # next
      BY <1>2, <1>3
    <3>2. QED
      BY <3>1
  <2>2. QED
    BY <1>1, <1>3, <2>1, ReadingKept
<1>15. QED
  BY <1>5, <1>7, <1>8, <1>10, <1>11, <1>12, <1>13, <1>14 DEF Shows

\* The directory of the new generation is made, or found.
LEMMA BeginStep ==
  ASSUME Types, Types', Whole, begin
  PROVE  Whole' /\ Shows
<1>1. /\ pc = "begin" /\ pc' = "segment"
      /\ dirs' = [g \in DOMAIN dirs \cup {next} |-> IF g \in DOMAIN dirs THEN dirs[g] ELSE EmptyDir]
      /\ UNCHANGED <<mono, cur, pool>> /\ UNCHANGED <<job, gen, segs, seg, table, assets, dirty>>
      /\ UNCHANGED rd /\ UNCHANGED lost
  BY DEF begin, ghosts
<1>2. pc \in Steps /\ pc' \in Steps \ {"begin"}
  BY <1>1 DEF Steps
<1>3. /\ next \in DOMAIN dirs' /\ DOMAIN dirs \subseteq DOMAIN dirs'
      /\ \A g \in DOMAIN dirs' \ {next} : g \in DOMAIN dirs /\ dirs'[g] = dirs[g]
  BY <1>1
<1>4. ToSet(dirs'[next].root) \subseteq pool'
  <2>1. CASE next \in DOMAIN dirs
    BY <1>1, <2>1 DEF Whole, Disk
  <2>2. CASE next \notin DOMAIN dirs
    <3>1. dirs'[next].root = <<>>
      BY <1>1, <2>2 DEF EmptyDir
    <3>2. ToSet(<<>>) = {}
      BY DEF ToSet
    <3>3. QED
      BY <3>1, <3>2
  <2>3. QED
    BY <2>1, <2>2
<1>5. /\ Disk' /\ Memory' /\ Settled' /\ Counted' /\ Reading'
      /\ Root' = Root /\ next' = next /\ Shows
  BY <1>1, <1>2, <1>3, <1>4, StagingKeeps
<1>6. Staged'
  BY <1>1, <1>3, <1>5 DEF Staged, Steps
<1>7. QED
  BY <1>5, <1>6 DEF Whole

\* The segments of the new root are written.
LEMMA WriteSegmentStep ==
  ASSUME Types, Types', Whole, write_segment
  PROVE  Whole' /\ Shows
<1>1. /\ pc = "segment" /\ pc' = "assets" /\ pool' = pool \cup ToSet(Root)
      /\ UNCHANGED <<mono, cur, dirs>> /\ UNCHANGED <<job, gen, segs, seg, table, assets, dirty>>
      /\ UNCHANGED rd /\ UNCHANGED lost
  BY DEF write_segment, ghosts
<1>2. pc \in Steps /\ pc' \in Steps \ {"begin"}
  BY <1>1 DEF Steps
<1>3. next \in DOMAIN dirs
  BY <1>1 DEF Whole, Staged, Steps
<1>4. ToSet(dirs'[next].root) \subseteq pool'
  BY <1>1, <1>3 DEF Whole, Disk
<1>5. /\ Disk' /\ Memory' /\ Settled' /\ Counted' /\ Reading'
      /\ Root' = Root /\ next' = next /\ Shows
  BY <1>1, <1>2, <1>3, <1>4, StagingKeeps
<1>6. Staged'
  BY <1>1, <1>3, <1>5 DEF Staged, Steps
<1>7. QED
  BY <1>5, <1>6 DEF Whole

\* The asset table is written beside them.
LEMMA WriteAssetsStep ==
  ASSUME Types, Types', Whole, write_assets
  PROVE  Whole' /\ Shows
<1>1. /\ pc = "assets" /\ pc' = "root" /\ next \in DOMAIN dirs
      /\ dirs' = [dirs EXCEPT ![next] = [has |-> dirs[next].has \cup {"assets"},
                                         root |-> dirs[next].root, assets |-> assets]]
      /\ UNCHANGED <<mono, cur, pool>> /\ UNCHANGED <<job, gen, segs, seg, table, assets, dirty>>
      /\ UNCHANGED rd /\ UNCHANGED lost
  BY DEF write_assets, ghosts, Put
<1>2. pc \in Steps /\ pc' \in Steps \ {"begin"}
  BY <1>1 DEF Steps
<1>3. dirs \in [DOMAIN dirs -> Dir]
  BY DEF Types
<1>4. /\ DOMAIN dirs' = DOMAIN dirs
      /\ \A g \in DOMAIN dirs' \ {next} : dirs'[g] = dirs[g]
      /\ dirs'[next] = [has |-> dirs[next].has \cup {"assets"},
                        root |-> dirs[next].root, assets |-> assets]
  BY <1>1, <1>3
<1>5. dirs'[next].root = dirs[next].root /\ dirs'[next].assets = assets /\ "assets" \in dirs'[next].has
  BY <1>4
<1>6. ToSet(dirs'[next].root) \subseteq pool'
  BY <1>1, <1>5 DEF Whole, Disk
<1>7. /\ Disk' /\ Memory' /\ Settled' /\ Counted' /\ Reading'
      /\ Root' = Root /\ next' = next /\ Shows
  BY <1>1, <1>2, <1>4, <1>6, StagingKeeps
<1>8. ToSet(Root) \subseteq pool
  BY <1>1 DEF Whole, Staged
<1>9. Staged'
  BY <1>1, <1>4, <1>5, <1>7, <1>8 DEF Staged, Steps
<1>10. QED
  BY <1>7, <1>9 DEF Whole

\* And then the root.
LEMMA WriteRootStep ==
  ASSUME Types, Types', Whole, write_root
  PROVE  Whole' /\ Shows
<1>1. /\ pc = "root" /\ pc' = "swap" /\ next \in DOMAIN dirs
      /\ dirs' = [dirs EXCEPT ![next] = [has |-> dirs[next].has \cup {"root"},
                                         root |-> Root, assets |-> dirs[next].assets]]
      /\ UNCHANGED <<mono, cur, pool>> /\ UNCHANGED <<job, gen, segs, seg, table, assets, dirty>>
      /\ UNCHANGED rd /\ UNCHANGED lost
  BY DEF write_root, ghosts, Put
<1>2. pc \in Steps /\ pc' \in Steps \ {"begin"}
  BY <1>1 DEF Steps
<1>3. dirs \in [DOMAIN dirs -> Dir]
  BY DEF Types
<1>4. /\ DOMAIN dirs' = DOMAIN dirs
      /\ \A g \in DOMAIN dirs' \ {next} : dirs'[g] = dirs[g]
      /\ dirs'[next] = [has |-> dirs[next].has \cup {"root"},
                        root |-> Root, assets |-> dirs[next].assets]
  BY <1>1, <1>3
<1>5. /\ dirs'[next].root = Root /\ dirs'[next].assets = dirs[next].assets
      /\ dirs'[next].has = dirs[next].has \cup {"root"}
  BY <1>4
<1>6. /\ ToSet(Root) \subseteq pool
      /\ dirs[next].assets = assets /\ "assets" \in dirs[next].has
  BY <1>1 DEF Whole, Staged
<1>7. ToSet(dirs'[next].root) \subseteq pool'
  BY <1>1, <1>5, <1>6
<1>8. /\ Disk' /\ Memory' /\ Settled' /\ Counted' /\ Reading'
      /\ Root' = Root /\ next' = next /\ Shows
  BY <1>1, <1>2, <1>4, <1>7, StagingKeeps
<1>9. Staged'
  BY <1>1, <1>4, <1>5, <1>6, <1>8 DEF Staged, Steps
<1>10. QED
  BY <1>8, <1>9 DEF Whole

\* The swap makes the new generation the ledger: all that is being saved.
LEMMA SwapStep ==
  ASSUME Types, Types', Whole, swap_current
  PROVE  Whole' /\ Shows
<1>1. /\ pc = "swap" /\ pc' = "reload" /\ cur' = next
      /\ UNCHANGED <<mono, dirs, pool>> /\ UNCHANGED <<job, gen, segs, seg, table, assets, dirty>>
      /\ UNCHANGED rd /\ UNCHANGED lost
  BY DEF swap_current, ghosts
<1>2. Disk /\ Memory /\ Staged /\ Settled /\ Counted /\ Reading /\ pc \in Steps
  BY <1>1 DEF Whole, Steps
<1>3. /\ next \in DOMAIN dirs /\ ToSet(Root) \subseteq pool
      /\ dirs[next].assets = assets /\ "assets" \in dirs[next].has
      /\ dirs[next].root = Root /\ "root" \in dirs[next].has
  BY <1>1, <1>2 DEF Staged, Steps
<1>4. dirs[next].has = {"root", "assets"}
  <2>1. dirs[next].has \subseteq {"root", "assets"}
    BY <1>3 DEF Types, Dir
  <2>2. QED
    BY <1>3, <2>1
<1>5. Opens(cur)'
  BY <1>1, <1>3, <1>4 DEF Opens
<1>6. LedgerOf(cur)' = Saving /\ Saving' = Saving /\ View' = View
  <2>1. Live(LookupOrder(Root)) = Shadow(Base, dirty)
    BY <1>2, RootHoldsSaving
  <2>2. LedgerOf(cur)' = Ledger(Live(LookupOrder(dirs[next].root)), dirs[next].assets)
    BY <1>1 DEF LedgerOf
  <2>3. LedgerOf(cur)' = Ledger(Shadow(Base, dirty), assets)
    BY <1>3, <2>1, <2>2
  <2>4. QED
    BY <1>1, <2>3, WriterKept DEF Saving
<1>7. next \in Nat /\ next > cur /\ next # 0 /\ cur \in Nat
  BY <1>2, NextIsNew DEF Types
<1>8. Disk'
  BY <1>1, <1>2, <1>5 DEF Disk
<1>9. Durable' = Saving
  BY <1>1, <1>5, <1>6, <1>7 DEF Durable
<1>10. Memory'
  BY <1>1, <1>2, <1>7 DEF Memory
<1>11. Staged'
  BY <1>1, <1>6 DEF Staged, Steps, next
<1>12. Settled'
  <2>1. job # "commit" => Saving = View
    BY <1>2, SavingIsView DEF Memory
  <2>2. QED
    BY <1>1, <1>6, <1>9, <2>1 DEF Settled
<1>13. Counted'
  BY <1>1, <1>2, <1>9 DEF Counted, Steps
<1>14. Reading'
  <2>1. cur' \in Nat /\ cur <= cur'
    BY <1>1, <1>7
  <2>2. QED
    BY <1>1, <1>2, <2>1, ReadingKept
<1>15. QED
  BY <1>8, <1>9, <1>10, <1>11, <1>12, <1>13, <1>14 DEF Whole, Shows

\* Removing generations other than the one CURRENT names, and segments that
\* no root lists, changes nothing a restart or a reader would find.
LEMMA RemovalKeeps ==
  ASSUME Types, Types', Whole, UNCHANGED <<mono, cur>>, UNCHANGED rd,
         NEW G \in SUBSET DOMAIN dirs, dirs' = [g \in G |-> dirs[g]], cur # 0 => cur \in G,
         pool \cap UNION {ToSet(dirs[g].root) : g \in G} \subseteq pool'
  PROVE  /\ Durable' = Durable /\ Reading'
         /\ \A g \in DOMAIN dirs' : ToSet(dirs'[g].root) \subseteq pool'
         /\ cur' # 0 => Opens(cur)'
         /\ cur # 0 => cur \in DOMAIN dirs' /\ dirs'[cur] = dirs[cur]
<1>1. Disk /\ Reading
  BY DEF Whole
<1>2. DOMAIN dirs' = G /\ \A g \in G : dirs'[g] = dirs[g]
  OBVIOUS
<1>3. \A g \in G : ToSet(dirs[g].root) \subseteq pool'
  <2> TAKE g \in G
  <2>1. ToSet(dirs[g].root) \subseteq pool
    BY <1>1 DEF Disk
  <2>2. ToSet(dirs[g].root) \subseteq UNION {ToSet(dirs[h].root) : h \in G}
    OBVIOUS
  <2>3. QED
    BY <2>1, <2>2
<1>4. Durable' = Durable /\ (cur # 0 => Opens(cur)')
  BY <1>1, <1>2, <1>3, DurableKept
<1>5. Reading'
  <2>1. cur \in Nat /\ cur' \in Nat /\ cur <= cur'
    BY DEF Types
  <2>2. QED
    BY <1>1, <1>2, <2>1, ReadingKept
<1>6. QED
  BY <1>2, <1>3, <1>4, <1>5

\* Sweeping from the generation CURRENT names keeps it.
LEMMA SweepKeeps ==
  ASSUME Types, Types', Whole, UNCHANGED <<mono, cur, pool>>, UNCHANGED rd, dirs' = SweepFrom(cur)
  PROVE  /\ Durable' = Durable /\ Reading'
         /\ \A g \in DOMAIN dirs' : ToSet(dirs'[g].root) \subseteq pool'
         /\ cur' # 0 => Opens(cur)'
         /\ cur # 0 => cur \in DOMAIN dirs' /\ dirs'[cur] = dirs[cur]
         /\ \A g \in DOMAIN dirs' : g <= cur
<1> DEFINE G == {x \in DOMAIN dirs : x <= cur}
<1>1. dirs' = [g \in G |-> dirs[g]] /\ G \in SUBSET DOMAIN dirs
  BY DEF SweepFrom
<1>2. cur # 0 => cur \in G
  BY DEF Whole, Disk, Opens, Types
<1>3. \A g \in G : g <= cur
  OBVIOUS
<1> HIDE DEF G
<1>4. pool \cap UNION {ToSet(dirs[g].root) : g \in G} \subseteq pool'
  OBVIOUS
<1>5. DOMAIN dirs' = G
  BY <1>1
<1>6. QED
  BY <1>1, <1>2, <1>3, <1>4, <1>5, RemovalKeeps

\* The process that swapped opens what it saved.
LEMMA ReloadStep ==
  ASSUME Types, Types', Whole, reload
  PROVE  Whole' /\ Shows
<1>1. /\ pc = "reload" /\ dirs' = SweepFrom(cur)
      /\ gen' = cur /\ segs' = LookupOrder(dirs[cur].root) /\ seg' = TRUE
      /\ dirty' = NoRecords
      /\ UNCHANGED <<mono, cur, pool>> /\ UNCHANGED assets /\ UNCHANGED rd /\ UNCHANGED lost
  BY DEF reload, ghosts
<1>2. \/ pc' = "cleanup" \/ pc' = "prune"
      \/ pc' = "begin" /\ job' = "compact"
  BY DEF reload
<1>3. Disk /\ Staged /\ Counted
  BY DEF Whole
<1>4. cur # 0 /\ LedgerOf(cur) = Saving
  <2>1. cur = gen + 1 /\ gen \in Nat
    BY <1>1, <1>3 DEF Staged, next, Types
  <2>2. QED
    BY <1>1, <1>3, <2>1 DEF Staged
<1>5. /\ Durable' = Durable /\ Reading'
      /\ \A g \in DOMAIN dirs' : ToSet(dirs'[g].root) \subseteq pool'
      /\ Opens(cur)' /\ dirs'[cur] = dirs[cur]
      /\ \A g \in DOMAIN dirs' : g <= cur
  BY <1>1, <1>4, SweepKeeps
<1>6. Durable = LedgerOf(cur)
  BY <1>3, <1>4, DurableIs
<1>7. View' = Durable'
  <2>1. LedgerOf(cur).assets = assets
    <3>1. Saving.assets = assets
      BY DEF Saving, Ledger
    <3>2. QED
      BY <1>4, <3>1
  <2>2. LedgerOf(cur) = Ledger(Live(LookupOrder(dirs[cur].root)), dirs[cur].assets)
    BY DEF LedgerOf
  <2>3. dirs[cur].assets = assets
    BY <2>1, <2>2 DEF Ledger
  <2>4. View' = Ledger(Live(LookupOrder(dirs[cur].root)), assets)
    BY <1>1 DEF View, Base
  <2>5. QED
    BY <1>5, <1>6, <2>2, <2>3, <2>4
<1>8. Saving' = View'
  <2>1. (Types /\ dirty = NoRecords)' => (Saving = View)'
    BY SavingIsView, PTL
  <2>2. QED
    BY <1>1, <2>1
<1>9. Disk'
  BY <1>1, <1>5 DEF Disk
<1>10. Memory'
  BY <1>1, <1>2, <1>4, <1>5 DEF Memory, Steps
<1>11. Staged'
  BY <1>2 DEF Staged, Steps
<1>12. Settled'
  BY <1>7 DEF Settled
<1>13. Counted'
  BY <1>1, <1>3, <1>5, <1>7, <1>8 DEF Counted
<1>14. QED
  BY <1>5, <1>9, <1>10, <1>11, <1>12, <1>13 DEF Whole, Shows

\* Pruning keeps the generation CURRENT names: it is the newest.
LEMMA PruneStep ==
  ASSUME Types, Types', Whole, prune_generations
  PROVE  Whole' /\ Shows
<1>1. /\ pc = "prune" /\ pc' = "pool"
      /\ UNCHANGED <<mono, cur, pool>> /\ UNCHANGED <<job, gen, segs, seg, table, assets, dirty>>
      /\ UNCHANGED rd /\ UNCHANGED lost
  BY DEF prune_generations, ghosts
<1>2. Disk /\ Memory /\ Settled /\ Counted
  BY DEF Whole
<1> DEFINE G == Newest(DOMAIN dirs, 2)
<1>3. dirs' = [g \in G |-> dirs[g]] /\ G \in SUBSET DOMAIN dirs
  BY DEF prune_generations, Newest
<1>4. cur \in G
  <2>1. cur \in DOMAIN dirs /\ \A g \in DOMAIN dirs : g <= cur
    BY <1>1, <1>2 DEF Disk, Memory, Opens
  <2>2. {h \in DOMAIN dirs : h > cur} = {}
    BY <2>1 DEF Types
  <2>3. Cardinality({h \in DOMAIN dirs : h > cur}) = 0
    BY <2>2, FS_EmptySet
  <2>4. QED
    BY <2>1, <2>3 DEF Newest
<1> HIDE DEF G
<1>5. pool \cap UNION {ToSet(dirs[g].root) : g \in G} \subseteq pool'
  BY <1>1
<1>6. /\ Durable' = Durable /\ Reading'
      /\ \A g \in DOMAIN dirs' : ToSet(dirs'[g].root) \subseteq pool'
      /\ cur' # 0 => Opens(cur)'
      /\ cur # 0 => dirs'[cur] = dirs[cur]
  BY <1>1, <1>3, <1>4, <1>5, RemovalKeeps
<1>7. View' = View /\ Saving' = Saving
  BY <1>1, WriterKept
<1>8. Disk'
  BY <1>1, <1>6 DEF Disk
<1>9. Memory'
  BY <1>1, <1>2, <1>6 DEF Memory, Steps
<1>10. Staged'
  BY <1>1 DEF Staged, Steps
<1>11. Settled'
  BY <1>1, <1>2, <1>6, <1>7 DEF Settled
<1>12. Counted'
  BY <1>1, <1>2, <1>6 DEF Counted, Steps
<1>13. QED
  BY <1>6, <1>8, <1>9, <1>10, <1>11, <1>12 DEF Whole, Shows

\* The pool keeps what a root that is left lists.
LEMMA PrunePoolStep ==
  ASSUME Types, Types', Whole, prune_pool
  PROVE  Whole' /\ Shows
<1>1. /\ pc = "pool" /\ pc' = "idle" /\ job' = "commit"
      /\ UNCHANGED <<mono, cur, dirs>> /\ UNCHANGED <<gen, segs, seg, table, assets, dirty>>
      /\ UNCHANGED rd /\ UNCHANGED lost
      /\ pool' = pool \cap UNION {ToSet(dirs[g].root) : g \in DOMAIN dirs}
  BY DEF prune_pool, ghosts
<1>2. Disk /\ Memory /\ Settled /\ Counted
  BY DEF Whole
<1>3. dirs' = [g \in DOMAIN dirs |-> dirs[g]]
  BY <1>1 DEF Types
<1>4. cur # 0 => cur \in DOMAIN dirs
  BY <1>2 DEF Disk, Opens
<1>5. /\ Durable' = Durable /\ Reading'
      /\ \A g \in DOMAIN dirs' : ToSet(dirs'[g].root) \subseteq pool'
      /\ cur' # 0 => Opens(cur)'
  <2>1. pool \cap UNION {ToSet(dirs[g].root) : g \in DOMAIN dirs} \subseteq pool'
    BY <1>1
  <2> DEFINE G == DOMAIN dirs
  <2>2. G \in SUBSET DOMAIN dirs /\ dirs' = [g \in G |-> dirs[g]] /\ (cur # 0 => cur \in G)
        /\ pool \cap UNION {ToSet(dirs[g].root) : g \in G} \subseteq pool'
    BY <1>3, <1>4, <2>1
  <2> HIDE DEF G
  <2>3. QED
    BY <1>1, <2>2, RemovalKeeps
<1>6. View' = View /\ Saving' = Saving
  BY <1>1, WriterKept
<1>7. Disk'
  BY <1>1, <1>5 DEF Disk
<1>8. Memory'
  BY <1>1, <1>2 DEF Memory, Steps
<1>9. Staged'
  BY <1>1 DEF Staged, Steps
<1>10. Settled'
  BY <1>1, <1>2, <1>5, <1>6 DEF Settled
<1>11. Counted'
  BY <1>1, <1>2, <1>5 DEF Counted, Steps
<1>12. QED
  BY <1>5, <1>7, <1>8, <1>9, <1>10, <1>11 DEF Whole, Shows

\* The monolithic files are removed when nothing reads them any more.
LEMMA CleanupStep ==
  ASSUME Types, Types', Whole, remove_monolithic
  PROVE  Whole' /\ Shows
<1>1. /\ pc = "cleanup" /\ pc' = "idle" /\ job' = "commit"
      /\ UNCHANGED <<cur, dirs, pool>> /\ UNCHANGED <<gen, segs, seg, table, assets, dirty>>
      /\ UNCHANGED rd /\ UNCHANGED lost
  BY DEF remove_monolithic, ghosts
<1>2. Disk /\ Memory /\ Settled /\ Counted /\ Reading
  BY DEF Whole
<1>3. cur # 0
  BY <1>1, <1>2 DEF Memory
<1>4. Durable' = Durable
  BY <1>1, <1>3 DEF Durable, Opens, LedgerOf
<1>5. View' = View /\ Saving' = Saving
  BY <1>1, WriterKept
<1>6. Disk'
  BY <1>1, <1>2 DEF Disk, Opens
<1>7. Memory'
  BY <1>1, <1>2, <1>3 DEF Memory, Steps
<1>8. Staged'
  BY <1>1 DEF Staged, Steps
<1>9. Settled'
  BY <1>1, <1>2, <1>4, <1>5 DEF Settled
<1>10. Counted'
  BY <1>1, <1>2, <1>4 DEF Counted, Steps
<1>11. Reading'
  BY <1>1, <1>2, ReadingKept DEF Types
<1>12. QED
  BY <1>4, <1>6, <1>7, <1>8, <1>9, <1>10, <1>11 DEF Whole, Shows

\* A save that fails before the swap leaves the ledger on the disk, and the
\* process on it; only a commit loses records by it.
LEMMA FailStep ==
  ASSUME Types, Types', Whole, save_fails
  PROVE  Whole' /\ Shows
<1>1. /\ pc' = "idle" /\ job' = "commit" /\ result' = "err" /\ dirty' = NoRecords
      /\ lost' = (lost \/ job = "commit")
      /\ UNCHANGED <<mono, cur, dirs, pool>> /\ UNCHANGED <<gen, segs, seg, table, assets>>
      /\ UNCHANGED rd
  BY DEF save_fails, disk
<1>2. Disk /\ Memory /\ Staged /\ Settled /\ Counted /\ Reading
  BY DEF Whole
<1>3. pc \in Steps
  <2>1. pc \in Steps \/ Gone
    BY DEF save_fails, Steps
  <2>2. CASE Gone /\ pc \notin Steps
    <3>1. pc = "reload" /\ ~Opens(cur)
      BY <2>2 DEF Gone, Steps
    <3>2. cur = gen + 1 /\ gen \in Nat
      BY <1>2, <3>1 DEF Staged, next, Types
    <3>3. QED
      BY <1>2, <3>1, <3>2 DEF Disk
  <2>3. QED
    BY <2>1, <2>2
<1>4. Durable' = Durable /\ View' = View
  BY <1>1 DEF Durable, Opens, LedgerOf, View, Base
<1>5. Disk'
  BY <1>1, <1>2 DEF Disk, Opens
<1>6. pc \notin {"down", "reload"}
  BY <1>3 DEF Steps
<1>7. Memory'
  BY <1>1, <1>2, <1>6 DEF Memory, Steps
<1>8. Staged'
  BY <1>1 DEF Staged, Steps
<1>9. Settled'
  <2>1. ~lost' => job # "commit"
    BY <1>1
  <2>2. QED
    BY <1>1, <1>2, <1>4, <2>1 DEF Settled
<1>10. Counted'
  BY <1>1, <1>2, <1>4 DEF Counted, Steps
<1>11. Reading'
  BY <1>1, <1>2, ReadingKept DEF Types
<1>12. QED
  BY <1>4, <1>5, <1>7, <1>8, <1>9, <1>10, <1>11 DEF Whole, Shows

\* A crash leaves the disk.
LEMMA CrashStep ==
  ASSUME Types, Types', Whole, crash
  PROVE  Whole' /\ Shows
<1>1. /\ pc' = "down" /\ job' = "commit" /\ seg' = FALSE
      /\ UNCHANGED <<mono, cur, dirs, pool>> /\ UNCHANGED rd /\ UNCHANGED lost
  BY DEF crash, disk, ghosts
<1>2. Disk /\ Counted /\ Reading
  BY DEF Whole
<1>3. Durable' = Durable
  BY <1>1 DEF Durable, Opens, LedgerOf
<1>4. Disk'
  BY <1>1, <1>2 DEF Disk, Opens
<1>5. Memory'
  BY <1>1 DEF Memory, Steps
<1>6. Staged'
  BY <1>1 DEF Staged, Steps
<1>7. Settled'
  BY <1>1 DEF Settled
<1>8. Counted'
  BY <1>1, <1>2, <1>3 DEF Counted, Steps
<1>9. Reading'
  BY <1>1, <1>2, ReadingKept DEF Types
<1>10. QED
  BY <1>3, <1>4, <1>5, <1>6, <1>7, <1>8, <1>9 DEF Whole, Shows

\* An open gives the ledger that is on the disk.
LEMMA OpenStep ==
  ASSUME Types, Types', Whole, open
  PROVE  Whole' /\ Shows
<1>1. /\ pc = "down" /\ pc' = "idle" /\ UNCHANGED <<mono, cur, pool>> /\ UNCHANGED <<job, dirty>>
      /\ UNCHANGED rd /\ UNCHANGED lost
  BY DEF open, ghosts
<1>2. Disk /\ Memory /\ Counted /\ Reading
  BY DEF Whole
<1>3. job' = "commit" /\ ~seg
  BY <1>1, <1>2 DEF Memory
<1>4. CASE cur # 0
  <2>1. /\ dirs' = SweepFrom(cur) /\ gen' = cur /\ seg' = TRUE
        /\ segs' = LookupOrder(dirs[cur].root) /\ assets' = dirs[cur].assets
    BY <1>4 DEF open
  <2>2. /\ Durable' = Durable /\ Reading'
        /\ \A g \in DOMAIN dirs' : ToSet(dirs'[g].root) \subseteq pool'
        /\ Opens(cur)' /\ dirs'[cur] = dirs[cur]
    BY <1>1, <1>4, <2>1, SweepKeeps
  <2>3. View' = Durable'
    <3>1. View' = LedgerOf(cur)
      BY <2>1 DEF View, Base, LedgerOf
    <3>2. QED
      BY <1>2, <1>4, <2>2, <3>1, DurableIs
  <2>4. Disk'
    BY <1>1, <2>2 DEF Disk
  <2>5. Memory'
    BY <1>1, <1>3, <1>4, <2>1, <2>2 DEF Memory, Steps
  <2>6. Staged'
    BY <1>1 DEF Staged, Steps
  <2>7. Settled'
    BY <2>3 DEF Settled
  <2>8. Counted'
    BY <1>1, <1>2, <2>2 DEF Counted, Steps
  <2>9. QED
    BY <2>2, <2>4, <2>5, <2>6, <2>7, <2>8 DEF Whole, Shows
<1>5. CASE cur = 0
  <2>1. /\ gen' = mono.gen /\ table' = mono.table /\ assets' = mono.assets
        /\ UNCHANGED <<dirs, segs, seg>>
    BY <1>5 DEF open
  <2>2. Durable' = Durable /\ View' = Durable
    BY <1>1, <1>3, <1>5, <2>1 DEF Durable, View, Base
  <2>3. Disk'
    BY <1>1, <1>2, <2>1 DEF Disk, Opens
  <2>4. mono = [gen |-> mono.gen, table |-> mono.table, assets |-> mono.assets]
    BY DEF Types
  <2>5. Memory'
    BY <1>1, <1>3, <1>5, <2>1, <2>4 DEF Memory, Steps
  <2>6. Staged'
    BY <1>1 DEF Staged, Steps
  <2>7. Settled'
    BY <2>2 DEF Settled
  <2>8. Counted'
    BY <1>1, <1>2, <2>2 DEF Counted, Steps
  <2>9. Reading'
    BY <1>1, <1>2, <2>1, ReadingKept DEF Types
  <2>10. QED
    BY <2>2, <2>3, <2>5, <2>6, <2>7, <2>8, <2>9 DEF Whole, Shows
<1>6. QED
  BY <1>4, <1>5

\* A reader that removes neither the generation CURRENT names nor the one
\* that is being written leaves the writer as it was.
LEMMA BesideKeeps ==
  ASSUME Types, Types', Disk, Memory, Staged, Settled, Counted,
         UNCHANGED <<mono, cur, pool>>, UNCHANGED writer, UNCHANGED lost,
         NEW G \in SUBSET DOMAIN dirs, dirs' = [g \in G |-> dirs[g]], cur # 0 => cur \in G,
         pc \in Steps /\ next \in DOMAIN dirs => next \in G
  PROVE  Disk' /\ Memory' /\ Staged' /\ Settled' /\ Counted' /\ Durable' = Durable
<1>1. /\ UNCHANGED <<segs, seg, table, assets, dirty>> /\ UNCHANGED <<job, gen, segs, table, dirty>>
      /\ UNCHANGED <<pc, job, gen, result>>
  BY DEF writer
<1>2. DOMAIN dirs' = G /\ \A g \in G : dirs'[g] = dirs[g]
  OBVIOUS
<1>3. \A g \in DOMAIN dirs : ToSet(dirs[g].root) \subseteq pool
  BY DEF Disk
<1>4. Durable' = Durable /\ (cur # 0 => Opens(cur)')
  BY <1>2, <1>3, DurableKept
<1>5. View' = View /\ Saving' = Saving
  BY <1>1, WriterKept
<1>6. cur # 0 => dirs'[cur] = dirs[cur]
  BY <1>2
<1>7. pc \in Steps => Root' = Root
  BY <1>1, <1>6, RootKept
<1>8. next' = next
  BY <1>1 DEF next
<1>9. Disk'
  BY <1>1, <1>2, <1>3, <1>4 DEF Disk
<1>10. Memory'
  <2>1. seg /\ pc # "reload" => cur # 0
    BY DEF Memory
  <2>2. QED
    BY <1>1, <1>6, <2>1 DEF Memory
<1>11. Staged'
  <2>1. pc \in Steps \ {"begin"} => next \in G /\ dirs'[next] = dirs[next]
    BY <1>2 DEF Staged
  <2>2. (pc \in Steps \ {"begin"} => next \in DOMAIN dirs)'
    BY <1>1, <1>2, <1>8, <2>1
  <2>3. (pc \in {"assets", "root", "swap"} => ToSet(Root) \subseteq pool)'
    BY <1>1, <1>7 DEF Staged, Steps
  <2>4. (pc \in {"root", "swap"} => dirs[next].assets = assets /\ "assets" \in dirs[next].has)'
    BY <1>1, <1>8, <2>1 DEF Staged, Steps
  <2>5. (pc = "swap" => dirs[next].root = Root /\ "root" \in dirs[next].has)'
    BY <1>1, <1>7, <1>8, <2>1 DEF Staged, Steps
  <2>6. (pc = "reload" => cur = next /\ LedgerOf(cur) = Saving)'
    <3>1. pc = "reload" => cur = next /\ LedgerOf(cur) = Saving /\ cur # 0
      BY DEF Staged, next, Types
    <3>2. cur # 0 => LedgerOf(cur)' = LedgerOf(cur)
      BY <1>6 DEF LedgerOf
    <3>3. QED
      BY <1>1, <1>5, <1>8, <3>1, <3>2
  <2>7. QED
    BY <2>2, <2>3, <2>4, <2>5, <2>6 DEF Staged
<1>12. Settled'
  BY <1>1, <1>4, <1>5 DEF Settled
<1>13. Counted'
  BY <1>1, <1>4, <1>5 DEF Counted
<1>14. QED
  BY <1>4, <1>9, <1>10, <1>11, <1>12, <1>13

\* What Reading says of one reader.
Sees(at, g, t, as) ==
    /\ at # "out" => 0 < g /\ g <= cur
    /\ at \in {"assets", "done"} /\ g \in DOMAIN dirs => t = Live(LookupOrder(dirs[g].root))
    /\ at = "done" /\ g \in DOMAIN dirs => as = dirs[g].assets

\* Reading, after a step of one reader.
LEMMA ReaderSees ==
  ASSUME Types, Reading, UNCHANGED cur, NEW r \in Readers, NEW at, NEW g, NEW t, NEW as,
         \A h \in DOMAIN dirs' : h \in DOMAIN dirs /\ dirs'[h] = dirs[h],
         Reader(r, at, g, t, as), Sees(at, g, t, as)
  PROVE  Reading'
<1> SUFFICES ASSUME NEW q \in Readers
             PROVE  LET k == rd'[q].cur IN
                    /\ rd'[q].at # "out" => 0 < k /\ k <= cur'
                    /\ rd'[q].at \in {"assets", "done"} /\ k \in DOMAIN dirs' =>
                         rd'[q].table = Live(LookupOrder(dirs'[k].root))
                    /\ rd'[q].at = "done" /\ k \in DOMAIN dirs' => rd'[q].assets = dirs'[k].assets
  BY DEF Reading
<1>1. rd' = [rd EXCEPT ![r] = [at |-> at, cur |-> g, table |-> t, assets |-> as]]
      /\ DOMAIN rd = Readers
  BY DEF Reader, Types
<1>2. CASE q = r
  <2>1. rd'[q] = [at |-> at, cur |-> g, table |-> t, assets |-> as]
    BY <1>1, <1>2
  <2>2. rd'[q].at = at /\ rd'[q].cur = g /\ rd'[q].table = t /\ rd'[q].assets = as
    BY <2>1
  <2>3. QED
    BY <2>2 DEF Sees
<1>3. CASE q # r
  <2>1. rd'[q] = rd[q]
    BY <1>1, <1>3
  <2>2. Sees(rd[q].at, rd[q].cur, rd[q].table, rd[q].assets)
    BY DEF Reading, Sees
  <2>3. QED
    BY <2>1, <2>2 DEF Sees
<1>4. QED
  BY <1>2, <1>3

\* The step of a reader, unless it sweeps a generation from under the writer.
LEMMA ReaderStep ==
  ASSUME Types, Types', Whole, ~swept', NEW r \in Readers,
         read_current(r) \/ read_sweep(r) \/ read_root(r) \/ read_assets(r) \/ refresh(r)
  PROVE  Whole' /\ Shows
<1>1. Disk /\ Memory /\ Staged /\ Settled /\ Counted /\ Reading
  BY DEF Whole
<1>2. UNCHANGED <<mono, cur, pool>> /\ UNCHANGED writer /\ UNCHANGED lost
  BY DEF read_current, read_sweep, read_root, read_assets, refresh, disk, ghosts
<1>3. Sees(rd[r].at, rd[r].cur, rd[r].table, rd[r].assets)
  BY <1>1 DEF Reading, Sees
<1>4. Sees("out", 0, NoTable, NoAssets)
  BY DEF Sees
<1>5. cur \in Nat /\ rd[r].cur \in Nat /\ DOMAIN dirs \subseteq Nat
  BY DEF Types
<1>6. cur # 0 => cur \in DOMAIN dirs
  BY <1>1 DEF Disk, Opens
<1>7. CASE read_sweep(r)
  <2> DEFINE G == {x \in DOMAIN dirs : x <= rd[r].cur}
  <2>1. dirs' = [g \in G |-> dirs[g]] /\ G \in SUBSET DOMAIN dirs
    BY <1>7 DEF read_sweep, SweepFrom
  <2>2. \A g \in DOMAIN dirs : g > rd[r].cur => g # cur /\ ~(pc \notin {"idle", "down"} /\ g = next)
    BY <1>7 DEF read_sweep
  <2>3. \A g \in DOMAIN dirs : g \in G \/ g > rd[r].cur
    BY <1>5
  <2>4. cur # 0 => cur \in G
    BY <1>6, <2>2, <2>3
  <2>5. pc \in Steps /\ next \in DOMAIN dirs => next \in G
    BY <2>2, <2>3 DEF Steps
  <2> HIDE DEF G
  <2>6. Disk' /\ Memory' /\ Staged' /\ Settled' /\ Counted' /\ Durable' = Durable
    BY <1>1, <1>2, <2>1, <2>4, <2>5, BesideKeeps
  <2>7. Reader(r, "root", rd[r].cur, NoTable, NoAssets) /\ rd[r].at = "sweep"
    BY <1>7 DEF read_sweep
  <2>8. Sees("root", rd[r].cur, NoTable, NoAssets)
    BY <1>3, <2>7 DEF Sees
  <2>9. \A h \in DOMAIN dirs' : h \in DOMAIN dirs /\ dirs'[h] = dirs[h]
    BY <2>1
  <2>10. Reading'
    BY <1>1, <1>2, <2>7, <2>8, <2>9, ReaderSees
  <2>11. QED
    BY <2>6, <2>10 DEF Whole, Shows
<1>8. CASE read_current(r) \/ read_root(r) \/ read_assets(r) \/ refresh(r)
  <2>1. UNCHANGED dirs
    BY <1>8 DEF read_current, read_root, read_assets, refresh, disk
  <2>2. Disk' /\ Memory' /\ Staged' /\ Settled' /\ Counted' /\ Durable' = Durable
    <3> DEFINE G == DOMAIN dirs
    <3>1. dirs' = [g \in G |-> dirs[g]] /\ G \in SUBSET DOMAIN dirs
      BY <2>1 DEF Types
    <3>2. (cur # 0 => cur \in G) /\ (pc \in Steps /\ next \in DOMAIN dirs => next \in G)
      BY <1>6
    <3> HIDE DEF G
    <3>3. QED
      BY <1>1, <1>2, <3>1, <3>2, BesideKeeps
  <2>3. \A h \in DOMAIN dirs' : h \in DOMAIN dirs /\ dirs'[h] = dirs[h]
    BY <2>1
  <2>4. \E at, g, t, as : Reader(r, at, g, t, as) /\ Sees(at, g, t, as)
    <3>1. CASE read_current(r)
      <4>1. Reader(r, "sweep", cur, NoTable, NoAssets) /\ cur # 0
        BY <3>1 DEF read_current
      <4>2. Sees("sweep", cur, NoTable, NoAssets)
        BY <1>5, <4>1 DEF Sees
      <4>3. QED
        BY <4>1, <4>2
    <3>2. CASE read_root(r)
      <4>1. rd[r].at = "root" /\
            \/ Reader(r, "assets", rd[r].cur, Live(LookupOrder(dirs[rd[r].cur].root)), NoAssets)
            \/ Reader(r, "out", 0, NoTable, NoAssets)
        BY <3>2 DEF read_root
      <4>2. Sees("assets", rd[r].cur, Live(LookupOrder(dirs[rd[r].cur].root)), NoAssets)
        BY <1>3, <4>1 DEF Sees
      <4>3. QED
        BY <1>4, <4>1, <4>2
    <3>3. CASE read_assets(r)
      <4>1. rd[r].at = "assets" /\
            \/ Reader(r, "done", rd[r].cur, rd[r].table, dirs[rd[r].cur].assets)
            \/ Reader(r, "out", 0, NoTable, NoAssets)
        BY <3>3 DEF read_assets
      <4>2. Sees("done", rd[r].cur, rd[r].table, dirs[rd[r].cur].assets)
        BY <1>3, <4>1 DEF Sees
      <4>3. QED
        BY <1>4, <4>1, <4>2
    <3>4. CASE refresh(r)
      BY <1>4, <3>4 DEF refresh
    <3>5. QED
      BY <1>8, <3>1, <3>2, <3>3, <3>4
  <2>5. Reading'
    BY <1>1, <1>2, <2>3, <2>4, ReaderSees
  <2>6. QED
    BY <2>2, <2>5 DEF Whole, Shows
<1>9. QED
  BY <1>7, <1>8

-----------------------------------------------------------------------------
(* The theorems *)

\* A new store is monolithic and empty.
LEMMA InvInit == Init => Inv
<1> SUFFICES ASSUME Init PROVE Inv
  OBVIOUS
<1>1. Types
  BY TypesInit
<1>2. Disk
  BY DEF Init, Disk
<1>3. Memory
  BY DEF Init, Memory, Steps
<1>4. Staged
  BY DEF Init, Staged, Steps
<1>5. Durable = Ledger(NoTable, NoAssets) /\ View = Ledger(NoTable, NoAssets)
  BY DEF Init, Durable, View, Base
<1>6. Settled
  BY <1>5 DEF Settled
<1>7. Exact(Ledger(NoTable, NoAssets))
  <2>1. \A c \in Chunks : Users(NoAssets, c) = {} /\ NoTable[c] = Tombstone
    BY DEF Users, NoAssets, NoTable
  <2>2. Cardinality({}) = 0
    BY FS_EmptySet
  <2>3. QED
    BY <2>1, <2>2, ExactIff
<1>8. Counted
  BY <1>5, <1>7 DEF Init, Counted, Steps
<1>9. Reading
  BY DEF Init, Reading
<1>10. QED
  BY <1>1, <1>2, <1>3, <1>4, <1>6, <1>8, <1>9 DEF Inv, Whole

\* No step of the writer or of a reader takes the store out of the invariant,
\* and none but a save changes what a restart would find.
LEMMA InvNext == Inv /\ [Next]_vars => Inv' /\ (~swept' => Shows)
<1> SUFFICES ASSUME Inv, [Next]_vars
             PROVE  Inv' /\ (~swept' => Shows)
  OBVIOUS
<1>1. Types /\ (~swept => Whole)
  BY DEF Inv
<1>2. CASE UNCHANGED vars
  <2>1. /\ UNCHANGED <<mono, cur, dirs, pool>> /\ UNCHANGED writer /\ UNCHANGED rd
        /\ UNCHANGED <<lost, swept>>
    BY <1>2 DEF vars, disk, ghosts
  <2>2. Types'
    BY <1>1, <2>1 DEF Types, writer
  <2>3. ASSUME ~swept'
        PROVE  Whole' /\ Shows
    <3>1. Disk /\ Memory /\ Staged /\ Settled /\ Counted /\ Reading
      BY <1>1, <2>1, <2>3 DEF Whole
    <3> DEFINE G == DOMAIN dirs
    <3>2. dirs' = [g \in G |-> dirs[g]] /\ G \in SUBSET DOMAIN dirs
      BY <1>1, <2>1 DEF Types
    <3>3. (cur # 0 => cur \in G) /\ (pc \in Steps /\ next \in DOMAIN dirs => next \in G)
      BY <3>1 DEF Disk, Opens
    <3> HIDE DEF G
    <3>4. Disk' /\ Memory' /\ Staged' /\ Settled' /\ Counted' /\ Durable' = Durable
      BY <1>1, <2>1, <2>2, <3>1, <3>2, <3>3, BesideKeeps
    <3>5. Reading'
      BY <1>1, <2>1, <3>1, ReadingKept DEF Types
    <3>6. QED
      BY <3>4, <3>5 DEF Whole, Shows
  <2>4. QED
    BY <2>2, <2>3 DEF Inv
<1>3. CASE Next
  <2>1. CASE \E r \in Readers : \/ read_current(r) \/ read_sweep(r) \/ read_root(r)
                                \/ read_assets(r) \/ refresh(r)
    <3>1. PICK r \in Readers : \/ read_current(r) \/ read_sweep(r) \/ read_root(r)
                               \/ read_assets(r) \/ refresh(r)
      BY <2>1
    <3>2. Types'
      BY <1>1, <3>1, ReaderTypesNext
    <3>3. ~swept' => ~swept
      BY <1>1, <3>1 DEF read_current, read_sweep, read_root, read_assets, refresh, ghosts, Types
    <3>4. ~swept' => Whole' /\ Shows
      BY <1>1, <3>1, <3>2, <3>3, ReaderStep
    <3>5. QED
      BY <3>2, <3>4 DEF Inv
  <2>2. CASE \/ \E over, as : Saves(over, as)
             \/ migrate \/ begin \/ write_segment \/ write_assets \/ write_root \/ swap_current
             \/ reload \/ prune_generations \/ prune_pool \/ remove_monolithic
             \/ save_fails \/ crash \/ open
    <3>1. Types'
      BY <1>1, <2>2, WriterTypesNext
    <3>2. swept' = swept
      BY <2>2 DEF Saves, save_index, migrate, begin, write_segment, write_assets, write_root,
                  swap_current, reload, prune_generations, prune_pool, remove_monolithic,
                  save_fails, crash, open, ghosts
    <3>3. ~swept' => Whole' /\ Shows
      BY <1>1, <2>2, <3>1, <3>2, SaveStep, MigrateStep, BeginStep, WriteSegmentStep,
         WriteAssetsStep, WriteRootStep, SwapStep, ReloadStep, PruneStep, PrunePoolStep,
         CleanupStep, FailStep, CrashStep, OpenStep
    <3>4. QED
      BY <3>1, <3>3 DEF Inv
  <2>3. QED
    BY <1>1, <1>3, <2>1, <2>2, NextCases
<1>4. QED
  BY <1>2, <1>3

\* The invariant holds throughout.
LEMMA InvAlways == Spec => []Inv
<1>1. Inv /\ [Next]_vars => Inv'
  BY InvNext
<1>2. QED
  BY <1>1, InvInit, PTL DEF Spec

\* Whatever the writer was doing when it died, the store and its older
\* generations open (SegIndex::open after commit_generation, compact or
\* migrate_index_to_segmented).
THEOREM GenerationsAlwaysOpen == Spec => []GenerationsOpen
<1>1. Inv => GenerationsOpen
  BY DEF Inv, Whole, Disk, GenerationsOpen, Opens
<1>2. QED
  BY <1>1, InvAlways, PTL

\* After a save that returned Ok, and after an open, a restart would find the
\* ledger in memory (save_index, migrate_index_to_segmented, open_inner).
THEOREM SavedIsAlwaysDurable == Spec => []SavedIsDurable
<1>1. Inv => SavedIsDurable
  BY DEF Inv, Whole, Settled, SavedIsDurable
<1>2. QED
  BY <1>1, InvAlways, PTL

\* The reference counts a restart would find are the numbers of assets that
\* reference the chunks (publish_asset, unpublish_asset and gc through
\* OverlayMerge, deltas and compaction).
THEOREM CountsAlwaysExact == Spec => []CountsExact
<1>1. Inv => CountsExact
  BY DEF Inv, Whole, Counted, CountsExact
<1>2. QED
  BY <1>1, InvAlways, PTL

\* A reader holds the two tables of one generation (open_read_only and
\* refresh beside a writer that commits, compacts and prunes).
THEOREM ReaderAlwaysConsistent == Spec => []ReaderConsistent
<1>1. Inv => ReaderConsistent
  BY DEF Inv, Whole, Reading, ReaderConsistent, LedgerOf
<1>2. QED
  BY <1>1, InvAlways, PTL

\* What a restart would find changes only to all of what is being saved
\* (swap_current, and the save of the monolithic ledger).
THEOREM OnlySavesEverShow == Spec => OnlySavesShow
<1>1. Inv /\ [Next]_vars => [~swept' /\ Durable' # Durable => Durable' \in {Saving, View'}]_vars
  BY InvNext DEF Shows
<1>2. QED
  BY <1>1, InvAlways, PTL DEF Spec, OnlySavesShow

=============================================================================
