----------------------- MODULE LedgerJournal_proofs -----------------------
(***************************************************************************)
(* Theorems about LedgerJournal: the ledger can always be opened, a batch  *)
(* is invisible until it commits, a save is durable or did not happen, the *)
(* files implement the ledger of AtomicLedger, every record is read, and   *)
(* no open finds a mixture of saves.                                       *)
(***************************************************************************)
EXTENDS LedgerJournal, Orders_proofs, SequenceTheorems

-----------------------------------------------------------------------------
(* Types *)

Refs == {Same} \cup {InPack(p) : p \in RecordPacks} \cup {Inline(v) : v \in Versions}
Updates == UNION {[ks -> [ver : Versions \cup {None}, rec : Refs]] : ks \in SUBSET Keys}
JournalRecords == [gen : Nat, sealed : BOOLEAN, upd : Updates]
Journals == Seq(JournalRecords)
Locs == {NoLoc} \cup {PackLoc(p) : p \in RecordPacks}
          \cup {LogLoc(f, i) : f \in {"live", "prev"}, i \in Nat}
Indexes == [gen : Nat, tab : Tables, loc : [Keys -> Locs]]
Snapshots == [kind : {"v1", "v2"}, gen : Nat, tab : Tables, loc : [Keys -> Locs]]
Files == Snapshots \cup {NoFile, Corrupt}
Batches == {NoBatch} \cup [open : {TRUE}, queued : RecordPacks, base : Tables]

-----------------------------------------------------------------------------
(* Replaying a journal *)

\* The records of a journal that touch an asset, and those of them that say
\* where its record is.
Touching(l, g, k) == {i \in Applied(l, g) : k \in DOMAIN l[i].upd}
Telling(l, g, k) ==
    {i \in Touching(l, g, k) : l[i].upd[k].ver = None \/ l[i].upd[k].rec.tag # 0}

\* The location the telling records leave, and whether a record after the last
\* of them re-lists the asset.
Told(ix, l, f, k) ==
    IF Telling(l, ix.gen, k) = {} THEN ix.loc[k]
    ELSE NewLoc(l[Max(Telling(l, ix.gen, k))].upd[k], f, Max(Telling(l, ix.gen, k)))
Relisted(ix, l, k) ==
    /\ Touching(l, ix.gen, k) # {}
    /\ \/ Telling(l, ix.gen, k) = {}
       \/ Max(Touching(l, ix.gen, k)) # Max(Telling(l, ix.gen, k))

\* replay_journal by its parts.
LEMMA ReplayParts ==
  ASSUME NEW ix, NEW l, NEW f
  PROVE  replay_journal(ix, l, f) =
            [gen |-> Max({ix.gen} \cup {l[i].gen : i \in Applied(l, ix.gen)}),
             tab |-> [k \in Keys |-> IF Touching(l, ix.gen, k) = {} THEN ix.tab[k]
                                     ELSE l[Max(Touching(l, ix.gen, k))].upd[k].ver],
             loc |-> [k \in Keys |-> IF Relisted(ix, l, k) /\ Told(ix, l, f, k).kind # "log"
                                     THEN NoLoc ELSE Told(ix, l, f, k)]]
  BY Zenon DEF replay_journal, Touching, Telling, Told, Relisted

\* What the type of a journal says of its records.
LEMMA JournalTyped ==
  ASSUME NEW l \in Journals
  PROVE  /\ Len(l) \in Nat /\ DOMAIN l = 1..Len(l)
         /\ \A j \in DOMAIN l : /\ l[j] \in JournalRecords
                               /\ l[j].gen \in Nat /\ l[j].sealed \in BOOLEAN
                               /\ l[j].upd \in Updates
<1>1. Len(l) \in Nat /\ DOMAIN l = 1..Len(l) /\ \A j \in 1..Len(l) : l[j] \in JournalRecords
  BY DEF Journals
<1>2. \A r \in JournalRecords : r.gen \in Nat /\ r.sealed \in BOOLEAN /\ r.upd \in Updates
  BY DEF JournalRecords
<1>3. QED
  BY <1>1, <1>2

\* The generations of a journal are bounded.
LEMMA GenBound ==
  ASSUME NEW l \in Journals
  PROVE  \E b \in Nat : \A j \in DOMAIN l : l[j].gen \in 0..b
<1> DEFINE Bounded(n) == \E b \in Nat : \A j \in DOMAIN l : j <= n => l[j].gen \in 0..b
           bad == {n \in Nat : ~Bounded(n)}
<1>0. Len(l) \in Nat /\ DOMAIN l = 1..Len(l) /\ \A j \in DOMAIN l : l[j].gen \in Nat
  BY JournalTyped
<1>1. SUFFICES Bounded(Len(l))
  BY <1>0
<1>2. Bounded(0)
  BY <1>0
<1>3. ASSUME NEW n \in Nat, Bounded(n)
      PROVE  Bounded(n + 1)
  <2>1. PICK b \in Nat : \A j \in DOMAIN l : j <= n => l[j].gen \in 0..b
    BY <1>3
  <2>2. CASE n + 1 \in DOMAIN l
    <3> DEFINE c == b + l[n + 1].gen
    <3>1. l[n + 1].gen \in Nat /\ c \in Nat /\ b <= c /\ l[n + 1].gen <= c
      BY <1>0, <2>2
    <3>2. ASSUME NEW j \in DOMAIN l, j <= n + 1
          PROVE  l[j].gen \in 0..c
      <4>1. j \in Nat /\ l[j].gen \in Nat
        BY <1>0
      <4>2. CASE j = n + 1
        BY <3>1, <4>2
      <4>3. CASE j # n + 1
        BY <2>1, <3>1, <3>2, <4>1, <4>3
      <4>4. QED
        BY <4>2, <4>3
    <3> HIDE DEF c
    <3>3. QED
      BY <3>1, <3>2
  <2>3. CASE n + 1 \notin DOMAIN l
    <3>1. \A j \in DOMAIN l : j <= n + 1 => j <= n
      BY <1>0, <2>3
    <3>2. QED
      BY <2>1, <3>1
  <2>4. QED
    BY <2>2, <2>3
<1>4. bad = {}
  <2>1. SUFFICES ASSUME bad # {}
                 PROVE  FALSE
    OBVIOUS
  <2>2. bad \in SUBSET Nat
    OBVIOUS
  <2>3. PICK m \in bad : \A y \in bad : m <= y
    <3> HIDE DEF bad
    <3>1. QED
      BY <2>1, <2>2, MinOf
  <2>4. m \in Nat /\ ~Bounded(m)
    BY <2>3
  <2> HIDE DEF Bounded
  <2>5. m # 0
    BY <1>2, <2>4
  <2>6. m - 1 \in Nat /\ (m - 1) + 1 = m
    BY <2>4, <2>5
  <2>7. ~Bounded(m - 1)
    BY <1>3, <2>4, <2>6
  <2>8. QED
    BY <2>3, <2>6, <2>7
<1> HIDE DEF Bounded
<1>5. QED
  BY <1>0, <1>4

\* The generation a replay has come to is that of the ledger it started from
\* or of a record before, and the greatest of them.
LEMMA GenBeforeIs ==
  ASSUME NEW l \in Journals, NEW g \in Nat, NEW i \in Nat, i <= Len(l) + 1
  PROVE  /\ GenBefore(l, g, i) \in Nat
         /\ GenBefore(l, g, i) >= g
         /\ \A j \in 1..(i - 1) : l[j].gen <= GenBefore(l, g, i)
         /\ \/ GenBefore(l, g, i) = g
            \/ \E j \in 1..(i - 1) : GenBefore(l, g, i) = l[j].gen
<1> DEFINE S == {g} \cup {l[j].gen : j \in 1..(i - 1)}
<1>0. Len(l) \in Nat /\ DOMAIN l = 1..Len(l) /\ \A j \in DOMAIN l : l[j].gen \in Nat
  BY JournalTyped
<1>1. PICK b \in Nat : \A j \in DOMAIN l : l[j].gen \in 0..b
  BY GenBound
<1>2. g + b \in Nat /\ g \in 0..(g + b) /\ \A n \in 0..b : n \in 0..(g + b)
  OBVIOUS
<1>3. 1..(i - 1) \subseteq DOMAIN l
  BY <1>0
<1>4. S \subseteq 0..(g + b) /\ S # {}
  BY <1>1, <1>2, <1>3
<1>5. Max(S) \in S /\ \A y \in S : Max(S) >= y
  <2> HIDE DEF S
  <2>1. QED
    BY <1>2, <1>4, MaxOf
<1>6. GenBefore(l, g, i) = Max(S)
  BY DEF GenBefore
<1>7. GenBefore(l, g, i) \in S /\ \A y \in S : GenBefore(l, g, i) >= y
  BY <1>5, <1>6
<1>8. GenBefore(l, g, i) \in Nat
  BY <1>4, <1>7
<1>9. \A j \in 1..(i - 1) : l[j].gen \in S /\ l[j].gen \in Nat
  BY <1>0, <1>3
<1>10. \A j \in 1..(i - 1) : l[j].gen <= GenBefore(l, g, i)
  <2> HIDE DEF S
  <2>1. QED
    BY <1>7, <1>8, <1>9
<1>11. QED
  BY <1>7, <1>8, <1>10

\* What the type of a journal record's upserts says of one of them.
LEMMA UpdateTyped ==
  ASSUME NEW u \in Updates, NEW k \in DOMAIN u
  PROVE  /\ DOMAIN u \subseteq Keys
         /\ u[k].ver \in Versions \cup {None}
         /\ u[k].rec \in Refs
<1>1. PICK ks \in SUBSET Keys : u \in [ks -> [ver : Versions \cup {None}, rec : Refs]]
  BY DEF Updates
<1>2. QED
  BY <1>1

\* What a reference of a given tag holds.
LEMMA RefTyped ==
  ASSUME NEW r \in Refs
  PROVE  /\ r.tag \in {0, 1, 2}
         /\ r.tag = 1 => r.pack \in RecordPacks
         /\ r.tag = 2 => r.ver \in Versions
  BY DEF Refs, Same, InPack, Inline

\* The last of some records of a journal.
LEMMA LastOf ==
  ASSUME NEW l \in Journals, NEW T \in SUBSET DOMAIN l, T # {}
  PROVE  Max(T) \in T /\ Max(T) \in DOMAIN l /\ \A i \in T : i <= Max(T)
<1>1. Len(l) \in Nat /\ DOMAIN l = 1..Len(l)
  BY JournalTyped
<1>2. T \in SUBSET (0..Len(l))
  BY <1>1
<1>3. Max(T) \in T /\ \A i \in T : Max(T) >= i
  BY <1>1, <1>2, MaxOf
<1>4. QED
  BY <1>1, <1>2, <1>3

\* What a replay leaves is a ledger.
LEMMA ReplayTyped ==
  ASSUME NEW ix \in Indexes, NEW l \in Journals, NEW f \in {"live", "prev"}
  PROVE  replay_journal(ix, l, f) \in Indexes
<1> DEFINE g == ix.gen
<1>0. /\ ix.gen \in Nat /\ ix.tab \in Tables /\ ix.loc \in [Keys -> Locs]
      /\ Len(l) \in Nat /\ DOMAIN l = 1..Len(l)
      /\ Applied(l, g) \subseteq DOMAIN l
  BY JournalTyped DEF Indexes, Applied, Reached
<1>1. Max({ix.gen} \cup {l[i].gen : i \in Applied(l, g)}) \in Nat
  <2> DEFINE S == {ix.gen} \cup {l[i].gen : i \in Applied(l, g)}
  <2>1. PICK b \in Nat : \A j \in DOMAIN l : l[j].gen \in 0..b
    BY GenBound
  <2>2. g + b \in Nat /\ g \in 0..(g + b) /\ \A n \in 0..b : n \in 0..(g + b)
    BY <1>0
  <2>3. S \subseteq 0..(g + b) /\ S # {}
    BY <1>0, <2>1, <2>2
  <2>4. Max(S) \in S
    <3> HIDE DEF S, g
    <3>1. QED
      BY <2>2, <2>3, MaxOf
  <2>5. QED
    BY <2>3, <2>4
<1>2. ASSUME NEW k \in Keys
      PROVE  (IF Touching(l, g, k) = {} THEN ix.tab[k]
              ELSE l[Max(Touching(l, g, k))].upd[k].ver) \in Versions \cup {None}
  <2>1. CASE Touching(l, g, k) = {}
    BY <1>0, <2>1 DEF Tables
  <2>2. CASE Touching(l, g, k) # {}
    <3> DEFINE i == Max(Touching(l, g, k))
    <3>1. Touching(l, g, k) \in SUBSET DOMAIN l
      BY <1>0 DEF Touching
    <3>2. i \in Touching(l, g, k) /\ i \in DOMAIN l
      BY <2>2, <3>1, LastOf
    <3>3. k \in DOMAIN l[i].upd /\ l[i].upd \in Updates
      BY <3>2, JournalTyped DEF Touching
    <3>4. l[i].upd[k].ver \in Versions \cup {None}
      BY <3>3, UpdateTyped
    <3>5. QED
      BY <2>2, <3>4
  <2>3. QED
    BY <2>1, <2>2
<1>3. ASSUME NEW k \in Keys
      PROVE  Told(ix, l, f, k) \in Locs
  <2>1. CASE Telling(l, g, k) = {}
    BY <1>0, <2>1 DEF Told
  <2>2. CASE Telling(l, g, k) # {}
    <3> DEFINE i == Max(Telling(l, g, k))
    <3>1. Telling(l, g, k) \in SUBSET DOMAIN l
      BY <1>0 DEF Touching, Telling
    <3>2. i \in Telling(l, g, k) /\ i \in DOMAIN l
      BY <2>2, <3>1, LastOf
    <3>3. k \in DOMAIN l[i].upd /\ l[i].upd \in Updates
      BY <3>2, JournalTyped DEF Touching, Telling
    <3>4. l[i].upd[k].ver \in Versions \cup {None} /\ l[i].upd[k].rec \in Refs
      BY <3>3, UpdateTyped
    <3>5. l[i].upd[k].ver = None \/ l[i].upd[k].rec.tag # 0
      BY <3>2 DEF Telling
    <3>6. i \in Nat
      BY <1>0, <3>2
    <3>7. Told(ix, l, f, k) = NewLoc(l[i].upd[k], f, i)
      BY <2>2 DEF Told
    <3> HIDE DEF i
    <3>8. NewLoc(l[i].upd[k], f, i) \in Locs
      <4>1. CASE l[i].upd[k].ver = None
        BY <4>1 DEF NewLoc, Locs
      <4>2. CASE l[i].upd[k].ver # None /\ l[i].upd[k].rec.tag = 1
        <5>1. l[i].upd[k].rec.pack \in RecordPacks
          BY <3>4, <4>2, RefTyped
        <5>2. QED
          BY <4>2, <5>1 DEF NewLoc, Locs
      <4>3. CASE l[i].upd[k].ver # None /\ l[i].upd[k].rec.tag = 2
        BY <3>6, <4>3 DEF NewLoc, Locs
      <4>4. l[i].upd[k].rec.tag \in {0, 1, 2}
        BY <3>4, RefTyped
      <4>5. QED
        BY <3>5, <4>1, <4>2, <4>3, <4>4
    <3>9. QED
      BY <3>7, <3>8
  <2>3. QED
    BY <2>1, <2>2
<1>4. NoLoc \in Locs
  BY DEF Locs
<1> DEFINE ntab == [k \in Keys |-> IF Touching(l, ix.gen, k) = {} THEN ix.tab[k]
                                   ELSE l[Max(Touching(l, ix.gen, k))].upd[k].ver]
           nloc == [k \in Keys |-> IF Relisted(ix, l, k) /\ Told(ix, l, f, k).kind # "log"
                                   THEN NoLoc ELSE Told(ix, l, f, k)]
<1>5. ntab \in Tables
  BY <1>2 DEF Tables
<1>6. nloc \in [Keys -> Locs]
  BY <1>3, <1>4
<1>7. replay_journal(ix, l, f) =
         [gen |-> Max({ix.gen} \cup {l[i].gen : i \in Applied(l, ix.gen)}),
          tab |-> ntab, loc |-> nloc]
  BY ReplayParts
<1> HIDE DEF ntab, nloc
<1>8. QED
  BY <1>1, <1>5, <1>6, <1>7 DEF Indexes

\* A journal no record of which is newer than the ledger says nothing to it.
LEMMA ReplayStale ==
  ASSUME NEW ix \in Indexes, NEW l \in Journals, NEW f,
         \A i \in DOMAIN l : l[i].gen <= ix.gen
  PROVE  replay_journal(ix, l, f) = ix
<1>0. /\ ix.gen \in Nat /\ ix.tab \in Tables /\ ix.loc \in [Keys -> Locs]
      /\ ix = [gen |-> ix.gen, tab |-> ix.tab, loc |-> ix.loc]
  BY DEF Indexes
<1>1. Applied(l, ix.gen) = {}
  <2>1. ASSUME NEW i \in DOMAIN l, l[i].gen = GenBefore(l, ix.gen, i) + 1
        PROVE  FALSE
    <3>1. i \in Nat /\ i <= Len(l) + 1 /\ l[i].gen \in Nat
      BY JournalTyped
    <3>2. GenBefore(l, ix.gen, i) \in Nat /\ GenBefore(l, ix.gen, i) >= ix.gen
      BY <1>0, <3>1, GenBeforeIs
    <3>3. l[i].gen <= ix.gen
      OBVIOUS
    <3>4. QED
      BY <1>0, <2>1, <3>1, <3>2, <3>3
  <2>2. QED
    BY <2>1 DEF Applied, Reached
<1>2. \A k \in Keys : Touching(l, ix.gen, k) = {} /\ Telling(l, ix.gen, k) = {}
  BY <1>1 DEF Touching, Telling
<1>3. Max({ix.gen} \cup {l[i].gen : i \in Applied(l, ix.gen)}) = ix.gen
  <2>1. {ix.gen} \cup {l[i].gen : i \in Applied(l, ix.gen)} = {ix.gen}
    BY <1>1
  <2>2. Max({ix.gen}) = ix.gen
    BY <1>0 DEF Max
  <2>3. QED
    BY <2>1, <2>2
<1>4. [k \in Keys |-> IF Touching(l, ix.gen, k) = {} THEN ix.tab[k]
                      ELSE l[Max(Touching(l, ix.gen, k))].upd[k].ver] = ix.tab
  BY <1>0, <1>2 DEF Tables
<1>5. [k \in Keys |-> IF Relisted(ix, l, k) /\ Told(ix, l, f, k).kind # "log"
                      THEN NoLoc ELSE Told(ix, l, f, k)] = ix.loc
  <2>1. \A k \in Keys : ~Relisted(ix, l, k) /\ Told(ix, l, f, k) = ix.loc[k]
    BY <1>2 DEF Relisted, Told
  <2>2. QED
    BY <1>0, <2>1
<1>6. QED
  BY <1>0, <1>3, <1>4, <1>5, ReplayParts

\* Every record of the journal is whole and none stands behind a gap, and a
\* replay that starts at generation g ends at generation e.
Good(l, g, e) ==
    /\ \A i \in DOMAIN l : Passes(l, g, i)
    /\ GenBefore(l, g, Len(l) + 1) = e

\* Where two journals agree, a replay of either goes the same way.
LEMMA SamePrefix ==
  ASSUME NEW l \in Journals, NEW m \in Journals, NEW n \in Nat, NEW g \in Nat,
         n <= Len(l), n <= Len(m), \A j \in 1..n : l[j] = m[j]
  PROVE  /\ \A i \in 1..(n + 1) : GenBefore(l, g, i) = GenBefore(m, g, i)
         /\ \A i \in 1..n : /\ Passes(l, g, i) <=> Passes(m, g, i)
                            /\ i \in Reached(l, g) <=> i \in Reached(m, g)
                            /\ i \in Applied(l, g) <=> i \in Applied(m, g)
<1>0. /\ Len(l) \in Nat /\ DOMAIN l = 1..Len(l)
      /\ Len(m) \in Nat /\ DOMAIN m = 1..Len(m)
  BY JournalTyped
<1>1. ASSUME NEW i \in 1..(n + 1)
      PROVE  GenBefore(l, g, i) = GenBefore(m, g, i)
  <2>1. \A j \in 1..(i - 1) : l[j].gen = m[j].gen
    OBVIOUS
  <2>2. {l[j].gen : j \in 1..(i - 1)} = {m[j].gen : j \in 1..(i - 1)}
    BY <2>1
  <2>3. QED
    BY <2>2 DEF GenBefore
<1>2. ASSUME NEW i \in 1..n
      PROVE  Passes(l, g, i) <=> Passes(m, g, i)
  <2>1. GenBefore(l, g, i) = GenBefore(m, g, i)
    BY <1>1
  <2>2. QED
    BY <2>1 DEF Passes
<1>3. ASSUME NEW i \in 1..n
      PROVE  i \in Reached(l, g) <=> i \in Reached(m, g)
  <2>1. \A j \in 1..i : j \in 1..n
    OBVIOUS
  <2>2. \A j \in 1..i : Passes(l, g, j) <=> Passes(m, g, j)
    BY <1>2, <2>1
  <2>3. i \in DOMAIN l /\ i \in DOMAIN m
    BY <1>0
  <2>4. QED
    BY <2>2, <2>3 DEF Reached
<1>4. ASSUME NEW i \in 1..n
      PROVE  i \in Applied(l, g) <=> i \in Applied(m, g)
  <2>1. GenBefore(l, g, i) = GenBefore(m, g, i) /\ l[i] = m[i]
    BY <1>1
  <2>2. QED
    BY <1>3, <2>1 DEF Applied
<1>5. QED
  BY <1>1, <1>2, <1>3, <1>4

\* The number a set of numbers has as its greatest.
LEMMA MaxIs ==
  ASSUME NEW S \in SUBSET Nat, NEW x \in S, \A y \in S : y <= x
  PROVE  Max(S) = x
<1>1. \A y \in S : x >= y
  OBVIOUS
<1>2. Max(S) \in S /\ \A y \in S : Max(S) >= y
  BY <1>1 DEF Max
<1>3. Max(S) \in Nat /\ x \in Nat /\ Max(S) >= x /\ Max(S) <= x
  BY <1>2
<1>4. QED
  BY <1>3

\* The generation a replay of a whole journal ends at.
LEMMA EndIs ==
  ASSUME NEW l \in Journals, NEW g \in Nat, NEW n, n = Len(l) + 1
  PROVE  /\ GenBefore(l, g, n) \in Nat
         /\ GenBefore(l, g, n) >= g
         /\ \A j \in DOMAIN l : l[j].gen <= GenBefore(l, g, n)
         /\ \/ GenBefore(l, g, n) = g
            \/ \E j \in DOMAIN l : GenBefore(l, g, n) = l[j].gen
<1>1. Len(l) \in Nat /\ DOMAIN l = 1..Len(l)
  BY JournalTyped
<1>2. n \in Nat /\ n <= Len(l) + 1 /\ 1..(n - 1) = DOMAIN l
  BY <1>1
<1>3. /\ GenBefore(l, g, n) \in Nat
      /\ GenBefore(l, g, n) >= g
      /\ \A j \in 1..(n - 1) : l[j].gen <= GenBefore(l, g, n)
      /\ \/ GenBefore(l, g, n) = g
         \/ \E j \in 1..(n - 1) : GenBefore(l, g, n) = l[j].gen
  BY <1>2, GenBeforeIs
<1>4. QED
  BY <1>2, <1>3

\* A replay gets past every record of a good journal.
LEMMA GoodReached ==
  ASSUME NEW l \in Journals, NEW g \in Nat, NEW e, Good(l, g, e)
  PROVE  Reached(l, g) = DOMAIN l
<1>1. Len(l) \in Nat /\ DOMAIN l = 1..Len(l)
  BY JournalTyped
<1>2. ASSUME NEW i \in DOMAIN l, NEW j \in 1..i
      PROVE  Passes(l, g, j)
  <2>1. j \in DOMAIN l
    BY <1>1
  <2>2. QED
    BY <2>1 DEF Good
<1>3. QED
  BY <1>2 DEF Reached

\* A record of the next generation, appended to a good journal, is applied
\* after all the others: what apply_journal_record does to the ledger.
LEMMA ReplayAppend ==
  ASSUME NEW ix \in Indexes, NEW l \in Journals, NEW r \in JournalRecords,
         NEW f \in {"live", "prev"},
         Good(l, ix.gen, replay_journal(ix, l, f).gen),
         r.sealed, r.gen = replay_journal(ix, l, f).gen + 1
  PROVE  LET m == Append(l, r)
             before == replay_journal(ix, l, f)
             after == replay_journal(ix, m, f)
         IN  /\ m \in Journals
             /\ Good(m, ix.gen, r.gen)
             /\ after.gen = r.gen
             /\ \A k \in Keys \ DOMAIN r.upd :
                    after.tab[k] = before.tab[k] /\ after.loc[k] = before.loc[k]
             /\ \A k \in Keys \cap DOMAIN r.upd :
                    /\ after.tab[k] = r.upd[k].ver
                    /\ r.upd[k].ver = None \/ r.upd[k].rec.tag # 0 =>
                          after.loc[k] = NewLoc(r.upd[k], f, Len(l) + 1)
<1> DEFINE m == Append(l, r)
           n == Len(l)
           g == ix.gen
           e == replay_journal(ix, l, f).gen
<1>0. /\ g \in Nat /\ e \in Nat /\ r.gen \in Nat
      /\ n \in Nat /\ DOMAIN l = 1..n
  <2>1. replay_journal(ix, l, f) \in Indexes
    BY ReplayTyped
  <2>2. QED
    BY <2>1, JournalTyped DEF Indexes, JournalRecords
<1>1. /\ m \in Journals /\ Len(m) = n + 1 /\ DOMAIN m = 1..(n + 1)
      /\ m[n + 1] = r /\ \A j \in 1..n : l[j] = m[j]
  <2>1. m \in Journals /\ Len(m) = n + 1 /\ m[n + 1] = r /\ \A j \in 1..n : l[j] = m[j]
    BY <1>0 DEF Journals
  <2>2. QED
    BY <2>1, JournalTyped
<1> HIDE DEF m, n
<1>2. /\ \A i \in 1..(n + 1) : GenBefore(l, g, i) = GenBefore(m, g, i)
      /\ \A i \in 1..n : /\ Passes(l, g, i) <=> Passes(m, g, i)
                         /\ i \in Reached(l, g) <=> i \in Reached(m, g)
                         /\ i \in Applied(l, g) <=> i \in Applied(m, g)
  <2>1. n <= Len(l) /\ n <= Len(m)
    BY <1>0, <1>1 DEF n
  <2>2. QED
    BY <1>0, <1>1, <2>1, SamePrefix
<1>3. GenBefore(m, g, n + 1) = e
  BY <1>0, <1>2 DEF Good, n
<1>4. Passes(m, g, n + 1)
  BY <1>0, <1>1, <1>3 DEF Passes
<1>5. \A i \in DOMAIN m : Passes(m, g, i)
  <2>1. \A i \in 1..n : Passes(m, g, i)
    BY <1>0, <1>2 DEF Good
  <2>2. \A i \in DOMAIN m : i \in 1..n \/ i = n + 1
    BY <1>0, <1>1
  <2>3. QED
    BY <1>4, <2>1, <2>2
<1>6. GenBefore(m, g, n + 2) = r.gen
  <2>1. n + 2 = Len(m) + 1
    BY <1>0, <1>1
  <2>20. /\ GenBefore(m, g, n + 2) \in Nat
         /\ \A j \in DOMAIN m : m[j].gen <= GenBefore(m, g, n + 2)
         /\ \/ GenBefore(m, g, n + 2) = g
            \/ \E j \in DOMAIN m : GenBefore(m, g, n + 2) = m[j].gen
    BY <1>0, <1>1, <2>1, EndIs
  <2>2. /\ GenBefore(m, g, n + 2) \in Nat
        /\ \A j \in 1..(n + 1) : m[j].gen <= GenBefore(m, g, n + 2)
        /\ \/ GenBefore(m, g, n + 2) = g
           \/ \E j \in 1..(n + 1) : GenBefore(m, g, n + 2) = m[j].gen
    <3>1. DOMAIN m = 1..(n + 1)
      BY <1>1
    <3>2. QED
      BY <2>20, <3>1, Zenon
  <2>3. r.gen <= GenBefore(m, g, n + 2)
    BY <1>0, <1>1, <2>2
  <2>4. e >= g /\ \A j \in 1..n : m[j].gen <= e
    <3>1. GenBefore(l, g, n + 1) = e
      BY DEF Good, n
    <3>2. e >= g /\ \A j \in DOMAIN l : l[j].gen <= e
      BY <1>0, <3>1, EndIs DEF n
    <3>3. QED
      BY <1>0, <1>1, <3>2
  <2>5. g <= r.gen /\ \A j \in 1..(n + 1) : m[j].gen <= r.gen
    <3>1. e <= r.gen
      BY <1>0
    <3>2. ASSUME NEW j \in 1..(n + 1)
          PROVE  m[j].gen <= r.gen
      <4>1. CASE j = n + 1
        BY <1>0, <1>1, <4>1
      <4>2. CASE j # n + 1
        <5>1. j \in 1..n
          BY <1>0, <4>2
        <5>2. m[j].gen <= e /\ m[j].gen \in Nat
          BY <1>0, <1>1, <2>4, <5>1, JournalTyped
        <5>3. QED
          BY <1>0, <3>1, <5>2
      <4>3. QED
        BY <4>1, <4>2
    <3>3. QED
      BY <1>0, <2>4, <3>1, <3>2
  <2>6. GenBefore(m, g, n + 2) <= r.gen
    BY <2>2, <2>5
  <2>7. QED
    BY <1>0, <2>2, <2>3, <2>6
<1>7. Good(m, g, r.gen)
  <2>1. Len(m) + 1 = n + 2
    BY <1>0, <1>1
  <2>2. QED
    BY <1>5, <1>6, <2>1 DEF Good
<1>8. Applied(m, g) = Applied(l, g) \cup {n + 1}
  <2>1. Reached(m, g) = DOMAIN m
    BY <1>0, <1>1, <1>7, GoodReached
  <2>2. n + 1 \in Applied(m, g)
    BY <1>0, <1>1, <1>3, <2>1 DEF Applied
  <2>3. Applied(m, g) \subseteq 1..(n + 1) /\ Applied(l, g) \subseteq 1..n
    BY <1>0, <1>1 DEF Applied, Reached
  <2>4. \A i \in 1..(n + 1) : i \in 1..n \/ i = n + 1
    BY <1>0
  <2>5. 1..n \subseteq 1..(n + 1)
    BY <1>0
  <2>6. ASSUME NEW i \in Applied(m, g) PROVE i \in Applied(l, g) \cup {n + 1}
    BY <1>2, <2>3, <2>4
  <2>7. ASSUME NEW i \in Applied(l, g) PROVE i \in Applied(m, g)
    BY <1>2, <2>3
  <2>8. QED
    BY <2>2, <2>6, <2>7
<1>9. Applied(l, g) \subseteq 1..n /\ n + 1 \notin 1..n
  BY <1>0 DEF Applied, Reached
<1>10. \A i \in Applied(l, g) : m[i] = l[i]
  BY <1>1, <1>9
<1>11. replay_journal(ix, m, f).gen = r.gen
  <2> DEFINE S == {ix.gen} \cup {m[i].gen : i \in Applied(m, ix.gen)}
  <2>1. r.gen \in S
    BY <1>1, <1>8
  <2>2. \A y \in S : r.gen >= y
    <3>1. GenBefore(m, g, n + 2) >= g /\ \A j \in 1..(n + 1) : m[j].gen <= GenBefore(m, g, n + 2)
      <4>1. n + 2 = Len(m) + 1
        BY <1>0, <1>1
      <4>2. QED
        BY <1>0, <1>1, <4>1, EndIs
    <3>2. \A j \in 1..(n + 1) : m[j].gen <= r.gen /\ m[j].gen \in Nat
      BY <1>1, <1>6, <3>1, JournalTyped
    <3>3. r.gen >= g
      BY <1>6, <3>1
    <3>4. \A i \in Applied(m, g) : i \in 1..(n + 1)
      BY <1>0, <1>8, <1>9
    <3>5. \A i \in Applied(m, g) : r.gen >= m[i].gen
      BY <1>0, <3>2, <3>4
    <3>6. QED
      BY <3>3, <3>5
  <2>3. \A y \in S : y \in Nat
    BY <1>0, <1>1, <1>8, <1>9, JournalTyped
  <2>4. Max(S) = r.gen
    <3> HIDE DEF S
    <3>1. QED
      BY <1>0, <2>1, <2>2, <2>3 DEF Max
  <2>5. QED
    BY <2>4, ReplayParts
<1>12. ASSUME NEW k \in Keys \ DOMAIN r.upd
       PROVE  /\ replay_journal(ix, m, f).tab[k] = replay_journal(ix, l, f).tab[k]
              /\ replay_journal(ix, m, f).loc[k] = replay_journal(ix, l, f).loc[k]
  <2>1. Touching(m, g, k) = Touching(l, g, k)
    BY <1>1, <1>8, <1>10 DEF Touching
  <2>2. Touching(l, g, k) \subseteq Applied(l, g)
    BY DEF Touching
  <2>3. Telling(m, g, k) = Telling(l, g, k)
    BY <1>10, <2>1, <2>2 DEF Telling
  <2>4. Touching(l, g, k) # {} =>
           l[Max(Touching(l, g, k))] = m[Max(Touching(l, g, k))]
    <3>1. Touching(l, g, k) \in SUBSET DOMAIN l
      BY <1>0, <1>9, <2>2
    <3>2. QED
      BY <1>10, <2>2, <3>1, LastOf
  <2>5. Telling(l, g, k) # {} =>
           l[Max(Telling(l, g, k))] = m[Max(Telling(l, g, k))]
    <3>1. Telling(l, g, k) \in SUBSET DOMAIN l /\ Telling(l, g, k) \subseteq Applied(l, g)
      BY <1>0, <1>9, <2>2 DEF Telling
    <3>2. QED
      BY <1>10, <3>1, LastOf
  <2>6. Told(ix, m, f, k) = Told(ix, l, f, k)
    BY <2>3, <2>5 DEF Told
  <2>7. Relisted(ix, m, k) = Relisted(ix, l, k)
    BY <2>1, <2>3 DEF Relisted
  <2>8. QED
    BY <2>1, <2>4, <2>6, <2>7, ReplayParts
<1>13. ASSUME NEW k \in Keys \cap DOMAIN r.upd
       PROVE  /\ replay_journal(ix, m, f).tab[k] = r.upd[k].ver
              /\ r.upd[k].ver = None \/ r.upd[k].rec.tag # 0 =>
                    replay_journal(ix, m, f).loc[k] = NewLoc(r.upd[k], f, n + 1)
  <2>1. n + 1 \in Touching(m, g, k) /\ Touching(m, g, k) \subseteq 1..(n + 1)
    <3>1. Applied(m, g) \subseteq 1..(n + 1)
      BY <1>0, <1>8, <1>9
    <3>2. QED
      BY <1>1, <1>8, <3>1 DEF Touching
  <2>2. ASSUME NEW T \in SUBSET (1..(n + 1)), n + 1 \in T
        PROVE  Max(T) = n + 1
    <3>1. T \in SUBSET Nat /\ \A y \in T : y <= n + 1
      BY <1>0
    <3>2. QED
      BY <2>2, <3>1, MaxIs
  <2>3. Max(Touching(m, g, k)) = n + 1
    BY <2>1, <2>2
  <2>4. replay_journal(ix, m, f).tab[k] = r.upd[k].ver
    BY <1>1, <2>1, <2>3, ReplayParts
  <2>5. ASSUME r.upd[k].ver = None \/ r.upd[k].rec.tag # 0
        PROVE  replay_journal(ix, m, f).loc[k] = NewLoc(r.upd[k], f, n + 1)
    <3>1. n + 1 \in Telling(m, g, k) /\ Telling(m, g, k) \subseteq 1..(n + 1)
      BY <1>1, <2>1, <2>5 DEF Telling
    <3>2. Max(Telling(m, g, k)) = n + 1
      BY <2>2, <3>1
    <3>3. ~Relisted(ix, m, k)
      BY <2>3, <3>1, <3>2 DEF Relisted
    <3>4. Told(ix, m, f, k) = NewLoc(r.upd[k], f, n + 1)
      BY <1>1, <3>1, <3>2 DEF Told
    <3>5. QED
      BY <3>3, <3>4, ReplayParts
  <2>6. QED
    BY <2>4, <2>5
<1>14. QED
  BY <1>1, <1>7, <1>11, <1>12, <1>13 DEF m, n

\* A journal of older records only, all of them whole, is good.
LEMMA GoodStale ==
  ASSUME NEW l \in Journals, NEW g \in Nat,
         \A i \in DOMAIN l : l[i].sealed /\ l[i].gen <= g
  PROVE  Good(l, g, g)
<1>1. Len(l) \in Nat /\ DOMAIN l = 1..Len(l) /\ \A i \in DOMAIN l : l[i].gen \in Nat
  BY JournalTyped
<1>2. ASSUME NEW i \in DOMAIN l
      PROVE  Passes(l, g, i)
  <2>1. i \in Nat /\ i <= Len(l) + 1
    BY <1>1
  <2>2. GenBefore(l, g, i) \in Nat /\ GenBefore(l, g, i) >= g
    BY <2>1, GenBeforeIs
  <2>3. l[i].gen \in Nat /\ l[i].gen <= g /\ l[i].sealed
    BY <1>1
  <2>4. QED
    BY <2>2, <2>3 DEF Passes
<1>3. GenBefore(l, g, Len(l) + 1) = g
  <2>1. /\ GenBefore(l, g, Len(l) + 1) \in Nat
        /\ GenBefore(l, g, Len(l) + 1) >= g
        /\ \/ GenBefore(l, g, Len(l) + 1) = g
           \/ \E j \in DOMAIN l : GenBefore(l, g, Len(l) + 1) = l[j].gen
    BY EndIs
  <2>2. GenBefore(l, g, Len(l) + 1) <= g
    BY <1>1, <2>1
  <2>3. QED
    BY <2>1, <2>2
<1>4. QED
  BY <1>2, <1>3 DEF Good

\* The beginning of a journal.
LEMMA PrefixIs ==
  ASSUME NEW l \in Journals, NEW n \in Nat, n <= Len(l)
  PROVE  /\ SubSeq(l, 1, n) \in Journals
         /\ Len(SubSeq(l, 1, n)) = n
         /\ \A j \in 1..n : l[j] = SubSeq(l, 1, n)[j]
<1>1. Len(l) \in Nat /\ DOMAIN l = 1..Len(l) /\ \A j \in DOMAIN l : l[j] \in JournalRecords
  BY JournalTyped
<1>2. \A i \in 1..n : l[i] \in JournalRecords
  BY <1>1
<1>3. /\ SubSeq(l, 1, n) \in Seq(JournalRecords)
      /\ Len(SubSeq(l, 1, n)) = IF 1 <= n THEN n - 1 + 1 ELSE 0
      /\ \A i \in 1..(n - 1 + 1) : SubSeq(l, 1, n)[i] = l[1 + i - 1]
  BY <1>2, SubSeqProperties
<1>4. \A j \in 1..n : j \in 1..(n - 1 + 1) /\ 1 + j - 1 = j
  OBVIOUS
<1>5. (IF 1 <= n THEN n - 1 + 1 ELSE 0) = n
  OBVIOUS
<1>6. QED
  BY <1>3, <1>4, <1>5 DEF Journals

\* The last record of the journal was cut short; what is before it.
Torn(l)  == l # <<>> /\ ~l[Len(l)].sealed
Sound(l) == IF Torn(l) THEN SubSeq(l, 1, Len(l) - 1) ELSE l

\* The part before a torn record.
LEMMA SoundIs ==
  ASSUME NEW l \in Journals, Torn(l)
  PROVE  /\ Len(l) \in Nat /\ Len(l) > 0
         /\ Sound(l) \in Journals /\ Len(Sound(l)) = Len(l) - 1
         /\ \A j \in 1..(Len(l) - 1) : l[j] = Sound(l)[j]
<1>1. Len(l) \in Nat /\ l \in Seq(JournalRecords)
  BY DEF Journals
<1>2. Len(l) > 0
  BY <1>1, EmptySeq DEF Torn
<1>3. /\ SubSeq(l, 1, Len(l) - 1) \in Journals
      /\ Len(SubSeq(l, 1, Len(l) - 1)) = Len(l) - 1
      /\ \A j \in 1..(Len(l) - 1) : l[j] = SubSeq(l, 1, Len(l) - 1)[j]
  <2>1. Len(l) - 1 \in Nat /\ Len(l) - 1 <= Len(l)
    BY <1>1, <1>2
  <2>2. QED
    BY <2>1, PrefixIs
<1>4. QED
  BY <1>1, <1>2, <1>3 DEF Sound

\* A replay stops before a torn record.
LEMMA ReplaySound ==
  ASSUME NEW l \in Journals, NEW g \in Nat
  PROVE  /\ Sound(l) \in Journals
         /\ Reached(l, g) = Reached(Sound(l), g)
         /\ Applied(l, g) = Applied(Sound(l), g)
         /\ \A i \in DOMAIN Sound(l) : Sound(l)[i] = l[i]
<1>1. CASE ~Torn(l)
  BY <1>1 DEF Sound
<1>2. CASE Torn(l)
  <2> DEFINE n == Len(l) - 1
  <2>1. /\ Len(l) \in Nat /\ n \in Nat /\ n + 1 = Len(l)
        /\ Sound(l) \in Journals /\ Len(Sound(l)) = n
        /\ \A j \in 1..n : l[j] = Sound(l)[j]
    BY <1>2, SoundIs
  <2>2. DOMAIN l = 1..(n + 1) /\ DOMAIN Sound(l) = 1..n /\ ~l[n + 1].sealed
    <3>1. DOMAIN l = 1..Len(l)
      BY JournalTyped
    <3>2. DOMAIN Sound(l) = 1..Len(Sound(l))
      BY <2>1, JournalTyped
    <3>3. QED
      BY <1>2, <2>1, <3>1, <3>2 DEF Torn
  <2>3. n <= Len(l) /\ n <= Len(Sound(l))
    BY <2>1
  <2> HIDE DEF n
  <2>4. \A i \in 1..n : /\ i \in Reached(l, g) <=> i \in Reached(Sound(l), g)
                        /\ i \in Applied(l, g) <=> i \in Applied(Sound(l), g)
    BY <2>1, <2>3, SamePrefix
  <2>5. n + 1 \notin Reached(l, g)
    <3>1. n + 1 \in 1..(n + 1)
      BY <2>1
    <3>2. ~Passes(l, g, n + 1)
      BY <2>2 DEF Passes
    <3>3. QED
      BY <3>1, <3>2 DEF Reached
  <2>6. Reached(l, g) \subseteq 1..n
    <3>1. Reached(l, g) \subseteq 1..(n + 1)
      BY <2>2 DEF Reached
    <3>2. \A i \in 1..(n + 1) : i \in 1..n \/ i = n + 1
      BY <2>1
    <3>3. QED
      BY <2>5, <3>1, <3>2
  <2>7. Reached(Sound(l), g) \subseteq 1..n
    BY <2>2 DEF Reached
  <2>8. Applied(l, g) \subseteq 1..n /\ Applied(Sound(l), g) \subseteq 1..n
    BY <2>6, <2>7 DEF Applied
  <2>9. Reached(l, g) = Reached(Sound(l), g)
    BY <2>4, <2>6, <2>7
  <2>10. Applied(l, g) = Applied(Sound(l), g)
    BY <2>4, <2>8
  <2>11. QED
    BY <2>1, <2>2, <2>9, <2>10
<1>3. QED
  BY <1>1, <1>2

\* What a replay leaves is decided by the records that it applies.
LEMMA ReplayAlike ==
  ASSUME NEW ix \in Indexes, NEW l \in Journals, NEW m \in Journals, NEW f,
         Applied(l, ix.gen) = Applied(m, ix.gen),
         \A i \in Applied(m, ix.gen) : l[i] = m[i]
  PROVE  replay_journal(ix, l, f) = replay_journal(ix, m, f)
<1> DEFINE g == ix.gen
<1>1. g \in Nat
  BY DEF Indexes
<1>2. Applied(l, g) = Applied(m, g) /\ \A i \in Applied(m, g) : m[i] = l[i]
  OBVIOUS
<1>3. Applied(m, g) \subseteq DOMAIN m
  BY DEF Applied, Reached
<1>4. {l[i].gen : i \in Applied(l, g)} = {m[i].gen : i \in Applied(m, g)}
  BY <1>2, <1>3
<1>5. ASSUME NEW k \in Keys
      PROVE  /\ Touching(l, g, k) = Touching(m, g, k)
             /\ Telling(l, g, k) = Telling(m, g, k)
             /\ Touching(m, g, k) \in SUBSET Applied(m, g)
             /\ Telling(m, g, k) \in SUBSET Applied(m, g)
  <2>1. Touching(l, g, k) = Touching(m, g, k) /\ Touching(m, g, k) \in SUBSET Applied(m, g)
    BY <1>2, <1>3 DEF Touching
  <2>2. Telling(l, g, k) = Telling(m, g, k) /\ Telling(m, g, k) \in SUBSET Applied(m, g)
    BY <1>2, <2>1 DEF Telling
  <2>3. QED
    BY <2>1, <2>2
<1>6. ASSUME NEW T \in SUBSET Applied(m, g), T # {}
      PROVE  l[Max(T)] = m[Max(T)]
  BY <1>2, <1>3, <1>6, LastOf
<1>7. ASSUME NEW k \in Keys
      PROVE  /\ (IF Touching(l, g, k) = {} THEN ix.tab[k]
                 ELSE l[Max(Touching(l, g, k))].upd[k].ver)
                 = (IF Touching(m, g, k) = {} THEN ix.tab[k]
                    ELSE m[Max(Touching(m, g, k))].upd[k].ver)
             /\ Told(ix, l, f, k) = Told(ix, m, f, k)
             /\ Relisted(ix, l, k) = Relisted(ix, m, k)
  <2>1. Touching(m, g, k) # {} => l[Max(Touching(m, g, k))] = m[Max(Touching(m, g, k))]
    BY <1>5, <1>6
  <2>2. Telling(m, g, k) # {} => l[Max(Telling(m, g, k))] = m[Max(Telling(m, g, k))]
    BY <1>5, <1>6
  <2>3. Told(ix, l, f, k) = Told(ix, m, f, k)
    BY <1>5, <2>2 DEF Told
  <2>4. Relisted(ix, l, k) = Relisted(ix, m, k)
    BY <1>5 DEF Relisted
  <2>5. QED
    BY <1>5, <2>1, <2>3, <2>4
<1>8. QED
  <2>1. replay_journal(ix, l, f) =
            [gen |-> Max({g} \cup {l[i].gen : i \in Applied(l, g)}),
             tab |-> [k \in Keys |-> IF Touching(l, g, k) = {} THEN ix.tab[k]
                                     ELSE l[Max(Touching(l, g, k))].upd[k].ver],
             loc |-> [k \in Keys |-> IF Relisted(ix, l, k) /\ Told(ix, l, f, k).kind # "log"
                                     THEN NoLoc ELSE Told(ix, l, f, k)]]
    BY ReplayParts
  <2>2. replay_journal(ix, m, f) =
            [gen |-> Max({g} \cup {m[i].gen : i \in Applied(m, g)}),
             tab |-> [k \in Keys |-> IF Touching(m, g, k) = {} THEN ix.tab[k]
                                     ELSE m[Max(Touching(m, g, k))].upd[k].ver],
             loc |-> [k \in Keys |-> IF Relisted(ix, m, k) /\ Told(ix, m, f, k).kind # "log"
                                     THEN NoLoc ELSE Told(ix, m, f, k)]]
    BY ReplayParts
  <2>3. QED
    BY <1>4, <1>7, <2>1, <2>2

\* So a replay leaves what a replay of the part before a torn record leaves.
LEMMA ReplayTorn ==
  ASSUME NEW ix \in Indexes, NEW l \in Journals, NEW f
  PROVE  replay_journal(ix, l, f) = replay_journal(ix, Sound(l), f)
<1> DEFINE m == Sound(l)
<1>1. ix.gen \in Nat
  BY DEF Indexes
<1>2. /\ m \in Journals /\ Applied(l, ix.gen) = Applied(m, ix.gen)
      /\ \A i \in DOMAIN m : m[i] = l[i]
  BY <1>1, ReplaySound
<1> HIDE DEF m
<1>3. Applied(m, ix.gen) \subseteq DOMAIN m
  BY DEF Applied, Reached
<1>4. replay_journal(ix, l, f) = replay_journal(ix, m, f)
  BY <1>2, <1>3, ReplayAlike
<1>5. QED
  BY <1>4 DEF m

-----------------------------------------------------------------------------
(* The type invariant *)

Types ==
    /\ bin \in Files /\ prev \in Files /\ tmp \in Files
    /\ log \in Journals /\ logprev \in Journals
    /\ packs \subseteq RecordPacks
    /\ flat \in Tables
    /\ pc \in {"down", "idle", "save", "stage", "retire", "install", "rotate"}
    /\ idx \in Indexes /\ dirty \subseteq Keys /\ pend \in RecordPacks /\ batch \in Batches
    /\ jb \in Nat /\ snap \in BOOLEAN /\ result \in {"ok", "err"}
    /\ acked \in Tables /\ attempt \in Tables /\ committed \subseteq Tables
    /\ faults \in Nat /\ met \subseteq Events
    /\ snap => jb = Len(log)

\* A file is whole, damaged or absent.
LEMMA FileKinds ==
  ASSUME NEW f \in Files
  PROVE  /\ SealHolds(f) <=> f \in Snapshots
         /\ ~SealHolds(f) <=> f \in {NoFile, Corrupt}
         /\ NoFile # Corrupt
         /\ f \in Snapshots => f.kind \in {"v1", "v2"} /\ f.gen \in Nat /\ f.tab \in Tables
                                 /\ f.loc \in [Keys -> Locs]
<1>1. f \in Snapshots => f.kind \in {"v1", "v2"} /\ f.gen \in Nat /\ f.tab \in Tables
                           /\ f.loc \in [Keys -> Locs]
  BY DEF Snapshots
<1>2. NoFile.kind = "absent" /\ Corrupt.kind = "corrupt"
  BY DEF NoFile, Corrupt
<1>3. f \in Snapshots \/ f \in {NoFile, Corrupt}
  BY DEF Files
<1>4. QED
  BY <1>1, <1>2, <1>3 DEF SealHolds

\* The outcomes of load_ledger.
LEMMA LoadIs ==
  ASSUME bin \in Files, prev \in Files
  PROVE  /\ load_ledger = "Live" <=> SealHolds(bin) /\ bin.kind = "v2"
         /\ load_ledger = "Legacy" <=> SealHolds(bin) /\ bin.kind = "v1"
         /\ load_ledger = "Prev" <=> ~SealHolds(bin) /\ SealHolds(prev)
         /\ load_ledger = "None" <=> bin = NoFile /\ prev = NoFile
         /\ load_ledger = "Err" <=> \/ ~SealHolds(bin) /\ prev = Corrupt
                                    \/ bin = Corrupt /\ prev = NoFile
         /\ load_ledger \in {"Live", "Legacy", "Prev", "None", "Err"}
<1>1. /\ SealHolds(bin) <=> bin \in Snapshots
      /\ ~SealHolds(bin) <=> bin \in {NoFile, Corrupt}
      /\ bin \in Snapshots => bin.kind \in {"v1", "v2"}
      /\ NoFile # Corrupt
  BY FileKinds
<1>2. /\ SealHolds(prev) <=> prev \in Snapshots
      /\ ~SealHolds(prev) <=> prev \in {NoFile, Corrupt}
  BY FileKinds
<1>3. CASE SealHolds(bin) /\ bin.kind = "v2"
  <2>1. load_ledger = "Live"
    BY <1>1, <1>2, <1>3 DEF load_ledger
  <2>2. QED
    BY <1>1, <1>2, <1>3, <2>1
<1>4. CASE SealHolds(bin) /\ bin.kind = "v1"
  <2>1. load_ledger = "Legacy"
    BY <1>1, <1>2, <1>4 DEF load_ledger
  <2>2. QED
    BY <1>1, <1>2, <1>4, <2>1
<1>5. CASE ~SealHolds(bin) /\ SealHolds(prev)
  <2>1. load_ledger = "Prev"
    BY <1>1, <1>2, <1>5 DEF load_ledger
  <2>2. QED
    BY <1>1, <1>2, <1>5, <2>1
<1>6. CASE (~SealHolds(bin) /\ prev = Corrupt) \/ (bin = Corrupt /\ prev = NoFile)
  <2>1. load_ledger = "Err"
    BY <1>1, <1>2, <1>6 DEF load_ledger
  <2>2. QED
    BY <1>1, <1>2, <1>6, <2>1
<1>7. CASE bin = NoFile /\ prev = NoFile
  <2>1. load_ledger = "None"
    BY <1>1, <1>2, <1>7 DEF load_ledger
  <2>2. QED
    BY <1>1, <1>2, <1>7, <2>1
<1>8. QED
  BY <1>1, <1>2, <1>3, <1>4, <1>5, <1>6, <1>7

\* A decoded snapshot is a ledger.
LEMMA DecodeTyped ==
  ASSUME NEW f \in Snapshots
  PROVE  decode_index(f) \in Indexes
  BY DEF decode_index, Snapshots, Indexes

\* An encoded ledger is a snapshot of it.
LEMMA EncodeTyped ==
  ASSUME NEW ix \in Indexes
  PROVE  /\ encode_index(ix) \in Snapshots
         /\ encode_index(ix).kind = "v2"
         /\ encode_index(ix).gen = ix.gen
         /\ encode_index(ix).tab = ix.tab
<1>1. ix.gen \in Nat /\ ix.tab \in Tables /\ ix.loc \in [Keys -> Locs] /\ NoLoc \in Locs
  BY DEF Indexes, Locs
<1>2. [k \in Keys |-> IF ix.tab[k] # None /\ ix.loc[k].kind = "pack"
                      THEN ix.loc[k] ELSE NoLoc] \in [Keys -> Locs]
  BY <1>1
<1>3. QED
  BY <1>1, <1>2 DEF encode_index, Snapshots

\* The empty ledger.
LEMMA EmptyTyped == EmptyIndex \in Indexes /\ EmptyIndex.tab = NoTable /\ NoTable \in Tables
<1>1. NoTable \in Tables
  BY DEF NoTable, Tables
<1>2. [k \in Keys |-> NoLoc] \in [Keys -> Locs]
  BY DEF Locs
<1>3. QED
  BY <1>1, <1>2 DEF EmptyIndex, Indexes

\* What an open starts from is a ledger.
LEMMA RecoveredTyped ==
  ASSUME bin \in Files, prev \in Files, log \in Journals, logprev \in Journals
  PROVE  Recovered \in Indexes
<1>1. CASE load_ledger = "Live"
  <2>1. bin \in Snapshots
    BY <1>1, LoadIs, FileKinds
  <2>2. replay_journal(decode_index(bin), log, "live") \in Indexes
    BY <2>1, DecodeTyped, ReplayTyped
  <2>3. QED
    BY <1>1, <2>2 DEF Recovered
<1>2. CASE load_ledger = "Legacy"
  <2>1. bin \in Snapshots
    BY <1>2, LoadIs, FileKinds
  <2>2. decode_index(bin) \in Indexes
    BY <2>1, DecodeTyped
  <2>3. Recovered = [decode_index(bin) EXCEPT !.loc =
                        [k \in Keys |-> IF @[k].kind = "pack" THEN @[k] ELSE NoLoc]]
    BY <1>2 DEF Recovered
  <2>4. NoLoc \in Locs
    BY DEF Locs
  <2>5. QED
    BY <2>2, <2>3, <2>4 DEF Indexes
<1>3. CASE load_ledger = "Prev"
  <2>1. prev \in Snapshots
    BY <1>3, LoadIs, FileKinds
  <2>2. replay_journal(decode_index(prev), logprev, "prev") \in Indexes
    BY <2>1, DecodeTyped, ReplayTyped
  <2>3. replay_journal(replay_journal(decode_index(prev), logprev, "prev"), log, "live") \in Indexes
    BY <2>2, ReplayTyped
  <2>4. QED
    BY <1>3, <2>3 DEF Recovered
<1>4. CASE load_ledger \in {"None", "Err"}
  <2>1. Recovered = EmptyIndex
    BY <1>4 DEF Recovered
  <2>2. QED
    BY <2>1, EmptyTyped
<1>5. QED
  BY <1>1, <1>2, <1>3, <1>4, LoadIs

\* What the type of a record pack says of its records, and which functions
\* are record packs.
LEMMA PackTyped ==
  /\ \A p \in RecordPacks : DOMAIN p \subseteq Keys /\ \A k \in DOMAIN p : p[k] \in Versions
  /\ \A ks \in SUBSET Keys : \A p \in [ks -> Versions] : p \in RecordPacks
  /\ NoRecords \in RecordPacks /\ DOMAIN NoRecords = {}
<1>1. \A ks \in SUBSET Keys : \A p \in [ks -> Versions] : p \in RecordPacks
  BY DEF RecordPacks
<1>2. ASSUME NEW p \in RecordPacks
      PROVE  DOMAIN p \subseteq Keys /\ \A k \in DOMAIN p : p[k] \in Versions
  <2>1. PICK ks \in SUBSET Keys : p \in [ks -> Versions]
    BY DEF RecordPacks
  <2>2. QED
    BY <2>1
<1>3. NoRecords \in [{} -> Versions] /\ DOMAIN NoRecords = {}
  BY DEF NoRecords
<1>4. QED
  BY <1>1, <1>2, <1>3

\* What a location of a given kind holds.
LEMMA LocTyped ==
  ASSUME NEW at \in Locs
  PROVE  /\ at.kind \in {"none", "pack", "log"}
         /\ at.kind = "none" => at = NoLoc
         /\ at.kind = "pack" => at.pack \in RecordPacks /\ at = PackLoc(at.pack)
         /\ at.kind = "log" => /\ at.file \in {"live", "prev"} /\ at.at \in Nat
                               /\ at = LogLoc(at.file, at.at)
<1>1. CASE at = NoLoc
  BY <1>1 DEF NoLoc
<1>2. CASE \E p \in RecordPacks : at = PackLoc(p)
  BY <1>2 DEF PackLoc
<1>3. CASE \E f \in {"live", "prev"}, i \in Nat : at = LogLoc(f, i)
  BY <1>3 DEF LogLoc
<1>4. QED
  BY <1>1, <1>2, <1>3 DEF Locs

\* The journal record of a save: for every dirty asset the version it now has,
\* and where its record is if the save knows it.
LEMMA JournalRecordIs ==
  ASSUME Types
  PROVE  /\ JournalRecord \in JournalRecords
         /\ JournalRecord.gen = idx.gen + 1
         /\ JournalRecord.sealed = TRUE
         /\ DOMAIN JournalRecord.upd = dirty
         /\ \A k \in dirty :
               LET u == JournalRecord.upd[k]
               IN  /\ u.ver = idx.tab[k]
                   /\ idx.tab[k] # None /\ k \in DOMAIN pend => u.rec = Inline(pend[k])
                   /\ idx.tab[k] # None /\ k \notin DOMAIN pend /\ idx.loc[k].kind = "pack" =>
                         u.rec = InPack(idx.loc[k].pack)
<1> DEFINE ref(k) == CASE idx.tab[k] = None \/ (k \notin DOMAIN pend /\ idx.loc[k].kind # "pack")
                            -> Same
                       [] idx.tab[k] # None /\ k \in DOMAIN pend -> Inline(pend[k])
                       [] idx.tab[k] # None /\ k \notin DOMAIN pend /\ idx.loc[k].kind = "pack"
                            -> InPack(idx.loc[k].pack)
           up == [k \in dirty |-> [ver |-> idx.tab[k], rec |-> ref(k)]]
<1>0. /\ idx.gen \in Nat /\ idx.tab \in Tables /\ idx.loc \in [Keys -> Locs]
      /\ dirty \subseteq Keys /\ pend \in RecordPacks
  BY DEF Types, Indexes
<1>1. ASSUME NEW k \in dirty
      PROVE  /\ ref(k) \in Refs
             /\ idx.tab[k] \in Versions \cup {None}
             /\ idx.tab[k] # None /\ k \in DOMAIN pend => ref(k) = Inline(pend[k])
             /\ idx.tab[k] # None /\ k \notin DOMAIN pend /\ idx.loc[k].kind = "pack" =>
                   ref(k) = InPack(idx.loc[k].pack)
  <2>1. idx.tab[k] \in Versions \cup {None} /\ idx.loc[k] \in Locs
    BY <1>0 DEF Tables
  <2>2. k \in DOMAIN pend => pend[k] \in Versions
    BY <1>0, PackTyped
  <2>3. idx.loc[k].kind = "pack" => idx.loc[k].pack \in RecordPacks
    BY <2>1, LocTyped
  <2>4. CASE idx.tab[k] = None \/ (k \notin DOMAIN pend /\ idx.loc[k].kind # "pack")
    <3>1. ref(k) = Same
      BY <2>4
    <3>2. QED
      BY <2>1, <2>4, <3>1 DEF Refs
  <2>5. CASE idx.tab[k] # None /\ k \in DOMAIN pend
    <3>1. ref(k) = Inline(pend[k])
      BY <2>5
    <3>2. QED
      BY <2>1, <2>2, <2>5, <3>1 DEF Refs
  <2>6. CASE idx.tab[k] # None /\ k \notin DOMAIN pend /\ idx.loc[k].kind = "pack"
    <3>1. ref(k) = InPack(idx.loc[k].pack)
      BY <2>6
    <3>2. QED
      BY <2>1, <2>3, <2>6, <3>1 DEF Refs
  <2>7. QED
    BY <2>4, <2>5, <2>6
<1>2. JournalRecord = [gen |-> idx.gen + 1, sealed |-> TRUE, upd |-> up]
  BY DEF JournalRecord
<1> HIDE DEF ref
<1>3. up \in [dirty -> [ver : Versions \cup {None}, rec : Refs]]
  BY <1>1
<1>4. up \in Updates
  BY <1>0, <1>3 DEF Updates
<1>5. \A k \in dirty : up[k].ver = idx.tab[k] /\ up[k].rec = ref(k)
  OBVIOUS
<1>6. DOMAIN up = dirty
  OBVIOUS
<1> HIDE DEF up
<1>7. JournalRecord \in JournalRecords
  BY <1>0, <1>2, <1>4 DEF JournalRecords
<1>8. QED
  BY <1>1, <1>2, <1>5, <1>6, <1>7

\* The size of an initial segment.
LEMMA IntervalSize ==
  ASSUME NEW n \in Nat
  PROVE  IsFiniteSet(1..n) /\ Cardinality(1..n) = n
<1>1. IsFiniteSet(1..n) /\ Cardinality(1..n) = IF 1 > n THEN 0 ELSE n - 1 + 1
  BY FS_Interval
<1>2. (IF 1 > n THEN 0 ELSE n - 1 + 1) = n
  OBVIOUS
<1>3. QED
  BY <1>1, <1>2

\* An open batch has its queue.
LEMMA BatchIs ==
  ASSUME batch \in Batches
  PROVE  /\ NoBatch.open = FALSE
         /\ batch.open \in BOOLEAN
         /\ ~batch.open => batch = NoBatch
         /\ batch.open => /\ batch \in [open : {TRUE}, queued : RecordPacks, base : Tables]
                          /\ batch.queued \in RecordPacks /\ batch.base \in Tables
<1>1. NoBatch.open = FALSE
  BY DEF NoBatch
<1>2. CASE batch = NoBatch
  BY <1>1, <1>2
<1>3. CASE batch \in [open : {TRUE}, queued : RecordPacks, base : Tables]
  BY <1>1, <1>3
<1>4. QED
  BY <1>2, <1>3 DEF Batches

\* A ledger with another generation and other record locations.
LEMMA IndexWith ==
  ASSUME NEW ix \in Indexes, NEW n \in Nat, NEW m \in [Keys -> Locs]
  PROVE  LET jx == [ix EXCEPT !.gen = n, !.loc = m]
         IN  jx \in Indexes /\ jx.gen = n /\ jx.tab = ix.tab /\ jx.loc = m
  BY DEF Indexes

\* What write_asset_records does to the open ledger.
LEMMA WriteIs ==
  ASSUME Types, NEW recs \in RecordPacks, NEW tab \in Tables, write_asset_records(recs, tab)
  PROVE  /\ flat' \in Tables /\ pend' \in RecordPacks /\ idx' \in Indexes
         /\ idx'.gen = idx.gen /\ idx'.tab = tab
         /\ \A k \in Keys : idx'.loc[k] = IF k \in DOMAIN recs THEN NoLoc ELSE idx.loc[k]
         /\ DOMAIN pend' = DOMAIN pend \cup DOMAIN recs
         /\ \A k \in DOMAIN pend' : pend'[k] = IF k \in DOMAIN recs THEN recs[k] ELSE pend[k]
<1>0. /\ idx \in Indexes /\ idx.gen \in Nat /\ idx.tab \in Tables /\ idx.loc \in [Keys -> Locs]
      /\ pend \in RecordPacks /\ flat \in Tables /\ NoLoc \in Locs
  BY DEF Types, Indexes, Locs
<1>1. /\ DOMAIN recs \subseteq Keys /\ \A k \in DOMAIN recs : recs[k] \in Versions
      /\ DOMAIN pend \subseteq Keys /\ \A k \in DOMAIN pend : pend[k] \in Versions
  BY <1>0, PackTyped
<1>2. flat' \in Tables
  BY <1>0 DEF write_asset_records, Tables
<1>3. pend' = [k \in DOMAIN pend \cup DOMAIN recs |-> IF k \in DOMAIN recs THEN recs[k] ELSE pend[k]]
  BY DEF write_asset_records
<1>4. pend' \in [DOMAIN pend \cup DOMAIN recs -> Versions] /\ DOMAIN pend \cup DOMAIN recs \in SUBSET Keys
  BY <1>1, <1>3
<1>5. pend' \in RecordPacks
  BY <1>4, PackTyped
<1> DEFINE nloc == [k \in Keys |-> IF k \in DOMAIN recs THEN NoLoc ELSE idx.loc[k]]
<1>6. nloc \in [Keys -> Locs]
  BY <1>0
<1>7. idx' = [idx EXCEPT !.tab = tab, !.loc = nloc]
  BY DEF write_asset_records
<1>8. \A k \in Keys : nloc[k] = IF k \in DOMAIN recs THEN NoLoc ELSE idx.loc[k]
  OBVIOUS
<1> HIDE DEF nloc
<1>9. idx' \in Indexes /\ idx'.gen = idx.gen /\ idx'.tab = tab /\ idx'.loc = nloc
  BY <1>0, <1>6, <1>7 DEF Indexes
<1>10. QED
  BY <1>2, <1>3, <1>4, <1>5, <1>8, <1>9

\* The records move_records_into_a_pack stages make a record pack.
LEMMA StagedIs ==
  ASSUME Types
  PROVE  /\ Staged \in RecordPacks
         /\ DOMAIN pend \subseteq DOMAIN Staged
         /\ \A k \in DOMAIN Staged :
               Staged[k] = IF k \in DOMAIN pend THEN pend[k] ELSE read_record_at(k, idx.loc[k])
         /\ \A k \in Keys : (idx.loc[k].kind = "log" /\ read_record_at(k, idx.loc[k]) # None)
                               => k \in DOMAIN Staged
<1> DEFINE reads == {k \in Keys : idx.loc[k].kind = "log" /\ read_record_at(k, idx.loc[k]) # None}
<1>0. /\ idx.loc \in [Keys -> Locs] /\ pend \in RecordPacks
      /\ log \in Journals /\ logprev \in Journals
      /\ DOMAIN pend \subseteq Keys /\ \A k \in DOMAIN pend : pend[k] \in Versions
  BY PackTyped DEF Types, Indexes
<1>1. ASSUME NEW k \in reads
      PROVE  read_record_at(k, idx.loc[k]) \in Versions
  <2> DEFINE at == idx.loc[k]
             l == IF at.file = "live" THEN log ELSE logprev
  <2>1. at.kind = "log" /\ read_record_at(k, at) # None
    OBVIOUS
  <2>2. l \in Journals
    BY <1>0
  <2> HIDE DEF at
  <2>3. read_record_at(k, at) = IF /\ at.at \in DOMAIN l
                                   /\ k \in DOMAIN l[at.at].upd
                                   /\ l[at.at].upd[k].rec.tag = 2
                                THEN l[at.at].upd[k].rec.ver ELSE None
    BY <2>1 DEF read_record_at
  <2> HIDE DEF l
  <2>4. at.at \in DOMAIN l /\ k \in DOMAIN l[at.at].upd /\ l[at.at].upd[k].rec.tag = 2
    BY <2>1, <2>3
  <2>5. l[at.at].upd \in Updates
    BY <2>2, <2>4, JournalTyped
  <2>6. l[at.at].upd[k].rec \in Refs
    BY <2>4, <2>5, UpdateTyped
  <2>7. l[at.at].upd[k].rec.ver \in Versions
    BY <2>4, <2>6, RefTyped
  <2>8. read_record_at(k, at) \in Versions
    BY <2>3, <2>4, <2>7
  <2>9. QED
    BY <2>8 DEF at
<1>2. Staged = [k \in reads \cup DOMAIN pend |->
                  IF k \in DOMAIN pend THEN pend[k] ELSE read_record_at(k, idx.loc[k])]
  BY DEF Staged
<1>3. Staged \in [reads \cup DOMAIN pend -> Versions]
  <2>1. \A k \in reads \cup DOMAIN pend :
           (IF k \in DOMAIN pend THEN pend[k] ELSE read_record_at(k, idx.loc[k])) \in Versions
    BY <1>0, <1>1
  <2> HIDE DEF reads
  <2>2. QED
    BY <1>2, <2>1
<1>4. reads \cup DOMAIN pend \in SUBSET Keys
  BY <1>0
<1>5. Staged \in RecordPacks
  BY <1>3, <1>4, PackTyped
<1>6. QED
  BY <1>2, <1>5

\* Every step keeps the types.
LEMMA TypesStep ==
  ASSUME Types, [Next]_vars
  PROVE  Types'
<1>0. /\ idx \in Indexes /\ idx.gen \in Nat /\ idx.tab \in Tables /\ idx.loc \in [Keys -> Locs]
      /\ NoLoc \in Locs /\ EmptyIndex \in Indexes /\ NoRecords \in RecordPacks
      /\ NoFile \in Files /\ Corrupt \in Files /\ <<>> \in Journals
      /\ NoBatch \in Batches
  BY EmptyTyped, PackTyped DEF Types, Indexes, Locs, Files, Batches, Journals
<1>1. CASE UNCHANGED vars
  BY <1>1 DEF Types, vars, disk, mem, hist, env
<1>2. CASE open_inner
  <2>1. Recovered \in Indexes
    BY RecoveredTyped DEF Types
  <2>2. idx' \in Indexes /\ idx'.tab \in Tables
    BY <1>2, <2>1 DEF open_inner, Indexes
  <2>3. bin' \in Files
    <3>1. encode_index(EmptyIndex) \in Files
      BY <1>0, EncodeTyped DEF Files
    <3>2. QED
      BY <1>2, <3>1 DEF open_inner, Types
  <2>4. (IF load_ledger = "Live" THEN Cardinality(Reached(log, bin.gen)) ELSE 0) \in Nat
    <3>1. CASE load_ledger = "Live"
      <4>1. Len(log) \in Nat /\ DOMAIN log = 1..Len(log)
        BY JournalTyped DEF Types
      <4>2. IsFiniteSet(1..Len(log))
        BY <4>1, FS_Interval
      <4>3. Reached(log, bin.gen) \subseteq 1..Len(log)
        BY <4>1 DEF Reached
      <4>4. IsFiniteSet(Reached(log, bin.gen))
        BY <4>2, <4>3, FS_Subset
      <4>5. QED
        BY <3>1, <4>4, FS_CardinalityType
    <3>2. QED
      BY <3>1
  <2>5. jb' \in Nat
    BY <1>2, <2>4 DEF open_inner
  <2>6. log' \in Journals /\ (snap' => jb' = Len(log'))
    <3>1. load_ledger \in {"Live", "Prev", "Legacy", "None"}
      BY <1>2, LoadIs DEF open_inner, Openable, Types
    <3>2. CASE load_ledger = "Live"
      <4> DEFINE n == Cardinality(Reached(log, bin.gen))
      <4>1. n \in Nat
        BY <2>4, <3>2
      <4>2. log' = SubSeq(log, 1, n)
        BY <1>2, <3>2 DEF open_inner
      <4>3. n <= Len(log)
        <5>1. Len(log) \in Nat /\ DOMAIN log = 1..Len(log)
          BY JournalTyped DEF Types
        <5>2. IsFiniteSet(1..Len(log)) /\ Cardinality(1..Len(log)) = Len(log)
          BY <5>1, IntervalSize
        <5>3. Reached(log, bin.gen) \subseteq 1..Len(log)
          BY <5>1 DEF Reached
        <5>4. QED
          BY <5>2, <5>3, FS_Subset
      <4> HIDE DEF n
      <4>4. SubSeq(log, 1, n) \in Journals /\ Len(SubSeq(log, 1, n)) = n
        BY <4>1, <4>3, PrefixIs DEF Types
      <4>5. jb' = n
        BY <1>2, <3>2 DEF open_inner, n
      <4>6. QED
        BY <4>2, <4>4, <4>5
    <3>3. CASE load_ledger = "Prev"
      BY <1>2, <3>3 DEF open_inner, Types
    <3>4. CASE load_ledger \in {"Legacy", "None"}
      BY <1>0, <1>2, <3>4 DEF open_inner
    <3>5. QED
      BY <3>1, <3>2, <3>3, <3>4
  <2>7. logprev' \in Journals
    BY <1>0, <1>2 DEF open_inner, Types
  <2>8. snap' \in BOOLEAN
    BY <1>2 DEF open_inner
  <2>9. QED
    BY <1>0, <1>2, <2>2, <2>3, <2>5, <2>6, <2>7, <2>8 DEF open_inner, Types, env
<1>3. CASE begin_publish_batch
  <2>1. Recovered \in Indexes /\ Recovered.tab \in Tables
    BY RecoveredTyped DEF Types, Indexes
  <2>2. batch' \in Batches
    BY <1>0, <1>3, <2>1 DEF begin_publish_batch, Batches
  <2>3. QED
    BY <1>3, <2>2 DEF begin_publish_batch, Types, disk, hist, env
<1>4. ASSUME NEW k \in Keys, NEW v \in Versions, publish_asset(k, v)
      PROVE  Types'
  <2> DEFINE tab == [idx.tab EXCEPT ![k] = v]
  <2>1. tab \in Tables
    BY <1>0 DEF Tables
  <2>2. CASE batch.open
    <3>1. batch \in [open : {TRUE}, queued : RecordPacks, base : Tables]
      BY <2>2, BatchIs DEF Types
    <3>2. DOMAIN batch.queued \subseteq Keys /\ \A j \in DOMAIN batch.queued : batch.queued[j] \in Versions
      BY <3>1, PackTyped
    <3> DEFINE q == [j \in DOMAIN batch.queued \cup {k} |-> IF j = k THEN v ELSE batch.queued[j]]
    <3>3. q \in [DOMAIN batch.queued \cup {k} -> Versions] /\ DOMAIN batch.queued \cup {k} \in SUBSET Keys
      BY <3>2
    <3>4. q \in RecordPacks
      BY <3>3, PackTyped
    <3>5. batch' = [batch EXCEPT !.queued = q]
      BY <1>4, <2>2 DEF publish_asset
    <3> HIDE DEF q
    <3>6. batch' \in Batches
      BY <3>1, <3>4, <3>5 DEF Batches
    <3>7. idx' = [idx EXCEPT !.tab = tab]
      BY <1>4, <2>2 DEF publish_asset
    <3> HIDE DEF tab
    <3>8. idx' \in Indexes
      BY <1>0, <2>1, <3>7 DEF Indexes
    <3>9. QED
      BY <1>4, <2>2, <3>6, <3>8 DEF publish_asset, Types, hist, env
  <2>3. CASE ~batch.open
    <3>1. [j \in {k} |-> v] \in RecordPacks
      <4>1. {k} \in SUBSET Keys /\ [j \in {k} |-> v] \in [{k} -> Versions]
        OBVIOUS
      <4>2. QED
        BY <4>1, PackTyped
    <3>2. write_asset_records([j \in {k} |-> v], tab) /\ StartSave(tab) /\ UNCHANGED batch
      BY <1>4, <2>3 DEF publish_asset
    <3> HIDE DEF tab
    <3>3. flat' \in Tables /\ pend' \in RecordPacks /\ idx' \in Indexes
      BY <2>1, <3>1, <3>2, WriteIs
    <3>4. /\ dirty' = dirty \cup {k}
          /\ UNCHANGED <<bin, prev, tmp, log, logprev, packs, jb, snap, result, env>>
      BY <1>4 DEF publish_asset
    <3>5. QED
      BY <2>1, <3>2, <3>3, <3>4 DEF Types, env, StartSave
  <2>4. QED
    BY <2>2, <2>3
<1>5. ASSUME NEW b \in BOOLEAN, commit_publish_batch(b)
      PROVE  Types'
  <2>1. batch \in [open : {TRUE}, queued : RecordPacks, base : Tables] /\ batch.queued \in RecordPacks
    BY <1>5, BatchIs DEF Types, commit_publish_batch
  <2>2. flat' \in Tables /\ pend' \in RecordPacks /\ idx' \in Indexes
    <3>1. CASE batch.queued # NoRecords
      <4>1. write_asset_records(batch.queued, idx.tab)
        BY <1>5, <3>1 DEF commit_publish_batch
      <4>2. QED
        BY <1>0, <2>1, <4>1, WriteIs
    <3>2. CASE batch.queued = NoRecords
      BY <1>5, <3>2 DEF commit_publish_batch, Types
    <3>3. QED
      BY <3>1, <3>2
  <2>3. /\ pc' \in {"idle", "save"} /\ attempt' \in Tables /\ acked' \in Tables
        /\ committed' \subseteq Tables
    BY <1>0, <1>5 DEF commit_publish_batch, Types, hist, StartSave
  <2>4. /\ batch' = NoBatch
        /\ UNCHANGED <<bin, prev, tmp, log, logprev, packs, dirty, jb, snap, result, env>>
    BY <1>5 DEF commit_publish_batch
  <2>5. QED
    BY <1>0, <2>2, <2>3, <2>4 DEF Types, env
<1>6. ASSUME NEW k \in Keys, unpublish_asset(k)
      PROVE  Types'
  <2> DEFINE tab == [idx.tab EXCEPT ![k] = None]
  <2>1. tab \in Tables
    BY <1>0 DEF Tables
  <2>2. idx' = [idx EXCEPT !.tab = tab, !.loc[k] = NoLoc]
    BY <1>6 DEF unpublish_asset
  <2>3. [idx.loc EXCEPT ![k] = NoLoc] \in [Keys -> Locs]
    BY <1>0
  <2>4. StartSave(tab)
    BY <1>6 DEF unpublish_asset
  <2> HIDE DEF tab
  <2>5. idx' \in Indexes
    BY <1>0, <2>1, <2>2, <2>3 DEF Indexes
  <2>6. flat' \in Tables
    BY <1>6 DEF unpublish_asset, Types, Tables
  <2>7. faults' \in Nat /\ met' \subseteq Events
    BY <1>6 DEF unpublish_asset, SavesInBatch, Inject, Types, env
  <2>8. QED
    BY <1>6, <2>1, <2>4, <2>5, <2>6, <2>7 DEF unpublish_asset, StartSave, Types
<1>7. CASE gc_records
  <2>1. faults' \in Nat /\ met' \subseteq Events
    BY <1>7 DEF gc_records, SavesInBatch, Inject, Types, env
  <2>2. packs' \subseteq RecordPacks
    BY <1>7 DEF gc_records, Types
  <2>3. QED
    BY <1>0, <1>7, <2>1, <2>2 DEF gc_records, StartSave, Types, mem
<1>8. CASE save_large_records
  <2>1. pend \in RecordPacks
    BY DEF Types
  <2>2. idx' = [idx EXCEPT !.loc = [k \in Keys |-> IF k \in DOMAIN pend THEN PackLoc(pend) ELSE idx.loc[k]]]
    BY <1>8 DEF save_large_records
  <2>3. [k \in Keys |-> IF k \in DOMAIN pend THEN PackLoc(pend) ELSE idx.loc[k]] \in [Keys -> Locs]
    BY <1>0, <2>1 DEF Locs
  <2>4. idx' \in Indexes
    BY <1>0, <2>2, <2>3 DEF Indexes
  <2>5. QED
    BY <1>0, <1>8, <2>1, <2>4 DEF save_large_records, Types, hist, env
<1>9. CASE save_append
  <2>1. JournalRecord \in JournalRecords
    BY JournalRecordIs
  <2>2. log' \in Journals
    BY <1>9, <2>1 DEF save_append, Types, Journals
  <2> DEFINE nloc == [k \in Keys |-> IF k \in dirty /\ idx.tab[k] # None /\ k \in DOMAIN pend
                                     THEN LogLoc("live", jb + 1) ELSE idx.loc[k]]
  <2>3. idx' = [idx EXCEPT !.gen = idx.gen + 1, !.loc = nloc]
    BY <1>9 DEF save_append
  <2>4. nloc \in [Keys -> Locs]
    <3>1. jb + 1 \in Nat
      BY DEF Types
    <3>2. LogLoc("live", jb + 1) \in Locs
      BY <3>1 DEF Locs
    <3>3. QED
      BY <1>0, <3>2
  <2> HIDE DEF nloc
  <2>5. idx' \in Indexes
    <3>1. idx.gen + 1 \in Nat
      BY <1>0
    <3>2. QED
      BY <1>0, <2>3, <2>4, <3>1, IndexWith
  <2>6. jb' \in Nat /\ (snap' => jb' = Len(log'))
    BY <1>9, <2>1 DEF save_append, Types, Journals
  <2>7. QED
    BY <1>0, <1>9, <2>2, <2>5, <2>6 DEF save_append, ReturnOk, Types, env
<1>10. CASE save_move_records
  <2>1. Staged \in RecordPacks
    BY StagedIs
  <2> DEFINE nloc == [k \in Keys |-> IF k \in DOMAIN Staged THEN PackLoc(Staged)
                                     ELSE IF idx.loc[k].kind = "log" THEN NoLoc ELSE idx.loc[k]]
  <2>2. idx' = [idx EXCEPT !.gen = idx.gen + 1, !.loc = nloc]
    BY <1>10 DEF save_move_records
  <2>3. nloc \in [Keys -> Locs]
    <3>1. PackLoc(Staged) \in Locs
      BY <2>1 DEF Locs
    <3>2. QED
      BY <1>0, <3>1
  <2> HIDE DEF nloc
  <2>4. idx' \in Indexes
    <3>1. idx.gen + 1 \in Nat
      BY <1>0
    <3>2. QED
      BY <1>0, <2>2, <2>3, <3>1, IndexWith
  <2>5. packs' \subseteq RecordPacks
    BY <1>10, <2>1 DEF save_move_records, Types
  <2>6. QED
    BY <1>0, <1>10, <2>4, <2>5 DEF save_move_records, Types, hist, env
<1>11. CASE save_stage
  <2>1. tmp' \in Files
    BY <1>0, <1>11, EncodeTyped DEF save_stage, Files
  <2>2. QED
    BY <1>11, <2>1 DEF save_stage, Types, mem, hist, env
<1>12. CASE save_retire
  <2>1. prev' \in Files /\ bin' \in Files
    BY <1>0, <1>12 DEF save_retire, Types
  <2>2. QED
    BY <1>12, <2>1 DEF save_retire, Types, mem, hist, env
<1>13. CASE save_install
  BY <1>0, <1>13 DEF save_install, Types, mem, hist, env
<1>14. CASE save_rotate
  BY <1>0, <1>14 DEF save_rotate, ReturnOk, Types, env
<1>15. CASE append_fails
  <2>1. faults' \in Nat /\ met' \subseteq Events
    BY <1>15 DEF append_fails, Inject, Types
  <2>2. log' \in Journals /\ Len(log') = jb
    <3>1. log' = SubSeq(log, 1, jb) /\ jb \in Nat /\ log \in Seq(JournalRecords)
      BY <1>15 DEF append_fails, Types, Journals
    <3>2. jb = Len(log) /\ jb <= Len(log)
      BY <1>15 DEF append_fails, Types
    <3>3. SubSeq(log, 1, jb) \in Journals /\ Len(SubSeq(log, 1, jb)) = jb
      BY <3>1, <3>2, PrefixIs DEF Types
    <3>4. QED
      BY <3>1, <3>3
  <2>3. QED
    BY <1>15, <2>1, <2>2 DEF append_fails, ReturnErr, Types, mem
<1>16. CASE pack_fails
  <2>1. faults' \in Nat /\ met' \subseteq Events
    BY <1>16 DEF pack_fails, Inject, Types
  <2>2. idx' \in Indexes
    <3>1. CASE idx' = idx
      BY <1>0, <3>1
    <3>2. CASE idx' # idx
      <4> DEFINE nloc == [k \in Keys |-> IF idx.loc[k].kind = "log" /\ k \notin DOMAIN Staged
                                         THEN NoLoc ELSE idx.loc[k]]
      <4>1. idx' = [idx EXCEPT !.gen = idx.gen + 1, !.loc = nloc]
        BY <1>16, <3>2 DEF pack_fails
      <4>2. nloc \in [Keys -> Locs]
        BY <1>0
      <4> HIDE DEF nloc
      <4>3. idx.gen + 1 \in Nat
        BY <1>0
      <4>4. QED
        BY <1>0, <4>1, <4>2, <4>3, IndexWith
    <3>3. QED
      BY <3>1, <3>2
  <2>3. QED
    BY <1>0, <1>16, <2>1, <2>2 DEF pack_fails, ReturnErr, Types, disk
<1>17. CASE stage_fails
  BY <1>17 DEF stage_fails, Inject, ReturnErr, Types, disk, mem
<1>18. CASE bin_rots
  BY <1>0, <1>18 DEF bin_rots, Inject, Types, mem, hist
<1>19. CASE dies_in_save
  BY <1>0, <1>19 DEF dies_in_save, Ends, Types, hist
<1>20. CASE dies_appending
  <2>1. JournalRecord \in JournalRecords
    BY JournalRecordIs
  <2>2. [JournalRecord EXCEPT !.sealed = FALSE] \in JournalRecords
    BY <2>1 DEF JournalRecords
  <2>3. log' \in Journals
    BY <1>20, <2>2 DEF dies_appending, Types, Journals
  <2>4. QED
    BY <1>0, <1>20, <2>3 DEF dies_appending, Ends, Types, hist
<1>21. CASE exits
  BY <1>0, <1>21 DEF exits, Ends, Types, hist
<1>22. QED
  BY <1>1, <1>2, <1>3, <1>4, <1>5, <1>6, <1>7, <1>8, <1>9, <1>10, <1>11, <1>12, <1>13, <1>14,
     <1>15, <1>16, <1>17, <1>18, <1>19, <1>20, <1>21 DEF Next, Save, Fault

-----------------------------------------------------------------------------
(* An open always succeeds *)

\* Which of the snapshots hold.  One that rotted is retired like any other, so
\* between the two renames of the save that replaces it neither of them does.
Sealed ==
    /\ Never({"rot"}) => bin # Corrupt /\ prev # Corrupt
    /\ pc \in {"retire", "install"} => SealHolds(tmp)
    /\ pc = "rotate" => SealHolds(bin)
    /\ pc # "down" => ~(bin = NoFile /\ prev = NoFile)
    /\ Never({"rot"}) \/ Never({"midsave"}) =>
          /\ bin = Corrupt => SealHolds(prev)
          /\ prev = Corrupt => SealHolds(bin) \/ pc = "install"

\* The files of an open stay as they are in most of the steps.
LEMMA RecoveredSame ==
  ASSUME UNCHANGED <<bin, prev, log, logprev>>
  PROVE  Recovered' = Recovered /\ load_ledger' = load_ledger
<1>1. load_ledger' = load_ledger
  BY DEF load_ledger
<1>2. Recovered' = Recovered
  BY <1>1 DEF Recovered
<1>3. QED
  BY <1>1, <1>2

\* A store forgets none of the events it has met.
LEMMA MetGrows ==
  ASSUME [Next]_vars
  PROVE  met \subseteq met'
  BY DEF Next, Save, Fault, vars, disk, mem, hist, env, open_inner, begin_publish_batch, publish_asset,
         commit_publish_batch, unpublish_asset, gc_records, SavesInBatch, Inject, save_large_records,
         save_append, save_move_records, save_stage, save_retire, save_install, save_rotate, append_fails,
         pack_fails, stage_fails, bin_rots, dies_in_save, dies_appending, exits, Ends

\* Every step keeps the snapshots sealed.
LEMMA SealedStep ==
  ASSUME Types, Sealed, [Next]_vars
  PROVE  Sealed'
<1>0. /\ \A s : Never({s})' => Never({s})
      /\ bin \in Files /\ prev \in Files /\ tmp \in Files
      /\ ~SealHolds(NoFile) /\ ~SealHolds(Corrupt) /\ NoFile # Corrupt
  <2>1. met \subseteq met'
    BY MetGrows
  <2>2. QED
    BY <2>1 DEF Never, Types, SealHolds, NoFile, Corrupt
<1>1. ASSUME UNCHANGED <<bin, prev, tmp>>, pc' \notin {"retire", "install", "rotate"},
             pc' = "down" \/ pc # "down" \/ ~(bin = NoFile /\ prev = NoFile), 
             pc # "install" \/ ~Never({"midsave"})'
      PROVE  Sealed'
  BY <1>0, <1>1 DEF Sealed
<1>2. CASE open_inner
  <2>1. UNCHANGED prev /\ pc' = "idle" /\ pc = "down" /\ UNCHANGED met
    BY <1>2 DEF open_inner, env
  <2>2. CASE load_ledger = "None"
    <3>1. bin' = encode_index(EmptyIndex) /\ prev = NoFile
      BY <1>2, <2>2, LoadIs DEF open_inner, Types
    <3>2. bin' \in Snapshots
      BY <3>1, EncodeTyped, EmptyTyped
    <3>3. bin' # NoFile /\ bin' # Corrupt
      BY <3>2, FileKinds DEF Files
    <3>4. QED
      BY <1>0, <2>1, <3>1, <3>3 DEF Sealed
  <2>3. CASE load_ledger # "None"
    <3>1. bin' = bin
      BY <1>2, <2>3 DEF open_inner
    <3>2. ~(bin = NoFile /\ prev = NoFile)
      BY <2>3, LoadIs DEF Types
    <3>3. QED
      BY <1>0, <2>1, <3>1, <3>2 DEF Sealed, Never
  <2>4. QED
    BY <2>2, <2>3
<1>3. CASE save_stage
  <2>1. SealHolds(tmp')
    <3>1. tmp' \in Snapshots
      BY <1>3, EncodeTyped DEF save_stage, Types
    <3>2. QED
      BY <3>1 DEF SealHolds, Snapshots
  <2>2. UNCHANGED <<bin, prev, met>> /\ pc = "stage" /\ pc' = "retire"
    BY <1>3 DEF save_stage, env
  <2>3. QED
    BY <1>0, <2>1, <2>2 DEF Sealed, Never
<1>4. CASE save_retire
  <2>1. /\ prev' = (IF bin = NoFile THEN prev ELSE bin) /\ bin' = NoFile
        /\ UNCHANGED <<tmp, met>> /\ pc = "retire" /\ pc' = "install"
    BY <1>4 DEF save_retire, env
  <2>2. QED
    BY <1>0, <2>1 DEF Sealed, Never
<1>5. CASE save_install
  <2>1. /\ bin' = tmp /\ UNCHANGED <<prev, met>> /\ pc = "install" /\ pc' = "rotate"
    BY <1>5 DEF save_install, env
  <2>2. SealHolds(bin') /\ bin' # NoFile /\ bin' # Corrupt
    BY <1>0, <2>1 DEF Sealed
  <2>3. QED
    BY <1>0, <2>1, <2>2 DEF Sealed, Never
<1>6. CASE bin_rots
  <2>1. /\ bin' = Corrupt /\ UNCHANGED <<prev, tmp, pc>> /\ pc = "down"
        /\ SealHolds(prev) /\ met' = met \cup {"rot"}
    BY <1>6 DEF bin_rots, Inject
  <2>2. ~Never({"rot"})'
    BY <2>1 DEF Never
  <2>3. QED
    BY <1>0, <2>1, <2>2 DEF Sealed
<1>7. CASE dies_in_save
  <2>1. ~Never({"midsave"})' /\ UNCHANGED <<bin, prev, tmp>> /\ pc' = "down"
    BY <1>7 DEF dies_in_save, Ends, Never
  <2>2. QED
    BY <1>1, <2>1
<1>8. CASE dies_appending
  <2>1. ~Never({"midsave"})' /\ UNCHANGED <<bin, prev, tmp>> /\ pc' = "down"
    BY <1>8 DEF dies_appending, Ends, Never
  <2>2. QED
    BY <1>1, <2>1
<1>9. CASE save_rotate
  BY <1>0, <1>1, <1>9 DEF save_rotate, ReturnOk
<1>10. CASE UNCHANGED vars
  BY <1>10 DEF vars, disk, env, Sealed, Never
<1>11. CASE begin_publish_batch
  BY <1>1, <1>11 DEF begin_publish_batch, disk
<1>12. CASE \E k \in Keys, v \in Versions : publish_asset(k, v)
  BY <1>1, <1>12 DEF publish_asset, StartSave
<1>13. CASE \E b \in BOOLEAN : commit_publish_batch(b)
  BY <1>1, <1>13 DEF commit_publish_batch, StartSave
<1>14. CASE \E k \in Keys : unpublish_asset(k)
  BY <1>1, <1>14 DEF unpublish_asset, StartSave
<1>15. CASE gc_records
  BY <1>1, <1>15 DEF gc_records, StartSave
<1>16. CASE save_large_records
  BY <1>1, <1>16 DEF save_large_records
<1>17. CASE save_append
  BY <1>1, <1>17 DEF save_append, ReturnOk
<1>18. CASE save_move_records
  BY <1>1, <1>18 DEF save_move_records
<1>19. CASE append_fails
  BY <1>1, <1>19 DEF append_fails, ReturnErr
<1>20. CASE pack_fails
  BY <1>1, <1>20 DEF pack_fails, ReturnErr, disk
<1>21. CASE stage_fails
  BY <1>1, <1>21 DEF stage_fails, ReturnErr, disk
<1>22. CASE exits
  BY <1>1, <1>22 DEF exits, Ends
<1>23. QED
  BY <1>2, <1>3, <1>4, <1>5, <1>6, <1>7, <1>8, <1>9, <1>10, <1>11, <1>12, <1>13, <1>14,
     <1>15, <1>16, <1>17, <1>18, <1>19, <1>20, <1>21, <1>22 DEF Next, Save, Fault

\* The store starts in a typed state.
LEMMA TypesInit ==
  ASSUME Init
  PROVE  Types
<1>1. EmptyIndex \in Indexes /\ NoTable \in Tables /\ NoRecords \in RecordPacks /\ <<>> \in Journals
  BY EmptyTyped, PackTyped DEF Journals
<1>2. flat \in Tables
  BY <1>1 DEF Init
<1>3. bin \in Files
  <2>1. CASE bin = NoFile
    BY <2>1 DEF Files
  <2>2. CASE bin = [kind |-> "v1", gen |-> 0, tab |-> flat, loc |-> [k \in Keys |-> NoLoc]]
    <3>1. [k \in Keys |-> NoLoc] \in [Keys -> Locs]
      BY DEF Locs
    <3>2. QED
      BY <1>2, <2>2, <3>1 DEF Files, Snapshots
  <2>3. QED
    BY <2>1, <2>2 DEF Init
<1>4. met \subseteq Events
  BY DEF Init
<1>5. QED
  BY <1>1, <1>2, <1>3, <1>4 DEF Init, Types, Files, Batches

\* Whatever the process was doing and whichever writes failed, the next open
\* succeeds: save_index keeps a readable index.bin or index.bin.prev at every
\* point, unless index.bin rotted and a crash struck the save that replaces it.
THEOREM AlwaysOpens == Spec => []NeverBroken
<1>1. Init => Types /\ Sealed
  <2>1. SUFFICES ASSUME Init
                 PROVE  Types /\ Sealed
    OBVIOUS
  <2>2. Types
    BY <2>1, TypesInit
  <2>3. bin # Corrupt /\ prev = NoFile /\ NoFile # Corrupt /\ pc = "down"
    BY <2>1 DEF Init, NoFile, Corrupt
  <2>4. QED
    BY <2>2, <2>3 DEF Sealed
<1>2. Types /\ Sealed /\ [Next]_vars => (Types /\ Sealed)'
  BY TypesStep, SealedStep
<1>3. Types /\ Sealed => NeverBroken
  <2>1. SUFFICES ASSUME Types, Sealed, Never({"rot"}) \/ (pc = "down" /\ Never({"midsave"}))
                 PROVE  Openable
    BY DEF NeverBroken
  <2>2. bin \in Files /\ prev \in Files
    BY <2>1 DEF Types
  <2>3. NoFile # Corrupt /\ ~SealHolds(NoFile) /\ ~SealHolds(Corrupt)
    BY DEF NoFile, Corrupt, SealHolds
  <2>4. ~(~SealHolds(bin) /\ prev = Corrupt)
    BY <2>1, <2>3 DEF Sealed
  <2>5. ~(bin = Corrupt /\ prev = NoFile)
    BY <2>1, <2>3 DEF Sealed
  <2>6. load_ledger # "Err"
    BY <2>2, <2>4, <2>5, LoadIs
  <2>7. QED
    BY <2>6 DEF Openable
<1>4. QED
  BY <1>1, <1>2, <1>3, PTL DEF Spec

-----------------------------------------------------------------------------
(* A batch is invisible until it commits *)

\* While a batch is open no save is under way, unless the caller asked for one.
BatchIdle ==
    batch.open /\ Never({"batchsave"}) => pc = "idle" /\ Recovered.tab = batch.base

\* It is kept by every step.
LEMMA BatchStep ==
  ASSUME Types, BatchIdle, [Next]_vars
  PROVE  BatchIdle'
<1>0. /\ Never({"batchsave"})' => Never({"batchsave"})
      /\ NoBatch.open = FALSE /\ batch.open \in BOOLEAN
      /\ batch.open => batch \in [open : {TRUE}, queued : RecordPacks, base : Tables]
  <2>1. met \subseteq met'
    BY MetGrows
  <2>2. QED
    BY <2>1, BatchIs DEF Never, Types
<1>1. ASSUME batch' = NoBatch
      PROVE  BatchIdle'
  BY <1>0, <1>1 DEF BatchIdle
<1>2. ASSUME batch' = batch, pc # "idle"
      PROVE  BatchIdle'
  BY <1>0, <1>2 DEF BatchIdle
<1>3. ASSUME batch' = batch, ~batch.open \/ ~Never({"batchsave"})'
      PROVE  BatchIdle'
  BY <1>3 DEF BatchIdle
<1>4. CASE begin_publish_batch
  <2>1. Recovered' = Recovered
    BY <1>4, RecoveredSame DEF begin_publish_batch, disk
  <2>2. batch'.base = Recovered.tab /\ pc' = "idle"
    BY <1>4 DEF begin_publish_batch
  <2>3. QED
    BY <2>1, <2>2 DEF BatchIdle
<1>5. ASSUME NEW k \in Keys, NEW v \in Versions, publish_asset(k, v)
      PROVE  BatchIdle'
  <2>1. CASE batch.open
    <3>1. UNCHANGED <<bin, prev, log, logprev>>
      BY <1>5, <2>1 DEF publish_asset
    <3>2. Recovered' = Recovered
      BY <3>1, RecoveredSame
    <3>3. pc' = pc /\ pc = "idle"
      BY <1>5, <2>1 DEF publish_asset
    <3>4. batch'.base = batch.base
      <4>1. batch \in [open : {TRUE}, queued : RecordPacks, base : Tables]
        BY <1>0, <2>1
      <4> DEFINE q == [j \in DOMAIN batch.queued \cup {k} |-> IF j = k THEN v ELSE batch.queued[j]]
      <4>2. batch' = [batch EXCEPT !.queued = q]
        BY <1>5, <2>1 DEF publish_asset
      <4> HIDE DEF q
      <4>3. QED
        BY <4>1, <4>2
    <3>5. QED
      BY <1>0, <2>1, <3>2, <3>3, <3>4 DEF BatchIdle
  <2>2. CASE ~batch.open
    BY <1>3, <1>5, <2>2 DEF publish_asset
  <2>3. QED
    BY <2>1, <2>2
<1>6. CASE \E b \in BOOLEAN : commit_publish_batch(b)
  BY <1>1, <1>6 DEF commit_publish_batch
<1>7. CASE \E k \in Keys : unpublish_asset(k)
  <2>1. batch' = batch
    BY <1>7 DEF unpublish_asset
  <2>2. ~batch.open \/ ~Never({"batchsave"})'
    BY <1>7 DEF unpublish_asset, SavesInBatch, Inject, Never
  <2>3. QED
    BY <1>3, <2>1, <2>2
<1>8. CASE gc_records
  <2>1. batch' = batch
    BY <1>8 DEF gc_records, mem
  <2>2. ~batch.open \/ ~Never({"batchsave"})'
    BY <1>8 DEF gc_records, SavesInBatch, Inject, Never
  <2>3. QED
    BY <1>3, <2>1, <2>2
<1>9. CASE Save
  BY <1>2, <1>9 DEF Save, save_large_records, save_append, save_move_records, save_stage,
                    save_retire, save_install, save_rotate, mem
<1>10. CASE append_fails \/ pack_fails \/ stage_fails \/ bin_rots
  BY <1>2, <1>10 DEF append_fails, pack_fails, stage_fails, bin_rots, mem
<1>11. CASE open_inner \/ exits \/ dies_in_save \/ dies_appending
  BY <1>1, <1>11 DEF open_inner, exits, dies_in_save, dies_appending, Ends
<1>12. CASE UNCHANGED vars
  <2>1. Recovered' = Recovered
    BY <1>12, RecoveredSame DEF vars, disk
  <2>2. UNCHANGED <<batch, pc, met>>
    BY <1>12 DEF vars, mem, env
  <2>3. QED
    BY <2>1, <2>2 DEF BatchIdle, Never
<1>13. QED
  BY <1>4, <1>5, <1>6, <1>7, <1>8, <1>9, <1>10, <1>11, <1>12 DEF Next, Fault

\* "If the process dies before the commit, the on-disk store is exactly as it
\* was before the batch" (begin_publish_batch): what an open would find does
\* not change from begin_publish_batch to commit_publish_batch, unless the
\* caller unpublishes or collects in between.
THEOREM BatchAlwaysInvisible == Spec => []BatchIsInvisible
<1>1. Init => Types /\ BatchIdle
  <2>1. SUFFICES ASSUME Init
                 PROVE  Types /\ BatchIdle
    OBVIOUS
  <2>2. Types
    BY <2>1, TypesInit
  <2>3. ~batch.open
    BY <2>1 DEF Init, NoBatch
  <2>4. QED
    BY <2>2, <2>3 DEF BatchIdle
<1>2. Types /\ BatchIdle /\ [Next]_vars => (Types /\ BatchIdle)'
  BY TypesStep, BatchStep
<1>3. BatchIdle => BatchIsInvisible
  BY DEF BatchIdle, BatchIsInvisible
<1>4. QED
  BY <1>1, <1>2, <1>3, PTL DEF Spec

-----------------------------------------------------------------------------
(* A save is durable or did not happen *)

\* No snapshot failed to be written, and none rotted.
Clean == Never({"stage", "pack", "rot"})

\* The snapshot an open starts from.
Base  == IF bin = NoFile THEN prev ELSE bin
Fresh == bin = NoFile /\ prev = NoFile

\* What the journal adds to it.
Replayed == replay_journal(decode_index(Base), Sound(log), "live")

\* The journal continues the snapshot: index.log without a gap, up to a record
\* that a crash cut short, and index.log.prev with nothing to add.
Journal ==
    /\ Fresh => pc = "down" /\ log = <<>> /\ logprev = <<>>
    /\ Torn(log) => pc = "down" /\ bin.kind = "v2"
    /\ ~Fresh =>
         /\ \A i \in DOMAIN logprev : logprev[i].gen <= Base.gen
         /\ Base.kind = "v1" => log = <<>> /\ logprev = <<>> /\ Base.loc = [k \in Keys |-> NoLoc]
         /\ Good(Sound(log), Base.gen, Replayed.gen)
    /\ snap /\ pc \in {"idle", "save"} => bin.kind = "v2"

\* What an open would find, at every point of a save.
Table ==
    /\ pc = "down" => Recovered.tab \in {acked, attempt}
    /\ pc \in {"idle", "save"} =>
          /\ Recovered.tab = acked /\ Recovered.gen = idx.gen
          /\ \A k \in Keys \ dirty : idx.tab[k] = acked[k]
    /\ pc \in {"stage", "retire", "install"} => Recovered.tab = acked /\ Recovered.gen < idx.gen
    /\ pc \notin {"down", "idle"} => attempt = idx.tab
    /\ pc \in {"retire", "install"} => tmp = encode_index(idx)
    /\ pc = "install" => bin = NoFile
    /\ pc = "rotate" => /\ Recovered.tab = idx.tab
                        /\ bin = encode_index(idx)
                        /\ \A i \in DOMAIN log : log[i].gen <= bin.gen

\* A good journal is not torn, and the empty one adds nothing.
LEMMA GoodIsWhole ==
  ASSUME NEW l \in Journals, NEW g \in Nat, NEW e, Good(l, g, e)
  PROVE  ~Torn(l) /\ Sound(l) = l
<1>1. CASE l = <<>>
  BY <1>1 DEF Torn, Sound
<1>2. CASE l # <<>>
  <2>1. Len(l) \in Nat /\ DOMAIN l = 1..Len(l) /\ l \in Seq(JournalRecords)
    BY JournalTyped DEF Journals
  <2>2. Len(l) # 0
    BY <1>2, <2>1, EmptySeq
  <2>3. Len(l) \in DOMAIN l
    BY <2>1, <2>2
  <2>4. l[Len(l)].sealed
    BY <2>3 DEF Good, Passes
  <2>5. QED
    BY <2>4 DEF Torn, Sound
<1>3. QED
  BY <1>1, <1>2

\* An empty journal adds nothing.
LEMMA EmptyJournal ==
  ASSUME NEW ix \in Indexes, NEW f
  PROVE  /\ <<>> \in Journals /\ ~Torn(<<>>) /\ Sound(<<>>) = <<>>
         /\ Good(<<>>, ix.gen, ix.gen)
         /\ replay_journal(ix, <<>>, f) = ix
<1>1. <<>> \in Journals /\ DOMAIN <<>> = {} /\ ix.gen \in Nat
  BY DEF Journals, Indexes
<1>2. Good(<<>>, ix.gen, ix.gen)
  BY <1>1, GoodStale
<1>3. replay_journal(ix, <<>>, f) = ix
  BY <1>1, ReplayStale
<1>4. QED
  BY <1>1, <1>2, <1>3 DEF Torn, Sound

\* The snapshot an open starts from is whole while none rotted.
LEMMA BaseIs ==
  ASSUME Types, bin # Corrupt, prev # Corrupt, ~Fresh
  PROVE  /\ Base \in Snapshots /\ Base.gen \in Nat /\ Base.kind \in {"v1", "v2"}
         /\ decode_index(Base) \in Indexes
         /\ decode_index(Base).gen = Base.gen /\ decode_index(Base).tab = Base.tab
         /\ decode_index(Base).loc = Base.loc
         /\ bin = NoFile \/ bin \in Snapshots
         /\ Sound(log) \in Journals
         /\ Replayed \in Indexes
<1>1. bin \in Files /\ prev \in Files /\ log \in Journals
  BY DEF Types
<1>2. Base \in Snapshots /\ (bin = NoFile \/ bin \in Snapshots)
  BY <1>1 DEF Base, Fresh, Files
<1>3. Base.gen \in Nat /\ Base.kind \in {"v1", "v2"}
  BY <1>2 DEF Snapshots
<1>4. decode_index(Base) \in Indexes
  BY <1>2, DecodeTyped
<1>5. Sound(log) \in Journals
  BY <1>1, <1>3, ReplaySound
<1>6. Replayed \in Indexes
  BY <1>4, <1>5, ReplayTyped DEF Replayed
<1>7. QED
  BY <1>2, <1>3, <1>4, <1>5, <1>6 DEF decode_index

\* So an open finds what the journal adds to that snapshot, whichever of the
\* branches of open_inner it takes.
LEMMA RecoveredIs ==
  ASSUME Types, bin # Corrupt, prev # Corrupt, Journal
  PROVE  /\ ~Fresh => Recovered = Replayed
         /\ Fresh => Recovered = EmptyIndex
<1>1. CASE Fresh
  <2>1. load_ledger = "None"
    BY <1>1, LoadIs DEF Types, Fresh
  <2>2. QED
    BY <1>1, <2>1 DEF Recovered
<1>2. CASE ~Fresh
  <2>0. /\ Base \in Snapshots /\ Base.gen \in Nat /\ Base.kind \in {"v1", "v2"}
        /\ decode_index(Base) \in Indexes
        /\ decode_index(Base).gen = Base.gen /\ decode_index(Base).loc = Base.loc
        /\ bin = NoFile \/ bin \in Snapshots
        /\ log \in Journals /\ logprev \in Journals
    BY <1>2, BaseIs DEF Types
  <2>1. replay_journal(decode_index(Base), log, "live") = Replayed
    BY <2>0, ReplayTorn DEF Replayed
  <2>2. CASE bin # NoFile /\ Base.kind = "v2"
    <3>1. Base = bin /\ load_ledger = "Live"
      BY <2>0, <2>2, LoadIs, FileKinds DEF Base, Types
    <3>2. QED
      BY <1>2, <2>1, <3>1 DEF Recovered
  <2>3. CASE bin # NoFile /\ Base.kind = "v1"
    <3>1. Base = bin /\ load_ledger = "Legacy"
      BY <2>0, <2>3, LoadIs, FileKinds DEF Base, Types
    <3>2. log = <<>> /\ Base.loc = [k \in Keys |-> NoLoc]
      BY <1>2, <2>3 DEF Journal
    <3>3. Replayed = decode_index(Base)
      BY <2>0, <2>1, <3>2, EmptyJournal
    <3> DEFINE ix == decode_index(Base)
    <3>4. Recovered = [ix EXCEPT !.loc = [k \in Keys |-> IF ix.loc[k].kind = "pack" THEN ix.loc[k] ELSE NoLoc]]
      BY <3>1 DEF Recovered
    <3>5. ix.loc = [k \in Keys |-> NoLoc] /\ ix \in Indexes
      BY <2>0, <3>2
    <3> HIDE DEF ix
    <3>6. [k \in Keys |-> IF ix.loc[k].kind = "pack" THEN ix.loc[k] ELSE NoLoc] = ix.loc
      BY <3>5
    <3>7. Recovered = ix
      BY <3>4, <3>5, <3>6 DEF Indexes
    <3>8. QED
      BY <1>2, <3>3, <3>7 DEF ix
  <2>4. CASE bin = NoFile
    <3>1. Base = prev /\ load_ledger = "Prev"
      BY <2>0, <2>4, LoadIs, FileKinds DEF Base, Types
    <3>2. Recovered = replay_journal(replay_journal(decode_index(Base), logprev, "prev"), log, "live")
      BY <3>1 DEF Recovered
    <3>3. \A i \in DOMAIN logprev : logprev[i].gen <= decode_index(Base).gen
      BY <1>2, <2>0 DEF Journal
    <3>4. replay_journal(decode_index(Base), logprev, "prev") = decode_index(Base)
      BY <2>0, <3>3, ReplayStale
    <3>5. QED
      BY <1>2, <2>1, <3>2, <3>4
  <2>5. QED
    BY <2>0, <2>2, <2>3, <2>4
<1>3. QED
  BY <1>1, <1>2

\* The files of a store whose snapshots never rotted.
Whole == Types /\ bin # Corrupt /\ prev # Corrupt /\ Journal

\* The same, as facts of the state after a step.
LEMMA WholeNow ==
  Whole => /\ ~Fresh => Recovered = Replayed
           /\ Fresh => Recovered = EmptyIndex
           /\ Recovered \in Indexes
           /\ ~Fresh => /\ Base \in Snapshots /\ Base.gen \in Nat /\ Base.kind \in {"v1", "v2"}
                        /\ decode_index(Base) \in Indexes
                        /\ decode_index(Base).gen = Base.gen /\ decode_index(Base).tab = Base.tab
                        /\ decode_index(Base).loc = Base.loc
                        /\ bin = NoFile \/ bin \in Snapshots
                        /\ Sound(log) \in Journals
                        /\ Replayed \in Indexes
<1>1. SUFFICES ASSUME Whole
               PROVE  /\ ~Fresh => Recovered = Replayed
                      /\ Fresh => Recovered = EmptyIndex
                      /\ Recovered \in Indexes
                      /\ ~Fresh => /\ Base \in Snapshots /\ Base.gen \in Nat /\ Base.kind \in {"v1", "v2"}
                                   /\ decode_index(Base) \in Indexes
                                   /\ decode_index(Base).gen = Base.gen /\ decode_index(Base).tab = Base.tab
                                   /\ decode_index(Base).loc = Base.loc
                                   /\ bin = NoFile \/ bin \in Snapshots
                                   /\ Sound(log) \in Journals
                                   /\ Replayed \in Indexes
  OBVIOUS
<1>2. Recovered \in Indexes
  BY <1>1, RecoveredTyped DEF Whole, Types
<1>3. QED
  BY <1>1, <1>2, RecoveredIs, BaseIs DEF Whole

\* The same after a step.
LEMMA WholeNext ==
  Whole' => (/\ ~Fresh => Recovered = Replayed
             /\ Fresh => Recovered = EmptyIndex
             /\ Recovered \in Indexes
             /\ ~Fresh => /\ Base \in Snapshots /\ Base.gen \in Nat /\ Base.kind \in {"v1", "v2"}
                          /\ decode_index(Base) \in Indexes
                          /\ decode_index(Base).gen = Base.gen /\ decode_index(Base).tab = Base.tab
                          /\ decode_index(Base).loc = Base.loc
                          /\ bin = NoFile \/ bin \in Snapshots
                          /\ Sound(log) \in Journals
                          /\ Replayed \in Indexes)'
  BY WholeNow, PTL

\* A step that leaves the files alone.
LEMMA SameFiles ==
  ASSUME Whole, Types', UNCHANGED <<bin, prev, log, logprev>>, pc # "down",
         snap' /\ pc' \in {"idle", "save"} => snap /\ pc \in {"idle", "save"}
  PROVE  Whole' /\ Recovered' = Recovered
<1>1. Recovered' = Recovered
  BY RecoveredSame
<1>2. Base' = Base /\ Fresh' = Fresh /\ Replayed' = Replayed
  BY DEF Base, Fresh, Replayed
<1>3. ~Fresh /\ ~Torn(log)
  BY DEF Whole, Journal
<1>4. Journal'
  BY <1>2, <1>3 DEF Whole, Journal
<1>5. QED
  BY <1>1, <1>4 DEF Whole

\* rename(index.bin, index.bin.prev): an open takes the other branch and finds
\* the same ledger.
LEMMA RetireEffect ==
  ASSUME Whole, Types', save_retire
  PROVE  Whole' /\ Recovered' = Recovered /\ bin' = NoFile
<1>1. /\ prev' = (IF bin = NoFile THEN prev ELSE bin) /\ bin' = NoFile
      /\ UNCHANGED <<log, logprev, snap>> /\ pc = "retire" /\ pc' = "install"
  BY DEF save_retire, mem
<1>2. ~Fresh /\ ~Torn(log) /\ NoFile # Corrupt
  BY <1>1 DEF Whole, Journal, NoFile, Corrupt
<1>3. Base' = Base /\ ~Fresh'
  BY <1>1, <1>2 DEF Base, Fresh
<1>4. Replayed' = Replayed
  BY <1>1, <1>3 DEF Replayed
<1>5. Journal'
  BY <1>1, <1>2, <1>3, <1>4 DEF Whole, Journal
<1>6. Whole'
  BY <1>1, <1>2, <1>5 DEF Whole
<1>7. Recovered = Replayed
  BY <1>2, WholeNow
<1>8. Recovered' = Replayed'
  BY <1>3, <1>6, WholeNext
<1>9. QED
  BY <1>1, <1>4, <1>6, <1>7, <1>8

\* No journal holds a record newer than the ledger an open would find.
LEMMA NothingNewer ==
  ASSUME Whole, ~Fresh, ~Torn(log)
  PROVE  /\ Base.gen <= Recovered.gen
         /\ \A i \in DOMAIN log : log[i].gen <= Recovered.gen /\ log[i].sealed
         /\ \A i \in DOMAIN logprev : logprev[i].gen <= Recovered.gen
<1>1. /\ Recovered = Replayed /\ Base.gen \in Nat /\ Recovered \in Indexes
      /\ log \in Journals /\ logprev \in Journals
  BY WholeNow DEF Whole, Types
<1>2. Sound(log) = log
  BY DEF Sound
<1>3. Good(log, Base.gen, Recovered.gen)
  BY <1>1, <1>2 DEF Whole, Journal
<1>4. GenBefore(log, Base.gen, Len(log) + 1) = Recovered.gen
  BY <1>3 DEF Good
<1>5. Recovered.gen >= Base.gen /\ \A i \in DOMAIN log : log[i].gen <= Recovered.gen
  BY <1>1, <1>4, EndIs
<1>6. \A i \in DOMAIN log : log[i].sealed
  BY <1>3 DEF Good, Passes
<1>7. Recovered.gen \in Nat
  BY <1>1 DEF Indexes
<1>8. ASSUME NEW i \in DOMAIN logprev
      PROVE  logprev[i].gen <= Recovered.gen
  <2>1. logprev[i].gen \in Nat
    BY <1>1, JournalTyped
  <2>2. logprev[i].gen <= Base.gen
    BY DEF Whole, Journal
  <2>3. QED
    BY <1>1, <1>5, <1>7, <2>1, <2>2
<1>9. QED
  BY <1>1, <1>5, <1>6, <1>7, <1>8

\* rename(index.bin.tmp, index.bin) is the commit point of a snapshot: the
\* journals are older than it and add nothing.
LEMMA InstallEffect ==
  ASSUME Whole, Types', save_install, tmp = encode_index(idx), Recovered.gen < idx.gen
  PROVE  /\ Whole' /\ bin' = encode_index(idx)
         /\ Recovered' = decode_index(bin')
         /\ \A i \in DOMAIN log : log[i].gen <= idx.gen
<1>1. /\ bin' = encode_index(idx) /\ UNCHANGED <<prev, log, logprev, snap, idx>>
      /\ pc = "install" /\ pc' = "rotate"
  BY DEF save_install, mem
<1>2. ~Fresh /\ ~Torn(log)
  BY <1>1 DEF Whole, Journal
<1>3. /\ bin' \in Snapshots /\ bin'.kind = "v2" /\ bin'.gen = idx.gen /\ bin'.tab = idx.tab
  BY <1>1, EncodeTyped DEF Whole, Types
<1>4. bin' # NoFile /\ bin' # Corrupt
  BY <1>3 DEF NoFile, Corrupt
<1>5. Base' = bin' /\ ~Fresh'
  BY <1>4 DEF Base, Fresh
<1>6. idx.gen \in Nat /\ Recovered.gen \in Nat /\ log \in Journals /\ logprev \in Journals
  BY WholeNow DEF Whole, Types, Indexes
<1>7. /\ \A i \in DOMAIN log : log[i].gen <= idx.gen /\ log[i].sealed
      /\ \A i \in DOMAIN logprev : logprev[i].gen <= idx.gen
  <2>1. /\ \A i \in DOMAIN log : log[i].gen <= Recovered.gen /\ log[i].sealed
        /\ \A i \in DOMAIN logprev : logprev[i].gen <= Recovered.gen
    BY <1>2, NothingNewer
  <2>2. /\ \A i \in DOMAIN log : log[i].gen \in Nat
        /\ \A i \in DOMAIN logprev : logprev[i].gen \in Nat
    BY <1>6, JournalTyped
  <2>3. QED
    BY <1>6, <2>1, <2>2
<1>8. Good(log, idx.gen, idx.gen)
  BY <1>6, <1>7, GoodStale
<1> DEFINE ix == decode_index(bin')
<1>9. ix \in Indexes /\ ix.gen = idx.gen
  BY <1>3, DecodeTyped DEF decode_index
<1>10. replay_journal(ix, log, "live") = ix
  <2> HIDE DEF ix
  <2>1. QED
    BY <1>6, <1>7, <1>9, ReplayStale
<1>11. Sound(log') = log
  BY <1>1, <1>2 DEF Sound
<1>12. Replayed' = ix
  BY <1>5, <1>10, <1>11 DEF Replayed
<1> HIDE DEF ix
<1>13. Journal'
  <2>1. ~Torn(log)' /\ log' = log /\ logprev' = logprev
    BY <1>1, <1>2
  <2>2. Good(Sound(log), Base.gen, Replayed.gen)'
    BY <1>1, <1>3, <1>5, <1>8, <1>9, <1>11, <1>12
  <2>3. \A i \in DOMAIN logprev' : logprev'[i].gen <= Base'.gen
    BY <1>3, <1>5, <1>7, <2>1
  <2>4. Base'.kind = "v2"
    BY <1>3, <1>5
  <2>5. QED
    BY <1>1, <1>5, <2>1, <2>2, <2>3, <2>4 DEF Journal
<1>14. Whole'
  BY <1>1, <1>4, <1>13 DEF Whole
<1>15. Recovered' = Replayed'
  BY <1>5, <1>14, WholeNext
<1>16. QED
  BY <1>1, <1>7, <1>12, <1>14, <1>15 DEF ix

\* The journals rotate behind the new snapshot.
LEMMA RotateEffect ==
  ASSUME Whole, Types', save_rotate, bin = encode_index(idx),
         \A i \in DOMAIN log : log[i].gen <= bin.gen
  PROVE  Whole' /\ Recovered' = decode_index(bin)
<1>1. /\ logprev' = log /\ log' = <<>> /\ UNCHANGED <<bin, prev>>
      /\ pc' = "idle"
  BY DEF save_rotate, ReturnOk
<1>2. bin \in Snapshots /\ bin.kind = "v2"
  BY EncodeTyped DEF Whole, Types
<1>3. bin # NoFile /\ Base' = bin /\ ~Fresh'
  BY <1>1, <1>2 DEF NoFile, Base, Fresh
<1> DEFINE ix == decode_index(bin)
<1>4. ix \in Indexes /\ ix.gen = bin.gen
  BY <1>2, DecodeTyped DEF decode_index
<1> HIDE DEF ix
<1>5. /\ ~Torn(<<>>) /\ Sound(<<>>) = <<>>
      /\ Good(<<>>, ix.gen, ix.gen)
      /\ replay_journal(ix, <<>>, "live") = ix
  BY <1>4, EmptyJournal
<1>6. Replayed' = ix
  BY <1>1, <1>3, <1>5 DEF Replayed, ix
<1>7. Journal'
  <2>1. Good(Sound(log), Base.gen, Replayed.gen)'
    BY <1>1, <1>3, <1>4, <1>5, <1>6
  <2>2. ~Torn(log)'
    BY <1>1, <1>5
  <2>3. \A i \in DOMAIN logprev' : logprev'[i].gen <= Base'.gen
    BY <1>1, <1>3
  <2>4. Base'.kind = "v2" /\ bin'.kind = "v2"
    BY <1>1, <1>2, <1>3
  <2>5. QED
    BY <1>3, <2>1, <2>2, <2>3, <2>4 DEF Journal
<1>8. Whole'
  BY <1>1, <1>7 DEF Whole
<1>9. Recovered' = Replayed'
  BY <1>3, <1>8, WholeNext
<1>10. QED
  BY <1>6, <1>8, <1>9 DEF ix

\* append_journal is the commit point of a save that fits the journal: an open
\* now finds the dirty entries as the record gives them, and the others as before.
LEMMA AppendEffect ==
  ASSUME Whole, Types', save_append, Recovered.gen = idx.gen
  PROVE  /\ Whole'
         /\ Recovered'.gen = idx.gen + 1
         /\ \A k \in Keys \ dirty : /\ Recovered'.tab[k] = Recovered.tab[k]
                                    /\ Recovered'.loc[k] = Recovered.loc[k]
         /\ \A k \in dirty :
               LET u == JournalRecord.upd[k]
               IN  /\ Recovered'.tab[k] = idx.tab[k]
                   /\ idx.tab[k] = None \/ u.rec.tag # 0 =>
                         Recovered'.loc[k] = NewLoc(u, "live", Len(log) + 1)
<1> DEFINE r == JournalRecord
           ix == decode_index(Base)
<1>1. /\ log' = Append(log, r) /\ UNCHANGED <<bin, prev, logprev, snap>>
      /\ pc = "save" /\ snap /\ pc' = "idle" /\ jb = Len(log)
  BY DEF save_append, ReturnOk, Whole, Types
<1>2. ~Fresh /\ ~Torn(log) /\ bin.kind = "v2"
  BY <1>1 DEF Whole, Journal
<1>3. Base' = Base /\ ~Fresh' /\ Base.kind = "v2"
  <2>1. bin # NoFile
    BY <1>2 DEF NoFile
  <2>2. QED
    BY <1>1, <1>2, <2>1 DEF Base, Fresh
<1>4. /\ r \in JournalRecords /\ r.gen = idx.gen + 1 /\ r.sealed = TRUE /\ DOMAIN r.upd = dirty
      /\ dirty \subseteq Keys /\ \A k \in dirty : r.upd[k].ver = idx.tab[k]
      /\ log \in Journals
  BY JournalRecordIs DEF Whole, Types
<1>5. /\ ix \in Indexes /\ ix.gen = Base.gen /\ Recovered = Replayed
  BY <1>2, WholeNow
<1> HIDE DEF r, ix
<1>6. Sound(log) = log /\ Recovered = replay_journal(ix, log, "live")
  BY <1>2, <1>5 DEF Sound, Replayed, ix
<1>7. Good(log, ix.gen, replay_journal(ix, log, "live").gen)
  BY <1>2, <1>5, <1>6 DEF Whole, Journal
<1>8. r.gen = replay_journal(ix, log, "live").gen + 1
  BY <1>4, <1>6
<1> DEFINE m == Append(log, r)
           after == replay_journal(ix, m, "live")
<1>9. /\ m \in Journals
      /\ Good(m, ix.gen, r.gen)
      /\ after.gen = r.gen
      /\ \A k \in Keys \ DOMAIN r.upd :
             after.tab[k] = Recovered.tab[k] /\ after.loc[k] = Recovered.loc[k]
      /\ \A k \in Keys \cap DOMAIN r.upd :
             /\ after.tab[k] = r.upd[k].ver
             /\ r.upd[k].ver = None \/ r.upd[k].rec.tag # 0 =>
                   after.loc[k] = NewLoc(r.upd[k], "live", Len(log) + 1)
  BY <1>4, <1>5, <1>6, <1>7, <1>8, ReplayAppend
<1>10. ~Torn(m) /\ Sound(m) = m
  <2>1. ix.gen \in Nat
    BY <1>5 DEF Indexes
  <2> HIDE DEF m
  <2>2. QED
    BY <1>9, <2>1, GoodIsWhole
<1>11. Replayed' = after
  BY <1>1, <1>3, <1>10 DEF Replayed, ix
<1> HIDE DEF m, after
<1>12. Journal'
  <2>1. log' = m
    BY <1>1 DEF m, r
  <2>2. Good(Sound(log), Base.gen, Replayed.gen)'
    BY <1>3, <1>5, <1>9, <1>10, <1>11, <2>1
  <2>3. \A i \in DOMAIN logprev' : logprev'[i].gen <= Base'.gen
    BY <1>1, <1>2, <1>3 DEF Whole, Journal
  <2>4. ~Torn(log)' /\ bin'.kind = "v2" /\ Base'.kind = "v2"
    BY <1>1, <1>2, <1>3, <1>10, <2>1
  <2>5. QED
    BY <1>3, <2>2, <2>3, <2>4 DEF Journal
<1>13. Whole'
  BY <1>1, <1>12 DEF Whole
<1>14. Recovered' = after
  BY <1>3, <1>11, <1>13, WholeNext
<1>15. QED
  BY <1>4, <1>9, <1>13, <1>14 DEF r

\* A crash inside append_journal leaves a record that no replay gets past.
LEMMA TearEffect ==
  ASSUME Whole, Types', dies_appending
  PROVE  Whole' /\ Recovered' = Recovered /\ Sound(log') = Sound(log)
<1> DEFINE r == [JournalRecord EXCEPT !.sealed = FALSE]
<1>1. /\ log' = Append(log, r) /\ UNCHANGED <<bin, prev, logprev>>
      /\ pc = "save" /\ snap /\ pc' = "down"
  BY DEF dies_appending, Ends
<1>2. ~Fresh /\ ~Torn(log) /\ bin.kind = "v2"
  BY <1>1 DEF Whole, Journal
<1>3. Base' = Base /\ ~Fresh' /\ Base.kind = "v2"
  <2>1. bin # NoFile
    BY <1>2 DEF NoFile
  <2>2. QED
    BY <1>1, <1>2, <2>1 DEF Base, Fresh
<1>4. r \in JournalRecords /\ ~r.sealed /\ log \in Journals
  <2>1. JournalRecord \in JournalRecords
    BY JournalRecordIs DEF Whole
  <2>2. QED
    BY <2>1 DEF JournalRecords, Whole, Types
<1> HIDE DEF r
<1>5. /\ Len(log) \in Nat /\ log' # <<>> /\ Len(log') = Len(log) + 1 /\ log'[Len(log) + 1] = r
      /\ log' \in Seq(JournalRecords) /\ log \in Seq(JournalRecords)
      /\ \A j \in 1..Len(log) : log'[j] = log[j]
  BY <1>1, <1>4 DEF Journals
<1>6. Torn(log')
  BY <1>4, <1>5 DEF Torn
<1>7. Sound(log') = log
  <2>1. /\ Sound(log') \in Journals /\ Len(Sound(log')) = Len(log)
        /\ \A j \in 1..Len(log) : log'[j] = Sound(log')[j]
    <3>1. Len(log') - 1 = Len(log)
      BY <1>5
    <3>2. log' \in Journals
      BY <1>5 DEF Journals
    <3>3. /\ Sound(log') \in Journals /\ Len(Sound(log')) = Len(log') - 1
          /\ \A j \in 1..(Len(log') - 1) : log'[j] = Sound(log')[j]
      BY <1>6, <3>2, SoundIs
    <3>4. QED
      BY <3>1, <3>3
  <2>2. Sound(log') \in Seq(JournalRecords)
    BY <2>1 DEF Journals
  <2>3. \A j \in 1..Len(log) : Sound(log')[j] = log[j]
    BY <1>5, <2>1
  <2>4. QED
    BY <1>5, <2>1, <2>2, <2>3, SeqEqual
<1>8. Sound(log) = log
  BY <1>2 DEF Sound
<1>9. Replayed' = Replayed
  BY <1>3, <1>7, <1>8 DEF Replayed
<1>10. Journal'
  <2>1. Good(Sound(log), Base.gen, Replayed.gen)'
    BY <1>2, <1>3, <1>7, <1>8, <1>9 DEF Whole, Journal
  <2>2. \A i \in DOMAIN logprev' : logprev'[i].gen <= Base'.gen
    BY <1>1, <1>2, <1>3 DEF Whole, Journal
  <2>3. Base'.kind = "v2" /\ bin'.kind = "v2"
    BY <1>1, <1>2, <1>3
  <2>4. QED
    BY <1>1, <1>3, <2>1, <2>2, <2>3 DEF Journal
<1>11. Whole'
  BY <1>1, <1>10 DEF Whole
<1>12. Recovered' = Replayed' /\ Recovered = Replayed
  BY <1>2, <1>3, <1>11, WholeNow, WholeNext
<1>13. QED
  BY <1>7, <1>8, <1>9, <1>11, <1>12

\* An open cuts a torn record off, or gives a fresh store its first snapshot,
\* and the next open would find what it found.
LEMMA OpenEffect ==
  ASSUME Whole, Types', open_inner
  PROVE  /\ Whole' /\ Recovered' = Recovered /\ idx' = Recovered
         /\ ~Fresh => log' = Sound(log) /\ logprev' = logprev
<1>1. /\ pc = "down" /\ pc' = "idle" /\ prev' = prev /\ idx' = Recovered
      /\ bin' = IF load_ledger = "None" THEN encode_index(EmptyIndex) ELSE bin
      /\ snap' = (load_ledger \in {"Live", "None"})
      /\ log \in Journals /\ logprev \in Journals
  BY DEF open_inner, Whole, Types
<1>2. CASE Fresh
  <2>1. load_ledger = "None"
    BY <1>2, LoadIs DEF Fresh, Whole, Types
  <2>2. log = <<>> /\ logprev = <<>> /\ log' = <<>> /\ logprev' = <<>>
    BY <1>2, <2>1 DEF open_inner, Whole, Journal
  <2>3. bin' = encode_index(EmptyIndex) /\ EmptyIndex \in Indexes
    BY <1>1, <2>1, EmptyTyped
  <2>4. bin' \in Snapshots /\ bin'.kind = "v2" /\ bin' # NoFile /\ bin' # Corrupt
    <3>1. bin' \in Snapshots /\ bin'.kind = "v2"
      BY <2>3, EncodeTyped
    <3>2. QED
      BY <3>1 DEF NoFile, Corrupt
  <2>5. Base' = bin' /\ ~Fresh'
    BY <2>4 DEF Base, Fresh
  <2>6. decode_index(bin') = EmptyIndex
    BY <2>3 DEF decode_index, encode_index, EmptyIndex, NoTable
  <2>7. /\ Sound(<<>>) = <<>> /\ ~Torn(<<>>)
        /\ Good(<<>>, EmptyIndex.gen, EmptyIndex.gen)
        /\ replay_journal(EmptyIndex, <<>>, "live") = EmptyIndex
    BY <2>3, EmptyJournal
  <2>8. Replayed' = EmptyIndex
    BY <2>2, <2>5, <2>6, <2>7 DEF Replayed
  <2>9. Base'.gen = EmptyIndex.gen
    BY <2>3, <2>5, EncodeTyped
  <2>10. Journal'
    <3>1. Good(Sound(log), Base.gen, Replayed.gen)'
      BY <2>2, <2>7, <2>8, <2>9
    <3>2. DOMAIN logprev' = {} /\ ~Torn(log)'
      BY <2>2, <2>7
    <3>3. QED
      BY <2>4, <2>5, <3>1, <3>2 DEF Journal
  <2>11. Whole'
    BY <1>1, <2>4, <2>10 DEF Whole
  <2>12. Recovered' = EmptyIndex /\ Recovered = EmptyIndex
    BY <1>2, <2>5, <2>8, <2>11, WholeNow, WholeNext
  <2>13. QED
    BY <1>1, <1>2, <2>11, <2>12
<1>3. CASE ~Fresh
  <2>0. /\ Base \in Snapshots /\ Base.gen \in Nat /\ Base.kind \in {"v1", "v2"}
        /\ bin = NoFile \/ bin \in Snapshots
        /\ Sound(log) \in Journals
        /\ Recovered = Replayed
    BY <1>3, WholeNow
  <2>1. load_ledger # "None" /\ bin' = bin /\ Base' = Base /\ ~Fresh'
    <3>1. load_ledger # "None"
      BY <1>3, LoadIs DEF Fresh, Whole, Types
    <3>2. QED
      BY <1>1, <1>3, <3>1 DEF Base, Fresh
  <2>2. load_ledger \in {"Live", "Legacy", "Prev"}
    BY <2>1, LoadIs DEF open_inner, Openable, Whole, Types
  <2>3. Good(Sound(log), Base.gen, Replayed.gen)
    BY <1>3 DEF Whole, Journal
  <2>4. ~Torn(Sound(log)) /\ Sound(Sound(log)) = Sound(log)
    BY <2>0, <2>3, GoodIsWhole
  <2>5. log' = Sound(log)
    <3>1. CASE load_ledger = "Live"
      <4>1. bin = Base
        BY <3>1, LoadIs DEF Base, NoFile, SealHolds, Whole, Types
      <4>2. Reached(log, Base.gen) = DOMAIN Sound(log)
        BY <1>1, <2>0, <2>3, GoodReached, ReplaySound
      <4> DEFINE n == Cardinality(DOMAIN Sound(log))
      <4>3. log' = SubSeq(log, 1, n)
        BY <3>1, <4>1, <4>2 DEF open_inner
      <4>4. n = Len(Sound(log))
        <5>1. DOMAIN Sound(log) = 1..Len(Sound(log)) /\ Len(Sound(log)) \in Nat
          BY <2>0, JournalTyped
        <5>2. QED
          BY <5>1, IntervalSize
      <4>5. CASE Torn(log)
        <5>1. n = Len(log) - 1
          BY <1>1, <4>4, <4>5, SoundIs
        <5>2. QED
          BY <4>3, <4>5, <5>1 DEF Sound
      <4>6. CASE ~Torn(log)
        <5>1. n = Len(log) /\ Sound(log) = log
          BY <4>4, <4>6 DEF Sound
        <5>2. SubSeq(log, 1, Len(log)) = log
          BY <1>1, SubSeqFull DEF Journals
        <5>3. QED
          BY <4>3, <5>1, <5>2
      <4>7. QED
        BY <4>5, <4>6
    <3>2. CASE load_ledger = "Legacy"
      <4>1. bin = Base /\ Base.kind = "v1"
        BY <3>2, LoadIs DEF Base, NoFile, SealHolds, Whole, Types
      <4>2. log = <<>> /\ log' = <<>>
        BY <1>3, <3>2, <4>1 DEF open_inner, Whole, Journal
      <4>3. QED
        BY <4>2 DEF Sound, Torn
    <3>3. CASE load_ledger = "Prev"
      <4>1. ~SealHolds(bin)
        BY <3>3, LoadIs DEF Whole, Types
      <4>2. bin.kind # "v2"
        BY <4>1 DEF SealHolds
      <4>3. ~Torn(log)
        BY <4>2 DEF Whole, Journal
      <4>4. log' = log
        BY <3>3 DEF open_inner
      <4>5. QED
        BY <4>3, <4>4 DEF Sound
    <3>4. QED
      BY <2>2, <3>1, <3>2, <3>3
  <2>6. logprev' = logprev
    <3>1. CASE load_ledger = "Legacy"
      <4>1. bin = Base /\ Base.kind = "v1"
        BY <3>1, LoadIs DEF Base, NoFile, SealHolds, Whole, Types
      <4>2. QED
        BY <1>3, <3>1, <4>1 DEF open_inner, Whole, Journal
    <3>2. CASE load_ledger # "Legacy"
      BY <2>2, <3>2 DEF open_inner
    <3>3. QED
      BY <3>1, <3>2
  <2>7. Replayed' = Replayed
    BY <2>1, <2>4, <2>5 DEF Replayed
  <2>8. Journal'
    <3>1. Good(Sound(log), Base.gen, Replayed.gen)'
      BY <2>1, <2>3, <2>4, <2>5, <2>7
    <3>2. \A i \in DOMAIN logprev' : logprev'[i].gen <= Base'.gen
      BY <1>3, <2>1, <2>6 DEF Whole, Journal
    <3>3. ~Torn(log)'
      BY <2>4, <2>5
    <3>4. Base'.kind = "v1" => log' = <<>> /\ logprev' = <<>> /\ Base'.loc = [k \in Keys |-> NoLoc]
      <4>1. Sound(<<>>) = <<>>
        BY DEF Sound, Torn
      <4>2. QED
        BY <1>3, <2>1, <2>5, <2>6, <4>1 DEF Whole, Journal
    <3>5. snap' => bin'.kind = "v2"
      BY <1>1, <2>1, LoadIs DEF Whole, Types
    <3>6. QED
      BY <2>1, <3>1, <3>2, <3>3, <3>4, <3>5 DEF Journal
  <2>9. Whole'
    BY <1>1, <2>1, <2>8 DEF Whole
  <2>10. Recovered' = Replayed'
    BY <2>1, <2>9, WholeNext
  <2>11. QED
    BY <1>1, <2>0, <2>5, <2>6, <2>7, <2>9, <2>10
<1>4. QED
  BY <1>2, <1>3

\* A failed append cuts the journal back to where it was.
LEMMA CutEffect ==
  ASSUME Types, append_fails
  PROVE  log' = log
<1>1. log' = SubSeq(log, 1, Len(log)) /\ log \in Seq(JournalRecords)
  BY DEF append_fails, Types, Journals
<1>2. QED
  BY <1>1, SubSeqFull

\* Every step that damages no snapshot keeps the journal in step with the
\* ledger of the open store.
LEMMA TableStep ==
  ASSUME Whole, Table, Types', [Next]_vars, Clean'
  PROVE  Whole' /\ Table'
<1>0. /\ idx \in Indexes /\ idx.gen \in Nat /\ idx.tab \in Tables
      /\ pc \in {"down", "idle", "save", "stage", "retire", "install", "rotate"}
  BY DEF Whole, Types, Indexes
<1>1. CASE UNCHANGED vars
  <2>1. UNCHANGED <<bin, prev, tmp, log, logprev, pc, idx, dirty, snap, acked, attempt>>
    BY <1>1 DEF vars, disk, mem, hist
  <2>2. Recovered' = Recovered /\ Base' = Base /\ Fresh' = Fresh /\ Replayed' = Replayed
    BY <2>1, RecoveredSame DEF Base, Fresh, Replayed
  <2>3. Journal'
    BY <2>1, <2>2 DEF Whole, Journal
  <2>4. QED
    BY <2>1, <2>2, <2>3 DEF Whole, Table
<1>2. CASE open_inner
  <2>1. Whole' /\ Recovered' = Recovered /\ idx' = Recovered
    BY <1>2, OpenEffect
  <2>2. pc' = "idle" /\ acked' = idx'.tab
    BY <1>2 DEF open_inner
  <2>3. QED
    BY <2>1, <2>2 DEF Table
<1>3. CASE begin_publish_batch
  <2>1. UNCHANGED <<bin, prev, log, logprev, snap, pc, idx, dirty, acked, attempt>> /\ pc = "idle"
    BY <1>3 DEF begin_publish_batch, disk, hist
  <2>2. Whole' /\ Recovered' = Recovered
    BY <2>1, SameFiles
  <2>3. QED
    BY <2>1, <2>2 DEF Table
<1>4. ASSUME NEW k \in Keys, NEW v \in Versions, publish_asset(k, v)
      PROVE  Whole' /\ Table'
  <2> DEFINE tab == [idx.tab EXCEPT ![k] = v]
  <2>1. /\ UNCHANGED <<bin, prev, log, logprev, snap>> /\ pc = "idle" /\ pc' \in {"idle", "save"}
        /\ dirty' = dirty \cup {k} /\ acked' = acked
        /\ pc' = "save" => attempt' = tab
    BY <1>4 DEF publish_asset, StartSave, hist
  <2>2. Whole' /\ Recovered' = Recovered
    BY <2>1, SameFiles
  <2>3. tab \in Tables /\ \A j \in Keys \ {k} : tab[j] = idx.tab[j]
    BY <1>0 DEF Tables
  <2>4. idx'.tab = tab /\ idx'.gen = idx.gen
    <3>1. CASE batch.open
      <4>1. idx' = [idx EXCEPT !.tab = tab]
        BY <1>4, <3>1 DEF publish_asset
      <4> HIDE DEF tab
      <4>2. QED
        BY <1>0, <4>1 DEF Indexes
    <3>2. CASE ~batch.open
      <4>1. write_asset_records([j \in {k} |-> v], tab)
        BY <1>4, <3>2 DEF publish_asset
      <4>2. [j \in {k} |-> v] \in RecordPacks
        <5>1. {k} \in SUBSET Keys /\ [j \in {k} |-> v] \in [{k} -> Versions]
          OBVIOUS
        <5>2. QED
          BY <5>1, PackTyped
      <4> HIDE DEF tab
      <4>3. QED
        BY <2>3, <4>1, <4>2, WriteIs DEF Whole
    <3>3. QED
      BY <3>1, <3>2
  <2> HIDE DEF tab
  <2>5. QED
    BY <2>1, <2>2, <2>3, <2>4 DEF Table
<1>5. ASSUME NEW b \in BOOLEAN, commit_publish_batch(b)
      PROVE  Whole' /\ Table'
  <2>1. /\ UNCHANGED <<bin, prev, log, logprev, snap, dirty>> /\ pc = "idle" /\ pc' \in {"idle", "save"}
        /\ acked' = acked
        /\ pc' = "save" => attempt' = idx.tab
    BY <1>5 DEF commit_publish_batch, StartSave, hist
  <2>2. Whole' /\ Recovered' = Recovered
    BY <2>1, SameFiles
  <2>3. idx'.tab = idx.tab /\ idx'.gen = idx.gen
    <3>1. CASE batch.queued # NoRecords
      <4>1. batch.queued \in RecordPacks
        BY <1>5, BatchIs DEF commit_publish_batch, Whole, Types
      <4>2. write_asset_records(batch.queued, idx.tab)
        BY <1>5, <3>1 DEF commit_publish_batch
      <4>3. QED
        BY <1>0, <4>1, <4>2, WriteIs DEF Whole
    <3>2. CASE batch.queued = NoRecords
      BY <1>5, <3>2 DEF commit_publish_batch
    <3>3. QED
      BY <3>1, <3>2
  <2>4. QED
    BY <2>1, <2>2, <2>3 DEF Table
<1>6. ASSUME NEW k \in Keys, unpublish_asset(k)
      PROVE  Whole' /\ Table'
  <2> DEFINE tab == [idx.tab EXCEPT ![k] = None]
  <2>1. /\ UNCHANGED <<bin, prev, log, logprev, snap>> /\ pc = "idle" /\ pc' = "save"
        /\ dirty' = dirty \cup {k} /\ acked' = acked /\ attempt' = tab
    BY <1>6 DEF unpublish_asset, StartSave
  <2>2. Whole' /\ Recovered' = Recovered
    BY <2>1, SameFiles
  <2>3. tab \in Tables /\ \A j \in Keys \ {k} : tab[j] = idx.tab[j]
    BY <1>0 DEF Tables
  <2>4. idx' = [idx EXCEPT !.tab = tab, !.loc[k] = NoLoc]
    BY <1>6 DEF unpublish_asset
  <2> HIDE DEF tab
  <2>5. idx'.tab = tab /\ idx'.gen = idx.gen
    BY <1>0, <2>4 DEF Indexes
  <2>6. QED
    BY <2>1, <2>2, <2>3, <2>5 DEF Table
<1>7. CASE gc_records
  <2>1. /\ UNCHANGED <<bin, prev, log, logprev, snap, dirty, idx>> /\ pc = "idle" /\ pc' = "save"
        /\ acked' = acked /\ attempt' = idx.tab
    BY <1>7 DEF gc_records, StartSave, mem
  <2>2. Whole' /\ Recovered' = Recovered
    BY <2>1, SameFiles
  <2>3. QED
    BY <2>1, <2>2 DEF Table
<1>8. CASE save_large_records
  <2>1. /\ UNCHANGED <<bin, prev, log, logprev, snap, dirty, pc, acked, attempt>> /\ pc = "save"
    BY <1>8 DEF save_large_records, hist
  <2>2. Whole' /\ Recovered' = Recovered
    BY <2>1, SameFiles
  <2> DEFINE nloc == [k \in Keys |-> IF k \in DOMAIN pend THEN PackLoc(pend) ELSE idx.loc[k]]
  <2>3. idx' = [idx EXCEPT !.loc = nloc]
    BY <1>8 DEF save_large_records
  <2> HIDE DEF nloc
  <2>4. idx'.tab = idx.tab /\ idx'.gen = idx.gen
    BY <1>0, <2>3 DEF Indexes
  <2>5. QED
    BY <2>1, <2>2, <2>4 DEF Table
<1>9. CASE save_append
  <2>1. pc = "save" /\ pc' = "idle" /\ acked' = idx.tab /\ dirty \subseteq Keys
    BY <1>9 DEF save_append, ReturnOk, Whole, Types
  <2>2. Recovered.gen = idx.gen /\ Recovered.tab = acked /\ \A k \in Keys \ dirty : idx.tab[k] = acked[k]
    BY <2>1 DEF Table
  <2>3. /\ Whole'
        /\ Recovered'.gen = idx.gen + 1
        /\ \A k \in Keys \ dirty : Recovered'.tab[k] = Recovered.tab[k]
        /\ \A k \in dirty : Recovered'.tab[k] = idx.tab[k]
    BY <1>9, <2>2, AppendEffect
  <2>4. Recovered'.tab = idx.tab
    <3>1. Recovered' \in Indexes
      BY <2>3, WholeNext
    <3>2. Recovered'.tab \in Tables
      BY <3>1 DEF Indexes
    <3>3. \A k \in Keys : Recovered'.tab[k] = idx.tab[k]
      BY <2>2, <2>3
    <3>4. QED
      BY <1>0, <3>2, <3>3 DEF Tables
  <2> DEFINE nloc == [k \in Keys |-> IF k \in dirty /\ idx.tab[k] # None /\ k \in DOMAIN pend
                                     THEN LogLoc("live", jb + 1) ELSE idx.loc[k]]
  <2>5. idx' = [idx EXCEPT !.gen = idx.gen + 1, !.loc = nloc]
    BY <1>9 DEF save_append
  <2> HIDE DEF nloc
  <2>6. idx'.gen = idx.gen + 1 /\ idx'.tab = idx.tab
    BY <1>0, <2>5 DEF Indexes
  <2>7. QED
    BY <2>1, <2>3, <2>4, <2>6 DEF Table
<1>10. CASE save_move_records
  <2>1. /\ UNCHANGED <<bin, prev, log, logprev, snap, acked, attempt>> /\ pc = "save" /\ pc' = "stage"
    BY <1>10 DEF save_move_records, hist
  <2>2. Whole' /\ Recovered' = Recovered
    BY <2>1, SameFiles
  <2> DEFINE nloc == [k \in Keys |-> IF k \in DOMAIN Staged THEN PackLoc(Staged)
                                     ELSE IF idx.loc[k].kind = "log" THEN NoLoc ELSE idx.loc[k]]
  <2>3. idx' = [idx EXCEPT !.gen = idx.gen + 1, !.loc = nloc]
    BY <1>10 DEF save_move_records
  <2> HIDE DEF nloc
  <2>4. idx'.gen = idx.gen + 1 /\ idx'.tab = idx.tab
    BY <1>0, <2>3 DEF Indexes
  <2>5. Recovered.gen = idx.gen /\ Recovered.gen < idx'.gen
    BY <1>0, <2>1, <2>4 DEF Table
  <2>6. QED
    BY <2>1, <2>2, <2>4, <2>5 DEF Table
<1>11. CASE save_stage
  <2>1. /\ UNCHANGED <<bin, prev, log, logprev, snap, idx, dirty, acked, attempt>>
        /\ pc = "stage" /\ pc' = "retire" /\ tmp' = encode_index(idx)
    BY <1>11 DEF save_stage, mem, hist
  <2>2. Whole' /\ Recovered' = Recovered
    BY <2>1, SameFiles
  <2>3. encode_index(idx)' = encode_index(idx)
    BY <2>1
  <2>4. QED
    BY <2>1, <2>2, <2>3 DEF Table
<1>12. CASE save_retire
  <2>1. Whole' /\ Recovered' = Recovered /\ bin' = NoFile
    BY <1>12, RetireEffect
  <2>2. UNCHANGED <<tmp, idx, acked, attempt>> /\ pc = "retire" /\ pc' = "install"
    BY <1>12 DEF save_retire, mem, hist
  <2>3. encode_index(idx)' = encode_index(idx)
    BY <2>2
  <2>4. QED
    BY <2>1, <2>2, <2>3 DEF Table
<1>13. CASE save_install
  <2>1. UNCHANGED <<idx, attempt, log>> /\ pc = "install" /\ pc' = "rotate"
    BY <1>13 DEF save_install, mem, hist
  <2>2. tmp = encode_index(idx) /\ Recovered.gen < idx.gen /\ attempt = idx.tab
    BY <2>1 DEF Table
  <2>3. /\ Whole' /\ bin' = encode_index(idx)
        /\ Recovered' = decode_index(bin')
        /\ \A i \in DOMAIN log : log[i].gen <= idx.gen
    BY <1>13, <2>2, InstallEffect
  <2>4. bin'.gen = idx.gen /\ bin'.tab = idx.tab
    BY <1>0, <2>3, EncodeTyped
  <2>5. Recovered'.tab = idx.tab
    BY <2>3, <2>4 DEF decode_index
  <2>6. encode_index(idx)' = encode_index(idx)
    BY <2>1
  <2>7. QED
    BY <2>1, <2>2, <2>3, <2>4, <2>5, <2>6 DEF Table
<1>14. CASE save_rotate
  <2>1. UNCHANGED <<idx, bin>> /\ pc = "rotate" /\ pc' = "idle" /\ acked' = idx.tab
    BY <1>14 DEF save_rotate, ReturnOk
  <2>2. bin = encode_index(idx) /\ \A i \in DOMAIN log : log[i].gen <= bin.gen
    BY <2>1 DEF Table
  <2>3. Whole' /\ Recovered' = decode_index(bin)
    BY <1>14, <2>2, RotateEffect
  <2>4. Recovered'.gen = idx.gen /\ Recovered'.tab = idx.tab
    BY <1>0, <2>2, <2>3, EncodeTyped DEF decode_index
  <2>5. QED
    BY <2>1, <2>3, <2>4 DEF Table
<1>15. CASE append_fails
  <2>1. /\ UNCHANGED <<bin, prev, logprev, snap, idx, dirty, acked>> /\ pc = "save" /\ pc' = "idle" /\ snap
    BY <1>15 DEF append_fails, ReturnErr, mem
  <2>2. log' = log
    BY <1>15, CutEffect DEF Whole
  <2>3. Whole' /\ Recovered' = Recovered
    BY <2>1, <2>2, SameFiles
  <2>4. QED
    BY <2>1, <2>3 DEF Table
<1>16. CASE pack_fails \/ stage_fails \/ bin_rots
  <2>1. met' \cap {"stage", "pack", "rot"} # {}
    BY <1>16 DEF pack_fails, stage_fails, bin_rots, Inject
  <2>2. QED
    BY <2>1 DEF Clean, Never
<1>17. CASE dies_in_save \/ exits
  <2>1. /\ UNCHANGED <<bin, prev, log, logprev, acked, attempt>> /\ pc # "down" /\ pc' = "down" /\ ~snap'
    BY <1>17 DEF dies_in_save, exits, Ends, hist
  <2>2. Whole' /\ Recovered' = Recovered
    BY <2>1, SameFiles
  <2>3. Recovered.tab \in {acked, attempt}
    BY <1>0, <2>1 DEF Table
  <2>4. QED
    BY <2>1, <2>2, <2>3 DEF Table
<1>18. CASE dies_appending
  <2>1. Whole' /\ Recovered' = Recovered
    BY <1>18, TearEffect
  <2>2. UNCHANGED <<acked, attempt>> /\ pc = "save" /\ pc' = "down"
    BY <1>18 DEF dies_appending, Ends, hist
  <2>3. Recovered.tab = acked
    BY <2>2 DEF Table
  <2>4. QED
    BY <2>1, <2>2, <2>3 DEF Table
<1>19. QED
  BY <1>1, <1>2, <1>3, <1>4, <1>5, <1>6, <1>7, <1>8, <1>9, <1>10, <1>11, <1>12, <1>13, <1>14,
     <1>15, <1>16, <1>17, <1>18 DEF Next, Save, Fault

\* The invariant that the theorems below rest on.
LedgerInv == Types /\ Sealed /\ (Clean => Journal /\ Table)

\* A store without a failed or damaged snapshot has its files whole.
LEMMA InvIsWhole ==
  ASSUME LedgerInv, Clean
  PROVE  Whole /\ Table
<1>1. Never({"rot"})
  BY DEF Clean, Never
<1>2. QED
  BY <1>1 DEF LedgerInv, Sealed, Whole

\* The invariant holds of a store that was never opened.
LEMMA InvInit ==
  ASSUME Init
  PROVE  LedgerInv
<1>1. Types
  BY TypesInit
<1>2. /\ bin # Corrupt /\ prev = NoFile /\ NoFile # Corrupt /\ pc = "down" /\ snap = FALSE
      /\ log = <<>> /\ logprev = <<>>
  BY DEF Init, NoFile, Corrupt
<1>3. Sealed
  BY <1>2 DEF Sealed
<1>4. ~Torn(<<>>) /\ Sound(<<>>) = <<>>
  BY DEF Torn, Sound
<1>5. CASE bin = NoFile
  <2>1. Fresh
    BY <1>2, <1>5 DEF Fresh
  <2>2. Journal
    BY <1>2, <1>4, <2>1 DEF Journal
  <2>3. Recovered = EmptyIndex
    BY <1>1, <1>2, <2>1, <2>2, RecoveredIs
  <2>4. acked = NoTable
    BY <1>5 DEF Init, NoFile
  <2>5. Table
    BY <1>2, <2>3, <2>4, EmptyTyped DEF Table
  <2>6. QED
    BY <1>1, <1>3, <2>2, <2>5 DEF LedgerInv
<1>6. CASE bin = [kind |-> "v1", gen |-> 0, tab |-> flat, loc |-> [k \in Keys |-> NoLoc]]
  <2>1. bin.kind = "v1" /\ bin.loc = [k \in Keys |-> NoLoc] /\ bin.tab = acked /\ bin.gen = 0
    BY <1>6 DEF Init
  <2>2. bin # NoFile
    BY <2>1 DEF NoFile
  <2>3. Base = bin /\ ~Fresh
    BY <2>2 DEF Base, Fresh
  <2>4. /\ decode_index(Base) \in Indexes /\ decode_index(Base).gen = Base.gen
        /\ decode_index(Base).tab = Base.tab
    BY <1>1, <1>2, <2>3, BaseIs
  <2>5. Replayed = decode_index(Base) /\ Good(<<>>, Base.gen, Base.gen)
    BY <1>2, <1>4, <2>4, EmptyJournal DEF Replayed
  <2>6. Good(Sound(log), Base.gen, Replayed.gen)
    BY <1>2, <1>4, <2>4, <2>5
  <2>7. Journal
    BY <1>2, <1>4, <2>1, <2>3, <2>6 DEF Journal
  <2>8. Recovered = Replayed
    BY <1>1, <1>2, <2>3, <2>7, RecoveredIs
  <2>9. Recovered.tab = acked
    BY <2>1, <2>3, <2>4, <2>5, <2>8
  <2>10. Table
    BY <1>2, <2>9 DEF Table
  <2>11. QED
    BY <1>1, <1>3, <2>7, <2>10 DEF LedgerInv
<1>7. QED
  BY <1>5, <1>6 DEF Init

\* The invariant holds after every step.
LEMMA InvStep ==
  ASSUME LedgerInv, [Next]_vars
  PROVE  LedgerInv'
<1>1. Types' /\ Sealed'
  BY TypesStep, SealedStep DEF LedgerInv
<1>2. ASSUME Clean'
      PROVE  Journal' /\ Table'
  <2>1. Clean
    BY <1>2, MetGrows DEF Clean, Never
  <2>2. Whole /\ Table
    BY <2>1, InvIsWhole
  <2>3. QED
    BY <1>1, <1>2, <2>2, TableStep DEF Whole
<1>3. QED
  BY <1>1, <1>2 DEF LedgerInv

\* Whatever point a crash strikes, the next open finds the table of the last
\* save that returned success or the whole table of the save it cut short, as
\* long as no snapshot failed to be written and none rotted: save_index and
\* write_snapshot against open_inner and replay_journal.
THEOREM AlwaysDurable == Spec => []Durable
<1>1. LedgerInv => Durable
  <2>1. SUFFICES ASSUME LedgerInv, Clean
                 PROVE  SaveIsDurable
    BY DEF Durable, Clean
  <2>2. Whole /\ Table
    BY <2>1, InvIsWhole
  <2>3. pc \in {"down", "idle", "save", "stage", "retire", "install", "rotate"}
    BY <2>2 DEF Whole, Types
  <2>4. QED
    BY <2>2, <2>3 DEF Table, SaveIsDurable
<1>2. Init => LedgerInv
  BY InvInit
<1>3. LedgerInv /\ [Next]_vars => LedgerInv'
  BY InvStep
<1>4. QED
  BY <1>1, <1>2, <1>3, PTL DEF Spec

-----------------------------------------------------------------------------
(* The files implement AtomicLedger *)

\* The variables of AtomicLedger.
Held   == IF pc = "down" THEN Recovered.tab ELSE idx.tab
Stored == Recovered.tab
Saving == pc \notin {"idle", "down"}

\* A step of the files is a step of the atomic ledger or leaves it alone.
AtomicStep ==
    \/ /\ ~Saving /\ Held' \in Tables /\ Saving' \in BOOLEAN
       /\ Stored' = Stored /\ result' = result
    \/ Saving /\ Stored' = Held /\ Held' = Held /\ Saving' = Saving /\ result' = result
    \/ Saving /\ Stored' = Held /\ Saving' = FALSE /\ result' = "ok" /\ Held' = Held
    \/ Saving /\ Saving' = FALSE /\ result' = "err" /\ Held' = Held /\ Stored' = Stored
    \/ Held' = Stored /\ Saving' = FALSE /\ Stored' = Stored /\ result' = result
    \/ Held' = Held /\ Stored' = Stored /\ Saving' = Saving /\ result' = result

\* Every step of the files is such a step.
LEMMA StepIsAtomic ==
  ASSUME Whole, Table, Whole', Table', [Next]_vars, Clean'
  PROVE  AtomicStep
<1>0. /\ idx \in Indexes /\ idx.tab \in Tables /\ idx' \in Indexes /\ idx'.tab \in Tables
      /\ pc \in {"down", "idle", "save", "stage", "retire", "install", "rotate"}
  BY DEF Whole, Types, Indexes
<1>1. CASE UNCHANGED vars
  <2>1. UNCHANGED <<bin, prev, log, logprev, pc, idx, result>>
    BY <1>1 DEF vars, disk, mem
  <2>2. Recovered' = Recovered
    BY <2>1, RecoveredSame
  <2>3. QED
    BY <2>1, <2>2 DEF AtomicStep, Held, Stored, Saving
<1>2. CASE open_inner
  <2>1. Recovered' = Recovered /\ idx' = Recovered
    BY <1>2, OpenEffect DEF Whole
  <2>2. pc = "down" /\ pc' = "idle" /\ result' = result
    BY <1>2 DEF open_inner
  <2>3. QED
    BY <2>1, <2>2 DEF AtomicStep, Held, Stored, Saving
<1>3. CASE begin_publish_batch \/ (\E k \in Keys, v \in Versions : publish_asset(k, v))
             \/ (\E b \in BOOLEAN : commit_publish_batch(b)) \/ (\E k \in Keys : unpublish_asset(k))
             \/ gc_records
  <2>1. UNCHANGED <<bin, prev, log, logprev, result>> /\ pc = "idle" /\ pc' \in {"idle", "save"}
    BY <1>3 DEF begin_publish_batch, publish_asset, commit_publish_batch, unpublish_asset, gc_records,
                StartSave, disk
  <2>2. Recovered' = Recovered
    BY <2>1, RecoveredSame
  <2>3. QED
    BY <1>0, <2>1, <2>2 DEF AtomicStep, Held, Stored, Saving
<1>4. CASE save_large_records \/ save_move_records \/ save_stage
  <2>1. /\ UNCHANGED <<bin, prev, log, logprev, result, attempt>>
        /\ pc \in {"save", "stage"} /\ pc' \in {"save", "stage", "retire"}
    BY <1>4 DEF save_large_records, save_move_records, save_stage, hist
  <2>2. Recovered' = Recovered
    BY <2>1, RecoveredSame
  <2>3. idx'.tab = idx.tab
    BY <2>1 DEF Table
  <2>4. QED
    BY <2>1, <2>2, <2>3 DEF AtomicStep, Held, Stored, Saving
<1>5. CASE save_retire
  <2>1. Recovered' = Recovered
    BY <1>5, RetireEffect DEF Whole
  <2>2. pc = "retire" /\ pc' = "install" /\ UNCHANGED <<idx, result>>
    BY <1>5 DEF save_retire, mem
  <2>3. QED
    BY <2>1, <2>2 DEF AtomicStep, Held, Stored, Saving
<1>6. CASE save_install
  <2>1. pc = "install" /\ pc' = "rotate" /\ UNCHANGED <<idx, result>>
    BY <1>6 DEF save_install, mem
  <2>2. Recovered'.tab = idx.tab
    BY <2>1 DEF Table
  <2>3. QED
    BY <2>1, <2>2 DEF AtomicStep, Held, Stored, Saving
<1>7. CASE save_append \/ save_rotate
  <2>1. pc \in {"save", "rotate"} /\ pc' = "idle" /\ result' = "ok" /\ acked' = idx.tab
    BY <1>7 DEF save_append, save_rotate, ReturnOk
  <2>2. Recovered'.tab = idx.tab
    BY <2>1 DEF Table
  <2>3. idx'.tab = idx.tab
    <3>1. CASE save_rotate
      BY <3>1 DEF save_rotate
    <3>2. CASE save_append
      <4> DEFINE nloc == [k \in Keys |-> IF k \in dirty /\ idx.tab[k] # None /\ k \in DOMAIN pend
                                         THEN LogLoc("live", jb + 1) ELSE idx.loc[k]]
      <4>1. idx' = [idx EXCEPT !.gen = idx.gen + 1, !.loc = nloc]
        BY <3>2 DEF save_append
      <4> HIDE DEF nloc
      <4>2. QED
        BY <1>0, <4>1 DEF Indexes
    <3>3. QED
      BY <1>7, <3>1, <3>2
  <2>4. QED
    BY <2>1, <2>2, <2>3 DEF AtomicStep, Held, Stored, Saving
<1>8. CASE append_fails
  <2>1. pc = "save" /\ pc' = "idle" /\ result' = "err" /\ UNCHANGED <<bin, prev, logprev, idx>>
    BY <1>8 DEF append_fails, ReturnErr, mem
  <2>2. log' = log
    BY <1>8, CutEffect DEF Whole
  <2>3. Recovered' = Recovered
    BY <2>1, <2>2, RecoveredSame
  <2>4. QED
    BY <2>1, <2>3 DEF AtomicStep, Held, Stored, Saving
<1>9. CASE pack_fails \/ stage_fails \/ bin_rots
  <2>1. met' \cap {"stage", "pack", "rot"} # {}
    BY <1>9 DEF pack_fails, stage_fails, bin_rots, Inject
  <2>2. QED
    BY <2>1 DEF Clean, Never
<1>10. CASE dies_in_save \/ exits \/ dies_appending
  <2>1. pc' = "down" /\ result' = result
    BY <1>10 DEF dies_in_save, exits, dies_appending, Ends
  <2>2. Recovered' = Recovered
    <3>1. CASE dies_appending
      BY <3>1, TearEffect DEF Whole
    <3>2. CASE dies_in_save \/ exits
      BY <3>2, RecoveredSame DEF dies_in_save, exits, Ends
    <3>3. QED
      BY <1>10, <3>1, <3>2
  <2>3. QED
    BY <2>1, <2>2 DEF AtomicStep, Held, Stored, Saving
<1>11. QED
  BY <1>1, <1>2, <1>3, <1>4, <1>5, <1>6, <1>7, <1>8, <1>9, <1>10 DEF Next, Save, Fault

\* The snapshot, the journal and their renames implement a ledger that is saved
\* atomically, in a store that meets no failed and no rotten snapshot: every
\* step of save_index, of a crash and of open_inner is a step of AtomicLedger.
THEOREM FilesImplementAtomicLedger ==
  ASSUME Events \cap {"stage", "pack", "rot"} = {}
  PROVE  Spec => ImplementsAtomicLedger
<1>1. LedgerInv => Clean
  BY DEF LedgerInv, Types, Clean, Never
<1>2. Init => LedgerInv
  BY InvInit
<1>3. LedgerInv /\ [Next]_vars => LedgerInv'
  BY InvStep
<1>4. Init => Ledger!Init
  <2>1. SUFFICES ASSUME Init
                 PROVE  Ledger!Init
    OBVIOUS
  <2>2. Recovered \in Indexes
    BY <2>1, TypesInit, RecoveredTyped DEF Types
  <2>3. Recovered.tab \in Tables
    BY <2>2 DEF Indexes
  <2>4. pc = "down" /\ result = "ok"
    BY <2>1 DEF Init
  <2>5. QED
    BY <2>3, <2>4 DEF Ledger!Init
<1>5. LedgerInv /\ LedgerInv' /\ [Next]_vars => [Ledger!Next]_(Ledger!vars)
  <2>1. SUFFICES ASSUME LedgerInv, LedgerInv', [Next]_vars
                 PROVE  [Ledger!Next]_(Ledger!vars)
    OBVIOUS
  <2>2. Clean
    BY <1>1, <2>1
  <2>3. Clean'
    BY <2>1 DEF LedgerInv, Types, Clean, Never
  <2>4. Whole /\ Table
    BY <2>1, <2>2, InvIsWhole
  <2>5. Whole' /\ Table'
    BY <2>1, <2>3, <2>4, TableStep DEF LedgerInv
  <2>6. AtomicStep
    BY <2>1, <2>3, <2>4, <2>5, StepIsAtomic
  <2>7. QED
    BY <2>6 DEF AtomicStep, Held, Stored, Saving, Ledger!Next, Ledger!Mutate, Ledger!Commit,
                Ledger!Finish, Ledger!Abandon, Ledger!Crash, Ledger!vars
<1>6. QED
  BY <1>2, <1>3, <1>4, <1>5, PTL DEF Spec, ImplementsAtomicLedger, Ledger!Spec

-----------------------------------------------------------------------------
(* An open finds the record locations of the ledger that was saved *)

\* And no save was made in the middle of a batch.
Settled == Clean /\ Never({"batchsave"})

Queued(k) == batch.open /\ k \in DOMAIN batch.queued

\* What the saved ledger finds in a journal it finds in index.log.
LiveLocs ==
    \A k \in Published(Recovered.tab) : Recovered.loc[k].kind = "log" =>
       Recovered.loc[k].file = "live" /\ Recovered.loc[k].at \in DOMAIN Sound(log)

\* A dirty entry has its record pending, queued or in a pack, so the journal
\* says where it is; of the others the saved ledger says the same as the open
\* one.  A snapshot is staged with no record left in a journal.
Places ==
    /\ pc \in {"idle", "save"} =>
          /\ \A k \in Published(idx.tab) \ dirty : Recovered.loc[k] = idx.loc[k]
          /\ \A k \in dirty \cap Published(idx.tab) :
                Queued(k) \/ k \in DOMAIN pend \/ idx.loc[k].kind = "pack"
          /\ DOMAIN pend \subseteq dirty
    /\ batch.open => pc = "idle" /\ DOMAIN batch.queued \subseteq dirty
    /\ pc \in {"stage", "retire", "install", "rotate"} =>
          dirty = {} /\ pend = NoRecords /\ \A k \in Keys : idx.loc[k].kind # "log"
    /\ LiveLocs
    /\ Never({"append"}) /\ pc = "idle" => pend = NoRecords /\ \A k \in dirty : Queued(k)

\* What each part of a save does to the open ledger.
LEMMA LargeIs ==
  ASSUME Types, save_large_records
  PROVE  /\ idx'.gen = idx.gen /\ idx'.tab = idx.tab
         /\ \A k \in Keys : idx'.loc[k] = IF k \in DOMAIN pend THEN PackLoc(pend) ELSE idx.loc[k]
<1> DEFINE nloc == [k \in Keys |-> IF k \in DOMAIN pend THEN PackLoc(pend) ELSE idx.loc[k]]
<1>1. idx' = [idx EXCEPT !.loc = nloc]
  BY DEF save_large_records
<1>2. \A k \in Keys : nloc[k] = IF k \in DOMAIN pend THEN PackLoc(pend) ELSE idx.loc[k]
  OBVIOUS
<1> HIDE DEF nloc
<1>3. idx \in Indexes
  BY DEF Types
<1>4. idx'.gen = idx.gen /\ idx'.tab = idx.tab /\ idx'.loc = nloc
  BY <1>1, <1>3 DEF Indexes
<1>5. QED
  BY <1>2, <1>4

\* save_append, likewise.
LEMMA AppendIs ==
  ASSUME Types, save_append
  PROVE  /\ idx'.gen = idx.gen + 1 /\ idx'.tab = idx.tab
         /\ \A k \in Keys : idx'.loc[k] = IF k \in dirty /\ idx.tab[k] # None /\ k \in DOMAIN pend
                                          THEN LogLoc("live", Len(log) + 1) ELSE idx.loc[k]
<1> DEFINE nloc == [k \in Keys |-> IF k \in dirty /\ idx.tab[k] # None /\ k \in DOMAIN pend
                                   THEN LogLoc("live", jb + 1) ELSE idx.loc[k]]
<1>1. idx' = [idx EXCEPT !.gen = idx.gen + 1, !.loc = nloc] /\ jb = Len(log)
  BY DEF save_append, Types
<1>2. \A k \in Keys : nloc[k] = IF k \in dirty /\ idx.tab[k] # None /\ k \in DOMAIN pend
                                THEN LogLoc("live", jb + 1) ELSE idx.loc[k]
  OBVIOUS
<1> HIDE DEF nloc
<1>3. idx \in Indexes
  BY DEF Types
<1>4. idx'.gen = idx.gen + 1 /\ idx'.tab = idx.tab /\ idx'.loc = nloc
  BY <1>1, <1>3 DEF Indexes
<1>5. QED
  BY <1>1, <1>2, <1>4

\* save_move_records, likewise.
LEMMA MoveIs ==
  ASSUME Types, save_move_records
  PROVE  /\ idx'.gen = idx.gen + 1 /\ idx'.tab = idx.tab
         /\ \A k \in Keys : idx'.loc[k] = IF k \in DOMAIN Staged THEN PackLoc(Staged)
                                          ELSE IF idx.loc[k].kind = "log" THEN NoLoc ELSE idx.loc[k]
<1> DEFINE nloc == [k \in Keys |-> IF k \in DOMAIN Staged THEN PackLoc(Staged)
                                   ELSE IF idx.loc[k].kind = "log" THEN NoLoc ELSE idx.loc[k]]
<1>1. idx' = [idx EXCEPT !.gen = idx.gen + 1, !.loc = nloc]
  BY DEF save_move_records
<1>2. \A k \in Keys : nloc[k] = IF k \in DOMAIN Staged THEN PackLoc(Staged)
                                ELSE IF idx.loc[k].kind = "log" THEN NoLoc ELSE idx.loc[k]
  OBVIOUS
<1> HIDE DEF nloc
<1>3. idx \in Indexes
  BY DEF Types
<1>4. idx'.gen = idx.gen + 1 /\ idx'.tab = idx.tab /\ idx'.loc = nloc
  BY <1>1, <1>3 DEF Indexes
<1>5. QED
  BY <1>2, <1>4

\* A snapshot of a ledger without journal records keeps what its published
\* entries say.
LEMMA EncodeKeeps ==
  ASSUME NEW ix \in Indexes, \A k \in Keys : ix.loc[k].kind # "log"
  PROVE  \A k \in Published(ix.tab) : decode_index(encode_index(ix)).loc[k] = ix.loc[k]
<1>1. SUFFICES ASSUME NEW k \in Keys, ix.tab[k] # None
               PROVE  decode_index(encode_index(ix)).loc[k] = ix.loc[k]
  BY DEF Published
<1>2. ix.loc[k] \in Locs /\ ix.loc[k].kind # "log"
  BY DEF Indexes
<1>3. ix.loc[k].kind = "pack" \/ ix.loc[k] = NoLoc
  BY <1>2, LocTyped
<1>4. decode_index(encode_index(ix)).loc[k]
        = IF ix.tab[k] # None /\ ix.loc[k].kind = "pack" THEN ix.loc[k] ELSE NoLoc
  BY DEF decode_index, encode_index
<1>5. QED
  BY <1>1, <1>3, <1>4

\* An open store has no torn record in its journal.
LEMMA OpenIsSound ==
  Whole /\ pc # "down" => Sound(log) = log
  BY DEF Whole, Journal, Sound

\* The same after a step.
LEMMA OpenIsSoundNext ==
  (Whole /\ pc # "down")' => (Sound(log) = log)'
  BY OpenIsSound, PTL

\* A publish inside a batch queues the record.
LEMMA QueueIs ==
  ASSUME Types, NEW k \in Keys, NEW v \in Versions, publish_asset(k, v), batch.open
  PROVE  /\ batch'.open /\ DOMAIN batch'.queued = DOMAIN batch.queued \cup {k}
         /\ \A j \in DOMAIN batch'.queued : batch'.queued[j] = IF j = k THEN v ELSE batch.queued[j]
         /\ idx'.tab = [idx.tab EXCEPT ![k] = v] /\ idx'.loc = idx.loc
         /\ UNCHANGED <<pend, flat, pc>>
<1> DEFINE q == [j \in DOMAIN batch.queued \cup {k} |-> IF j = k THEN v ELSE batch.queued[j]]
           tab == [idx.tab EXCEPT ![k] = v]
<1>1. batch' = [batch EXCEPT !.queued = q] /\ idx' = [idx EXCEPT !.tab = tab]
      /\ UNCHANGED <<pend, flat, pc>>
  BY DEF publish_asset
<1>2. DOMAIN q = DOMAIN batch.queued \cup {k} /\ \A j \in DOMAIN q : q[j] = IF j = k THEN v ELSE batch.queued[j]
  OBVIOUS
<1> HIDE DEF q, tab
<1>3. batch \in [open : {TRUE}, queued : RecordPacks, base : Tables] /\ idx \in Indexes
  BY BatchIs DEF Types
<1>4. batch'.open /\ batch'.queued = q
  BY <1>1, <1>3
<1>5. idx'.tab = tab /\ idx'.loc = idx.loc
  BY <1>1, <1>3 DEF Indexes
<1>6. QED
  BY <1>1, <1>2, <1>4, <1>5 DEF tab

\* A publish outside a batch stages the record.
LEMMA StageIs ==
  ASSUME Types, NEW k \in Keys, NEW v \in Versions, publish_asset(k, v), ~batch.open
  PROVE  /\ idx'.tab = [idx.tab EXCEPT ![k] = v]
         /\ \A j \in Keys : idx'.loc[j] = IF j = k THEN NoLoc ELSE idx.loc[j]
         /\ DOMAIN pend' = DOMAIN pend \cup {k}
         /\ \A j \in DOMAIN pend' : pend'[j] = IF j = k THEN v ELSE pend[j]
         /\ pc' = "save" /\ batch' = batch
         /\ write_asset_records([j \in {k} |-> v], [idx.tab EXCEPT ![k] = v])
<1> DEFINE recs == [j \in {k} |-> v]
           tab == [idx.tab EXCEPT ![k] = v]
<1>1. write_asset_records(recs, tab) /\ pc' = "save" /\ batch' = batch
  BY DEF publish_asset, StartSave
<1>2. recs \in RecordPacks /\ DOMAIN recs = {k} /\ recs[k] = v
  <2>1. {k} \in SUBSET Keys /\ recs \in [{k} -> Versions]
    OBVIOUS
  <2>2. QED
    BY <2>1, PackTyped
<1>3. tab \in Tables
  BY DEF Types, Indexes, Tables
<1> HIDE DEF recs, tab
<1>4. /\ idx'.tab = tab
      /\ \A j \in Keys : idx'.loc[j] = IF j \in DOMAIN recs THEN NoLoc ELSE idx.loc[j]
      /\ DOMAIN pend' = DOMAIN pend \cup DOMAIN recs
      /\ \A j \in DOMAIN pend' : pend'[j] = IF j \in DOMAIN recs THEN recs[j] ELSE pend[j]
  BY <1>1, <1>2, <1>3, WriteIs
<1>5. /\ \A j \in Keys : idx'.loc[j] = IF j = k THEN NoLoc ELSE idx.loc[j]
      /\ DOMAIN pend' = DOMAIN pend \cup {k}
      /\ \A j \in DOMAIN pend' : pend'[j] = IF j = k THEN v ELSE pend[j]
  BY <1>2, <1>4
<1>6. QED
  BY <1>1, <1>4, <1>5 DEF recs, tab

\* The record locations of the open and of the saved ledger keep agreeing.
LEMMA PlacesStep ==
  ASSUME Whole, Table, Places, Whole', Table', [Next]_vars, Settled'
  PROVE  Places'
<1>0. /\ idx \in Indexes /\ idx.tab \in Tables /\ idx' \in Indexes /\ idx'.tab \in Tables
      /\ Recovered \in Indexes /\ Recovered.tab \in Tables
      /\ batch.open \in BOOLEAN /\ NoBatch.open = FALSE /\ dirty \subseteq Keys
      /\ Types /\ Types'
      /\ Never({"append"})' => Never({"append"})
  <2>1. batch \in Batches /\ idx \in Indexes /\ idx' \in Indexes /\ dirty \subseteq Keys
    BY DEF Whole, Types
  <2>2. Recovered \in Indexes
    BY WholeNow
  <2>3. met \subseteq met'
    BY MetGrows
  <2>4. QED
    BY <2>1, <2>2, <2>3, BatchIs DEF Indexes, Never, Whole
<1>1. ASSUME Recovered' = Recovered, Sound(log') = Sound(log)
      PROVE  LiveLocs'
  BY <1>1 DEF Places, LiveLocs, Published
<1>2. CASE UNCHANGED vars
  <2>1. UNCHANGED <<bin, prev, log, logprev, pc, idx, dirty, pend, batch, met>>
    BY <1>2 DEF vars, disk, mem, env
  <2>2. Recovered' = Recovered
    BY <2>1, RecoveredSame
  <2>3. LiveLocs'
    BY <1>1, <2>1, <2>2
  <2>4. QED
    BY <2>1, <2>2, <2>3 DEF Places, Published, Queued, Never
<1>3. CASE open_inner
  <2>1. Recovered' = Recovered /\ idx' = Recovered /\ (~Fresh => log' = Sound(log))
    BY <1>3, OpenEffect, <1>0
  <2>2. pc' = "idle" /\ dirty' = {} /\ pend' = NoRecords /\ batch' = NoBatch
    BY <1>3 DEF open_inner
  <2>3. LiveLocs'
    <3>1. CASE Fresh
      <4>1. Recovered' = EmptyIndex
        BY <2>1, <3>1, WholeNow
      <4>2. Published(Recovered'.tab) = {}
        BY <4>1 DEF EmptyIndex, NoTable, Published
      <4>3. QED
        BY <4>2 DEF LiveLocs, Published
    <3>2. CASE ~Fresh
      <4>1. Sound(log') = log'
        BY <2>2, OpenIsSoundNext
      <4>2. QED
        BY <1>1, <2>1, <3>2, <4>1
    <3>3. QED
      BY <3>1, <3>2
  <2>4. DOMAIN NoRecords = {}
    BY PackTyped
  <2>5. QED
    BY <1>0, <2>1, <2>2, <2>3, <2>4 DEF Places, Published, Queued
<1>4. CASE begin_publish_batch
  <2>1. UNCHANGED <<bin, prev, log, logprev, pc, idx, dirty, pend, met>> /\ pc = "idle" /\ ~batch.open
    BY <1>4 DEF begin_publish_batch, disk, env
  <2>2. batch'.open /\ batch'.queued = NoRecords /\ DOMAIN NoRecords = {}
    BY <1>4, PackTyped DEF begin_publish_batch
  <2>3. Recovered' = Recovered
    BY <2>1, RecoveredSame
  <2>4. LiveLocs'
    BY <1>1, <2>1, <2>3
  <2>5. QED
    BY <2>1, <2>2, <2>3, <2>4 DEF Places, Published, Queued, Never
<1>5. ASSUME NEW k \in Keys, NEW v \in Versions, publish_asset(k, v)
      PROVE  Places'
  <2>1. /\ UNCHANGED <<bin, prev, log, logprev, met>> /\ pc = "idle"
        /\ dirty' = dirty \cup {k}
    BY <1>5 DEF publish_asset, env
  <2>2. Recovered' = Recovered
    BY <2>1, RecoveredSame
  <2>3. LiveLocs'
    BY <1>1, <2>1, <2>2
  <2>4. \A j \in Keys \ {k} : [idx.tab EXCEPT ![k] = v][j] = idx.tab[j]
    BY <1>0 DEF Tables
  <2>5. CASE batch.open
    <3>1. /\ batch'.open /\ DOMAIN batch'.queued = DOMAIN batch.queued \cup {k}
          /\ idx'.tab = [idx.tab EXCEPT ![k] = v] /\ idx'.loc = idx.loc
          /\ UNCHANGED <<pend, flat, pc>>
      BY <1>0, <1>5, <2>5, QueueIs
    <3>2. \A j \in Keys \ {k} : idx'.tab[j] = idx.tab[j]
      BY <2>4, <3>1
    <3>3. QED
      BY <1>0, <2>1, <2>2, <2>3, <2>5, <3>1, <3>2 DEF Places, Published, Queued, Never
  <2>6. CASE ~batch.open
    <3>1. /\ idx'.tab = [idx.tab EXCEPT ![k] = v]
          /\ \A j \in Keys : idx'.loc[j] = IF j = k THEN NoLoc ELSE idx.loc[j]
          /\ DOMAIN pend' = DOMAIN pend \cup {k}
          /\ pc' = "save" /\ batch' = batch
      BY <1>0, <1>5, <2>6, StageIs
    <3>2. \A j \in Keys \ {k} : idx'.tab[j] = idx.tab[j]
      BY <2>4, <3>1
    <3>3. QED
      BY <1>0, <2>1, <2>2, <2>3, <2>6, <3>1, <3>2 DEF Places, Published, Queued, Never
  <2>7. QED
    BY <2>5, <2>6
<1>6. ASSUME NEW b \in BOOLEAN, commit_publish_batch(b)
      PROVE  Places'
  <2>1. /\ UNCHANGED <<bin, prev, log, logprev, met, dirty>> /\ pc = "idle" /\ batch' = NoBatch
        /\ pc' \in {"idle", "save"} /\ batch.open
    BY <1>6 DEF commit_publish_batch, StartSave, env
  <2>2. Recovered' = Recovered
    BY <2>1, RecoveredSame
  <2>3. LiveLocs'
    BY <1>1, <2>1, <2>2
  <2>4. CASE batch.queued # NoRecords
    <3>1. batch.queued \in RecordPacks
      BY <1>0, <2>1, BatchIs DEF Types
    <3>2. write_asset_records(batch.queued, idx.tab) /\ pc' = "save"
      BY <1>6, <2>4 DEF commit_publish_batch, StartSave
    <3>3. /\ idx'.tab = idx.tab
          /\ \A j \in Keys : idx'.loc[j] = IF j \in DOMAIN batch.queued THEN NoLoc ELSE idx.loc[j]
          /\ DOMAIN pend' = DOMAIN pend \cup DOMAIN batch.queued
      BY <1>0, <3>1, <3>2, WriteIs
    <3>4. QED
      BY <1>0, <2>1, <2>2, <2>3, <3>2, <3>3 DEF Places, Published, Queued, Never
  <2>5. CASE batch.queued = NoRecords
    <3>1. UNCHANGED <<pend, idx>> /\ DOMAIN batch.queued = {}
      BY <1>6, <2>5, PackTyped DEF commit_publish_batch
    <3>2. QED
      BY <1>0, <2>1, <2>2, <2>3, <3>1 DEF Places, Published, Queued, Never
  <2>6. QED
    BY <2>4, <2>5
<1>7. ASSUME NEW k \in Keys, unpublish_asset(k)
      PROVE  Places'
  <2>1. /\ UNCHANGED <<bin, prev, log, logprev, pend, batch>> /\ pc = "idle" /\ pc' = "save"
        /\ dirty' = dirty \cup {k}
    BY <1>7 DEF unpublish_asset, StartSave
  <2>2. ~batch.open
    BY <1>7 DEF unpublish_asset, SavesInBatch, Inject, Settled, Never
  <2>3. Recovered' = Recovered
    BY <2>1, RecoveredSame
  <2>4. LiveLocs'
    BY <1>1, <2>1, <2>3
  <2> DEFINE tab == [idx.tab EXCEPT ![k] = None]
  <2>5. idx' = [idx EXCEPT !.tab = tab, !.loc[k] = NoLoc]
    BY <1>7 DEF unpublish_asset
  <2>6. tab[k] = None /\ \A j \in Keys \ {k} : tab[j] = idx.tab[j]
    BY <1>0 DEF Tables
  <2> HIDE DEF tab
  <2>7. idx'.tab = tab /\ \A j \in Keys \ {k} : idx'.loc[j] = idx.loc[j]
    BY <1>0, <2>5 DEF Indexes
  <2>8. QED
    BY <1>0, <2>1, <2>2, <2>3, <2>4, <2>6, <2>7 DEF Places, Published, Queued, Never
<1>8. CASE gc_records
  <2>1. /\ UNCHANGED <<bin, prev, log, logprev, dirty, idx, pend, batch>> /\ pc = "idle" /\ pc' = "save"
    BY <1>8 DEF gc_records, StartSave, mem
  <2>2. ~batch.open
    BY <1>8 DEF gc_records, SavesInBatch, Inject, Settled, Never
  <2>3. Recovered' = Recovered
    BY <2>1, RecoveredSame
  <2>4. LiveLocs'
    BY <1>1, <2>1, <2>3
  <2>5. QED
    BY <2>1, <2>2, <2>3, <2>4 DEF Places, Published, Queued, Never
<1>9. CASE save_large_records
  <2>1. UNCHANGED <<bin, prev, log, logprev, dirty, pc, batch>> /\ pc = "save" /\ pend' = NoRecords
    BY <1>9 DEF save_large_records
  <2>2. Recovered' = Recovered
    BY <2>1, RecoveredSame
  <2>3. LiveLocs'
    BY <1>1, <2>1, <2>2
  <2>4. /\ idx'.tab = idx.tab
        /\ \A k \in Keys : idx'.loc[k] = IF k \in DOMAIN pend THEN PackLoc(pend) ELSE idx.loc[k]
    BY <1>0, <1>9, LargeIs
  <2>5. DOMAIN NoRecords = {} /\ PackLoc(pend).kind = "pack"
    BY PackTyped DEF PackLoc
  <2>6. QED
    BY <1>0, <2>1, <2>2, <2>3, <2>4, <2>5 DEF Places, Published, Queued, Never
<1>10. CASE save_append
  <2>1. /\ UNCHANGED <<bin, prev, logprev, batch>> /\ pc = "save" /\ pc' = "idle" /\ dirty' = {}
        /\ pend' = NoRecords /\ log' = Append(log, JournalRecord) /\ ~batch.open
    BY <1>0, <1>10 DEF save_append, ReturnOk, Places
  <2>2. /\ Len(log) \in Nat /\ Sound(log) = log /\ Sound(log') = log'
        /\ DOMAIN log = 1..Len(log) /\ DOMAIN log' = 1..(Len(log) + 1)
    <3>1. log \in Journals /\ JournalRecord \in JournalRecords
      BY <1>0, JournalRecordIs DEF Types
    <3>2. log \in Seq(JournalRecords) /\ Len(log) \in Nat
      BY <3>1 DEF Journals
    <3>3. Sound(log) = log /\ Sound(log') = log'
      BY <2>1, OpenIsSound, OpenIsSoundNext
    <3>4. QED
      BY <2>1, <3>1, <3>2, <3>3
  <2>3. /\ idx'.tab = idx.tab
        /\ \A k \in Keys : idx'.loc[k] = IF k \in dirty /\ idx.tab[k] # None /\ k \in DOMAIN pend
                                         THEN LogLoc("live", Len(log) + 1) ELSE idx.loc[k]
    BY <1>0, <1>10, AppendIs
  <2>4. /\ \A k \in Keys \ dirty : /\ Recovered'.tab[k] = Recovered.tab[k]
                                   /\ Recovered'.loc[k] = Recovered.loc[k]
        /\ \A k \in dirty :
              /\ Recovered'.tab[k] = idx.tab[k]
              /\ idx.tab[k] = None \/ JournalRecord.upd[k].rec.tag # 0 =>
                    Recovered'.loc[k] = NewLoc(JournalRecord.upd[k], "live", Len(log) + 1)
    <3>1. Recovered.gen = idx.gen
      BY <2>1 DEF Table
    <3>2. QED
      BY <1>0, <1>10, <3>1, AppendEffect
  <2>5. ASSUME NEW k \in Published(idx.tab)
        PROVE  Recovered'.loc[k] = idx'.loc[k]
    <3>1. k \in Keys /\ idx.tab[k] # None
      BY DEF Published
    <3>2. CASE k \notin dirty
      BY <2>1, <2>3, <2>4, <3>1, <3>2 DEF Places
    <3>3. CASE k \in dirty /\ k \in DOMAIN pend
      <4>1. JournalRecord.upd[k].ver = idx.tab[k] /\ JournalRecord.upd[k].rec = Inline(pend[k])
        BY <1>0, <3>1, <3>3, JournalRecordIs
      <4>2. JournalRecord.upd[k].rec.tag = 2
        BY <4>1 DEF Inline
      <4>3. Recovered'.loc[k] = NewLoc(JournalRecord.upd[k], "live", Len(log) + 1)
        BY <2>4, <3>3, <4>2
      <4>4. NewLoc(JournalRecord.upd[k], "live", Len(log) + 1) = LogLoc("live", Len(log) + 1)
        BY <3>1, <4>1, <4>2 DEF NewLoc
      <4>5. QED
        BY <2>3, <3>1, <3>3, <4>3, <4>4
    <3>4. CASE k \in dirty /\ k \notin DOMAIN pend
      <4>1. idx.loc[k].kind = "pack" /\ idx.loc[k] \in Locs
        BY <1>0, <2>1, <3>1, <3>4 DEF Places, Queued, Indexes
      <4>2. JournalRecord.upd[k].ver = idx.tab[k] /\ JournalRecord.upd[k].rec = InPack(idx.loc[k].pack)
        BY <1>0, <3>1, <3>4, <4>1, JournalRecordIs
      <4>3. JournalRecord.upd[k].rec.tag = 1 /\ JournalRecord.upd[k].rec.pack = idx.loc[k].pack
        BY <4>2 DEF InPack
      <4>4. Recovered'.loc[k] = NewLoc(JournalRecord.upd[k], "live", Len(log) + 1)
        BY <2>4, <3>4, <4>3
      <4>5. NewLoc(JournalRecord.upd[k], "live", Len(log) + 1) = PackLoc(idx.loc[k].pack)
        BY <3>1, <4>2, <4>3 DEF NewLoc
      <4>6. idx.loc[k] = PackLoc(idx.loc[k].pack)
        BY <4>1, LocTyped
      <4>7. QED
        BY <2>3, <3>1, <3>4, <4>4, <4>5, <4>6
    <3>5. QED
      BY <3>2, <3>3, <3>4
  <2>6. Recovered'.tab = idx.tab
    BY <1>10, <2>1 DEF Table, save_append, ReturnOk
  <2>7. LiveLocs'
    <3>1. SUFFICES ASSUME NEW k \in Published(idx.tab), idx'.loc[k].kind = "log"
                   PROVE  idx'.loc[k].file = "live" /\ idx'.loc[k].at \in 1..(Len(log) + 1)
      BY <2>2, <2>5, <2>6 DEF LiveLocs, Published
    <3>2. k \in Keys /\ idx.tab[k] # None
      BY DEF Published
    <3>3. CASE k \in dirty /\ k \in DOMAIN pend
      BY <2>2, <2>3, <3>2, <3>3 DEF LogLoc
    <3>4. CASE k \notin dirty
      <4>1. idx'.loc[k] = Recovered.loc[k] /\ Recovered.tab[k] = idx.tab[k]
        BY <2>1, <2>3, <3>2, <3>4 DEF Places, Published, Table
      <4>2. k \in Published(Recovered.tab)
        BY <3>2, <4>1 DEF Published
      <4>3. Recovered.loc[k].file = "live" /\ Recovered.loc[k].at \in 1..Len(log)
        BY <2>2, <3>1, <4>1, <4>2 DEF Places, LiveLocs
      <4>4. QED
        BY <2>2, <4>1, <4>3
    <3>5. CASE k \in dirty /\ k \notin DOMAIN pend
      <4>1. idx.loc[k].kind = "pack"
        BY <1>0, <2>1, <3>2, <3>5 DEF Places, Queued, Published
      <4>2. QED
        BY <2>3, <3>1, <3>2, <3>5, <4>1
    <3>6. QED
      BY <3>3, <3>4, <3>5
  <2>8. DOMAIN NoRecords = {}
    BY PackTyped
  <2>9. QED
    BY <1>0, <2>1, <2>3, <2>5, <2>7, <2>8 DEF Places, Published, Queued
<1>11. CASE save_move_records
  <2>1. /\ UNCHANGED <<bin, prev, log, logprev, batch>> /\ pc = "save" /\ pc' = "stage"
        /\ dirty' = {} /\ pend' = NoRecords
    BY <1>11 DEF save_move_records
  <2>2. Recovered' = Recovered
    BY <2>1, RecoveredSame
  <2>3. LiveLocs'
    BY <1>1, <2>1, <2>2
  <2>4. \A k \in Keys : idx'.loc[k] = IF k \in DOMAIN Staged THEN PackLoc(Staged)
                                      ELSE IF idx.loc[k].kind = "log" THEN NoLoc ELSE idx.loc[k]
    BY <1>0, <1>11, MoveIs
  <2>5. PackLoc(Staged).kind = "pack" /\ NoLoc.kind = "none"
    BY DEF PackLoc, NoLoc
  <2>6. \A k \in Keys : idx'.loc[k].kind # "log"
    BY <2>4, <2>5
  <2>7. QED
    BY <2>1, <2>3, <2>6 DEF Places
<1>12. CASE save_stage
  <2>1. /\ UNCHANGED <<bin, prev, log, logprev, idx, dirty, pend, batch>>
        /\ pc = "stage" /\ pc' = "retire"
    BY <1>12 DEF save_stage, mem
  <2>2. Recovered' = Recovered
    BY <2>1, RecoveredSame
  <2>3. LiveLocs'
    BY <1>1, <2>1, <2>2
  <2>4. QED
    BY <2>1, <2>3 DEF Places
<1>13. CASE save_retire
  <2>1. /\ UNCHANGED <<log, idx, dirty, pend, batch>> /\ pc = "retire" /\ pc' = "install"
    BY <1>13 DEF save_retire, mem
  <2>2. Recovered' = Recovered
    BY <1>0, <1>13, RetireEffect
  <2>3. LiveLocs'
    BY <1>1, <2>1, <2>2
  <2>4. QED
    BY <2>1, <2>3 DEF Places
<1>14. CASE save_install \/ save_rotate
  <2>1. /\ UNCHANGED <<idx, dirty, pend, batch>> /\ pc \in {"install", "rotate"}
        /\ pc' \in {"rotate", "idle"}
    BY <1>14 DEF save_install, save_rotate, mem, ReturnOk
  <2>2. Recovered' = decode_index(encode_index(idx))
    <3>1. CASE save_install
      <4>1. tmp = encode_index(idx) /\ Recovered.gen < idx.gen
        BY <3>1 DEF save_install, Table
      <4>2. QED
        BY <1>0, <3>1, <4>1, InstallEffect
    <3>2. CASE save_rotate
      <4>1. bin = encode_index(idx) /\ \A i \in DOMAIN log : log[i].gen <= bin.gen
        BY <3>2 DEF save_rotate, Table
      <4>2. QED
        BY <1>0, <3>2, <4>1, RotateEffect
    <3>3. QED
      BY <1>14, <3>1, <3>2
  <2>3. dirty = {} /\ pend = NoRecords /\ ~batch.open /\ \A k \in Keys : idx.loc[k].kind # "log"
    BY <1>0, <2>1 DEF Places
  <2>4. \A k \in Published(idx.tab) : Recovered'.loc[k] = idx.loc[k]
    BY <1>0, <2>2, <2>3, EncodeKeeps
  <2>5. Recovered'.tab = idx.tab
    BY <2>2 DEF encode_index, decode_index
  <2>6. LiveLocs'
    BY <2>3, <2>4, <2>5 DEF LiveLocs, Published
  <2>7. DOMAIN NoRecords = {}
    BY PackTyped
  <2>8. QED
    BY <2>1, <2>3, <2>4, <2>6, <2>7 DEF Places, Published
<1>15. CASE append_fails
  <2>1. /\ UNCHANGED <<bin, prev, logprev, idx, dirty, pend, batch>> /\ pc = "save" /\ pc' = "idle"
        /\ ~Never({"append"})'
    BY <1>15 DEF append_fails, ReturnErr, mem, Inject, Never
  <2>2. log' = log
    BY <1>0, <1>15, CutEffect
  <2>3. Recovered' = Recovered
    BY <2>1, <2>2, RecoveredSame
  <2>4. LiveLocs'
    BY <1>1, <2>2, <2>3
  <2>5. QED
    BY <1>0, <2>1, <2>3, <2>4 DEF Places, Published, Queued
<1>16. CASE pack_fails \/ stage_fails \/ bin_rots
  <2>1. met' \cap {"stage", "pack", "rot"} # {}
    BY <1>16 DEF pack_fails, stage_fails, bin_rots, Inject
  <2>2. QED
    BY <2>1 DEF Settled, Clean, Never
<1>17. CASE dies_in_save \/ exits \/ dies_appending
  <2>1. pc' = "down" /\ batch' = NoBatch
    BY <1>17 DEF dies_in_save, exits, dies_appending, Ends
  <2>2. Recovered' = Recovered /\ Sound(log') = Sound(log)
    <3>1. CASE dies_appending
      BY <1>0, <3>1, TearEffect
    <3>2. CASE dies_in_save \/ exits
      BY <3>2, RecoveredSame DEF dies_in_save, exits, Ends
    <3>3. QED
      BY <1>17, <3>1, <3>2
  <2>3. LiveLocs'
    BY <1>1, <2>2
  <2>4. QED
    BY <1>0, <2>1, <2>3 DEF Places
<1>18. QED
  BY <1>2, <1>3, <1>4, <1>5, <1>6, <1>7, <1>8, <1>9, <1>10, <1>11, <1>12, <1>13, <1>14, <1>15,
     <1>16, <1>17 DEF Next, Save, Fault

\* The invariant of the record locations.
PlacesInv == LedgerInv /\ (Settled => Places)

\* It holds of a store that was never opened.
LEMMA PlacesInit ==
  ASSUME Init
  PROVE  PlacesInv
<1>1. LedgerInv
  BY InvInit
<1>2. pc = "down" /\ batch = NoBatch /\ NoBatch.open = FALSE /\ log = <<>>
  BY DEF Init, NoBatch
<1>3. Clean => LiveLocs
  <2>1. SUFFICES ASSUME Clean
                 PROVE  \A k \in Keys : Recovered.loc[k].kind # "log"
    BY DEF LiveLocs, Published
  <2>2. Whole
    BY <1>1, <2>1, InvIsWhole
  <2>3. CASE Fresh
    BY <2>2, <2>3, WholeNow DEF EmptyIndex, NoLoc
  <2>4. CASE ~Fresh
    <3>1. Base = bin /\ bin.loc = [k \in Keys |-> NoLoc]
      BY <2>4 DEF Init, Base, Fresh
    <3>2. Recovered = Replayed /\ decode_index(Base) \in Indexes /\ decode_index(Base).loc = Base.loc
      BY <2>2, <2>4, WholeNow
    <3>3. Replayed = decode_index(Base)
      BY <1>2, <3>2, EmptyJournal DEF Replayed
    <3>4. QED
      BY <3>1, <3>2, <3>3 DEF NoLoc
  <2>5. QED
    BY <2>3, <2>4
<1>4. QED
  BY <1>1, <1>2, <1>3 DEF PlacesInv, Places, Settled

\* And after every step.
LEMMA PlacesKept ==
  ASSUME PlacesInv, [Next]_vars
  PROVE  PlacesInv'
<1>1. LedgerInv'
  BY InvStep DEF PlacesInv
<1>2. ASSUME Settled'
      PROVE  Places'
  <2>1. Settled
    BY <1>2, MetGrows DEF Settled, Clean, Never
  <2>2. Whole /\ Table
    BY <2>1, InvIsWhole DEF PlacesInv, Settled
  <2>3. Whole' /\ Table'
    BY <1>1, <1>2, <2>2, TableStep DEF LedgerInv, Settled
  <2>4. QED
    BY <1>2, <2>1, <2>2, <2>3, PlacesStep DEF PlacesInv
<1>3. QED
  BY <1>1, <1>2 DEF PlacesInv

\* Between operations, a ledger with nothing unsaved is the ledger a reopen
\* would build, record locations included: encode_journal_record and
\* encode_index against apply_journal_record and decode_index.
THEOREM ReopenAlwaysAgrees == Spec => []ReopenAgrees
<1>1. PlacesInv => ReopenAgrees
  <2>1. SUFFICES ASSUME PlacesInv, Settled, pc = "idle", dirty = {}
                 PROVE  /\ Recovered.gen = idx.gen
                        /\ Recovered.tab = idx.tab
                        /\ \A k \in Published(idx.tab) : Recovered.loc[k] = idx.loc[k]
    BY DEF ReopenAgrees, Settled, Clean, Never
  <2>2. Whole /\ Table /\ Places
    BY <2>1, InvIsWhole DEF PlacesInv, Settled
  <2>3. Recovered.gen = idx.gen /\ Recovered.tab = acked /\ \A k \in Keys : idx.tab[k] = acked[k]
    BY <2>1, <2>2 DEF Table
  <2>4. Recovered.tab = idx.tab
    <3>1. acked \in Tables /\ idx.tab \in Tables
      BY <2>2 DEF Whole, Types, Indexes
    <3>2. QED
      BY <2>3, <3>1 DEF Tables
  <2>5. \A k \in Published(idx.tab) : Recovered.loc[k] = idx.loc[k]
    BY <2>1, <2>2 DEF Places
  <2>6. QED
    BY <2>3, <2>4, <2>5
<1>2. Init => PlacesInv
  BY PlacesInit
<1>3. PlacesInv /\ [Next]_vars => PlacesInv'
  BY PlacesKept
<1>4. QED
  BY <1>1, <1>2, <1>3, PTL DEF Spec

-----------------------------------------------------------------------------
(* Every published asset has its record *)

\* read_record_at, of given files.
ReadFrom(k, at, ps, l, lp, fl) ==
    CASE at.kind = "none" -> fl[k]
      [] at.kind = "pack" -> IF at.pack \in ps THEN at.pack[k] ELSE None
      [] at.kind = "log"  ->
           LET m == IF at.file = "live" THEN l ELSE lp
           IN  IF /\ at.at \in DOMAIN m
                  /\ k \in DOMAIN m[at.at].upd
                  /\ m[at.at].upd[k].rec.tag = 2
               THEN m[at.at].upd[k].rec.ver ELSE None

\* They are the same, now and after a step.
LEMMA ReadIs ==
  ASSUME NEW k, NEW at
  PROVE  read_record_at(k, at) = ReadFrom(k, at, packs, log, logprev, flat)
  BY Zenon DEF read_record_at, ReadFrom

\* What can be read stays readable while its pack, its flat copy or its
\* journal record stays.
LEMMA ReadKept ==
  ASSUME NEW k, NEW at \in Locs, NEW ps, NEW l, NEW lp, NEW fl, NEW qs, NEW m, NEW mp, NEW gl,
         ReadFrom(k, at, ps, l, lp, fl) # None,
         at.kind = "none" => gl[k] = fl[k],
         at.kind = "pack" /\ at.pack \in ps => at.pack \in qs,
         at.kind = "log" /\ at.file = "live" /\ at.at \in DOMAIN l =>
            at.at \in DOMAIN m /\ m[at.at] = l[at.at],
         at.kind = "log" /\ at.file # "live" => mp = lp
  PROVE  ReadFrom(k, at, qs, m, mp, gl) = ReadFrom(k, at, ps, l, lp, fl)
<1>1. at.kind \in {"none", "pack", "log"}
  BY LocTyped
<1>2. CASE at.kind = "none"
  BY <1>2 DEF ReadFrom
<1>3. CASE at.kind = "pack"
  <2>1. at.pack \in ps
    BY <1>3 DEF ReadFrom
  <2>2. QED
    BY <1>3, <2>1 DEF ReadFrom
<1>4. CASE at.kind = "log" /\ at.file = "live"
  <2>1. at.at \in DOMAIN l
    BY <1>4 DEF ReadFrom
  <2>2. at.at \in DOMAIN m /\ m[at.at] = l[at.at]
    BY <1>4, <2>1
  <2>3. QED
    BY <1>4, <2>1, <2>2 DEF ReadFrom
<1>5. CASE at.kind = "log" /\ at.file # "live"
  BY <1>5 DEF ReadFrom
<1>6. QED
  BY <1>1, <1>2, <1>3, <1>4, <1>5

\* The record the open store holds of an asset.
HeldRecord(k) == IF Queued(k) THEN batch.queued[k]
                 ELSE IF k \in DOMAIN pend THEN pend[k]
                 ELSE ReadFrom(k, idx.loc[k], packs, log, logprev, flat)

\* The open store holds the record of every published asset, and so does the
\* saved one.
HeldReads  == \A k \in Published(idx.tab) : HeldRecord(k) = idx.tab[k]
SavedReads == \A k \in Published(Recovered.tab) :
                 ReadFrom(k, Recovered.loc[k], packs, log, logprev, flat) = Recovered.tab[k]

\* The store was interrupted in one way only, and one append failed at most.
Interrupted == met \subseteq {"midsave"}
Steady == \/ Interrupted
          \/ /\ met \subseteq {"append", "midsave", "upgrade"}
             /\ \A a, b \in met : a = b
             /\ faults <= 1

\* While a save is under way, the saved ledger can miss the record of an asset
\* that a failed publish left dirty, or a flat record it no longer needs.
Reads ==
    /\ "append" \in met => faults >= 1
    /\ Never({"upgrade"}) => flat = NoTable
    /\ Steady /\ pc # "down" => HeldReads
    /\ Steady /\ (pc \in {"idle", "down"} \/ Interrupted) => SavedReads

\* A store that stays steady was steady.
LEMMA SteadyBack ==
  ASSUME Types, [Next]_vars, Steady'
  PROVE  Steady /\ Settled' /\ (Interrupted' => Interrupted)
<1>1. met \subseteq met'
  BY MetGrows
<1>2. faults \in Nat /\ faults' \in Nat /\ faults <= faults'
  <2>1. faults \in Nat
    BY DEF Types
  <2>2. faults' = faults \/ faults' = faults + 1
    BY DEF Next, vars, env, open_inner, begin_publish_batch, publish_asset, commit_publish_batch,
           unpublish_asset, gc_records, SavesInBatch, Inject, Save, save_large_records, save_append,
           save_move_records, save_stage, save_retire, save_install, save_rotate, Fault,
           append_fails, pack_fails, stage_fails, bin_rots, dies_in_save, dies_appending, exits, Ends
  <2>3. QED
    BY <2>1, <2>2
<1>3. QED
  BY <1>1, <1>2 DEF Steady, Interrupted, Settled, Clean, Never

\* The flat records of a store born with the journal are none.
LEMMA FlatStep ==
  ASSUME Types, flat = NoTable, [Next]_vars
  PROVE  flat' = NoTable
<1>1. \A k \in Keys : flat[k] = None
  BY DEF NoTable
<1>2. ASSUME NEW recs, NEW tab, write_asset_records(recs, tab)
      PROVE  flat' = NoTable
  BY <1>1, <1>2 DEF write_asset_records, NoTable
<1>3. ASSUME NEW k \in Keys, NEW v \in Versions, publish_asset(k, v)
      PROVE  flat' = NoTable
  BY <1>2, <1>3 DEF publish_asset
<1>4. ASSUME NEW b \in BOOLEAN, commit_publish_batch(b)
      PROVE  flat' = NoTable
  BY <1>2, <1>4 DEF commit_publish_batch
<1>5. ASSUME NEW k \in Keys, unpublish_asset(k)
      PROVE  flat' = NoTable
  BY <1>1, <1>5 DEF unpublish_asset, NoTable
<1>6. CASE Save
  BY <1>6 DEF Save, save_large_records, save_append, save_move_records, save_stage, save_retire,
              save_install, save_rotate
<1>7. CASE Fault \/ exits
  BY <1>7 DEF Fault, append_fails, pack_fails, stage_fails, bin_rots, dies_in_save, dies_appending,
              exits, Ends, disk
<1>8. CASE open_inner \/ begin_publish_batch \/ gc_records \/ UNCHANGED vars
  BY <1>8 DEF open_inner, begin_publish_batch, gc_records, vars, disk
<1>9. QED
  BY <1>3, <1>4, <1>5, <1>6, <1>7, <1>8 DEF Next

\* When a save is done, the saved ledger is the open one.
LEMMA SavedFromHeld ==
  ASSUME HeldReads', pend' = NoRecords, batch'.open = FALSE,
         Recovered'.tab = idx'.tab,
         \A k \in Published(idx'.tab) : Recovered'.loc[k] = idx'.loc[k]
  PROVE  SavedReads'
<1>1. DOMAIN pend' = {}
  BY PackTyped
<1>2. SUFFICES ASSUME NEW k \in Published(idx'.tab)
               PROVE  ReadFrom(k, idx'.loc[k], packs', log', logprev', flat') = idx'.tab[k]
  BY DEF SavedReads, Published
<1>3. HeldRecord(k)' = idx'.tab[k]
  BY DEF HeldReads, Published
<1>4. QED
  BY <1>1, <1>3 DEF HeldRecord, Queued

\* A step keeps the record of k that is at `at'.
Keeps(k, at) ==
    /\ at.kind = "none" => flat'[k] = flat[k]
    /\ at.kind = "pack" /\ at.pack \in packs => at.pack \in packs'
    /\ at.kind = "log" /\ at.file = "live" /\ at.at \in DOMAIN log =>
          at.at \in DOMAIN log' /\ log'[at.at] = log[at.at]
    /\ at.kind = "log" /\ at.file # "live" => logprev' = logprev

\* A record that was read and is kept reads the same.
LEMMA ReadAfter ==
  ASSUME NEW k, NEW at \in Locs, Keeps(k, at),
         ReadFrom(k, at, packs, log, logprev, flat) # None
  PROVE  ReadFrom(k, at, packs', log', logprev', flat') = ReadFrom(k, at, packs, log, logprev, flat)
  BY ReadKept DEF Keeps

\* The saved ledger keeps its records when its ledger and they stay.
LEMMA SavedKept ==
  ASSUME SavedReads, Recovered \in Indexes, Recovered' = Recovered,
         \A k \in Published(Recovered.tab) : Keeps(k, Recovered.loc[k])
  PROVE  SavedReads'
<1>1. SUFFICES ASSUME NEW k \in Published(Recovered.tab)
               PROVE  ReadFrom(k, Recovered.loc[k], packs', log', logprev', flat') = Recovered.tab[k]
  BY DEF SavedReads, Published
<1>2. k \in Keys /\ Recovered.tab[k] # None /\ Recovered.loc[k] \in Locs
  BY DEF Published, Indexes
<1>3. ReadFrom(k, Recovered.loc[k], packs, log, logprev, flat) = Recovered.tab[k]
  BY DEF SavedReads
<1>4. QED
  BY <1>2, <1>3, ReadAfter

\* Steps that only add to the packs or to the journal keep every record.
LEMMA GrowKeeps ==
  ASSUME NEW k, NEW at, packs \subseteq packs', logprev' = logprev, flat' = flat,
         \A i \in DOMAIN log : i \in DOMAIN log' /\ log'[i] = log[i]
  PROVE  Keeps(k, at)
  BY DEF Keeps

\* An asset whose record was neither queued nor pending before or after keeps it
\* where the open ledger says it is.
LEMMA HeldKept ==
  ASSUME Types, NEW k \in Keys, idx.tab[k] # None, HeldRecord(k) = idx.tab[k],
         ~Queued(k), k \notin DOMAIN pend, ~Queued(k)', k \notin DOMAIN pend',
         idx'.loc[k] = idx.loc[k], Keeps(k, idx.loc[k])
  PROVE  HeldRecord(k)' = idx.tab[k]
<1>1. idx.loc[k] \in Locs
  BY DEF Types, Indexes
<1>2. ReadFrom(k, idx.loc[k], packs, log, logprev, flat) = idx.tab[k]
  BY DEF HeldRecord
<1>3. ReadFrom(k, idx.loc[k], packs', log', logprev', flat') = idx.tab[k]
  BY <1>1, <1>2, ReadAfter
<1>4. QED
  BY <1>3 DEF HeldRecord

\* A step that moves no record leaves every published asset its record.
LEMMA HeldSame ==
  ASSUME Types, HeldReads, UNCHANGED <<idx, pend, batch>>,
         \A k \in Published(idx.tab) : Keeps(k, idx.loc[k])
  PROVE  HeldReads'
<1>1. SUFFICES ASSUME NEW k \in Keys, idx.tab[k] # None
               PROVE  HeldRecord(k)' = idx.tab[k]
  BY DEF HeldReads, Published
<1>2. HeldRecord(k) = idx.tab[k] /\ Keeps(k, idx.loc[k])
  BY <1>1 DEF HeldReads, Published
<1>3. Queued(k)' <=> Queued(k)
  BY DEF Queued
<1>4. CASE Queued(k) \/ k \in DOMAIN pend
  BY <1>2, <1>3, <1>4 DEF HeldRecord
<1>5. CASE ~(Queued(k) \/ k \in DOMAIN pend)
  BY <1>1, <1>2, <1>3, <1>5, HeldKept
<1>6. QED
  BY <1>4, <1>5

\* write_asset_records keeps the flat copies of the other assets.
LEMMA WriteKeeps ==
  ASSUME Types, NEW recs, NEW tab, write_asset_records(recs, tab), NEW k \in Keys, k \notin DOMAIN recs,
         UNCHANGED <<packs, log, logprev>>, NEW at
  PROVE  Keeps(k, at)
<1>1. flat'[k] = flat[k]
  BY DEF write_asset_records
<1>2. QED
  BY <1>1 DEF Keeps

\* After every step the open store holds the record of every published asset.
LEMMA HeldStep ==
  ASSUME Whole, Table, Places, Whole', [Next]_vars, Settled', Steady, Reads, pc' # "down"
  PROVE  HeldReads'
<1>0. /\ Types /\ idx \in Indexes /\ idx.tab \in Tables /\ idx.loc \in [Keys -> Locs]
      /\ batch.open \in BOOLEAN /\ NoBatch.open = FALSE /\ DOMAIN NoRecords = {} /\ dirty \subseteq Keys
      /\ NoLoc.kind = "none"
      /\ None \notin Versions
  <2>1. Types /\ idx \in Indexes /\ batch \in Batches /\ dirty \subseteq Keys
    BY DEF Whole, Types
  <2>2. QED
    BY <2>1, BatchIs, PackTyped, LedgerAssumption DEF Indexes, NoLoc
<1>1. pc # "down" => HeldReads
  BY DEF Reads
<1>2. ASSUME UNCHANGED <<idx, pend, batch, packs, log, logprev, flat>>, pc # "down"
      PROVE  HeldReads'
  BY <1>0, <1>1, <1>2, HeldSame, GrowKeeps
<1>3. CASE UNCHANGED vars
  BY <1>2, <1>3 DEF vars, disk, mem
<1>4. CASE open_inner
  <2>1. Recovered' = Recovered /\ idx' = Recovered /\ (~Fresh => log' = Sound(log) /\ logprev' = logprev)
    BY <1>4, OpenEffect DEF Whole
  <2>2. pc = "down" /\ pc' = "idle" /\ pend' = NoRecords /\ batch' = NoBatch /\ UNCHANGED <<packs, flat>>
    BY <1>4 DEF open_inner
  <2>3. SavedReads
    BY <2>2 DEF Reads
  <2>4. CASE Fresh
    <3>1. idx' = EmptyIndex
      BY <2>1, <2>4, WholeNow
    <3>2. Published(idx'.tab) = {}
      BY <3>1 DEF EmptyIndex, NoTable, Published
    <3>3. QED
      BY <3>2 DEF HeldReads, Published
  <2>5. CASE ~Fresh
    <3>1. SUFFICES ASSUME NEW k \in Published(Recovered.tab)
                   PROVE  HeldRecord(k)' = Recovered.tab[k]
      BY <2>1 DEF HeldReads, Published
    <3>2. Recovered \in Indexes
      BY WholeNow
    <3>3. k \in Keys /\ Recovered.tab[k] # None /\ Recovered.loc[k] \in Locs
      BY <3>2 DEF Published, Indexes
    <3>4. Recovered.loc[k].kind = "log" =>
             Recovered.loc[k].file = "live" /\ Recovered.loc[k].at \in DOMAIN Sound(log)
      BY DEF Places, LiveLocs
    <3>5. \A i \in DOMAIN Sound(log) : Sound(log)[i] = log[i]
      <4>1. CASE Torn(log)
        <5>1. /\ Len(log) \in Nat /\ Sound(log) \in Journals /\ Len(Sound(log)) = Len(log) - 1
              /\ \A j \in 1..(Len(log) - 1) : log[j] = Sound(log)[j]
          BY <1>0, <4>1, SoundIs DEF Types
        <5>2. DOMAIN Sound(log) = 1..(Len(log) - 1)
          BY <5>1 DEF Journals
        <5>3. QED
          BY <5>1, <5>2
      <4>2. CASE ~Torn(log)
        BY <4>2 DEF Sound
      <4>3. QED
        BY <4>1, <4>2
    <3>6. Keeps(k, Recovered.loc[k])
      BY <2>1, <2>2, <2>5, <3>4, <3>5 DEF Keeps
    <3>7. ReadFrom(k, Recovered.loc[k], packs, log, logprev, flat) = Recovered.tab[k]
      BY <2>3 DEF SavedReads
    <3>8. ReadFrom(k, Recovered.loc[k], packs', log', logprev', flat') = Recovered.tab[k]
      BY <3>3, <3>6, <3>7, ReadAfter
    <3>9. QED
      BY <1>0, <2>1, <2>2, <3>8 DEF HeldRecord, Queued
  <2>6. QED
    BY <2>4, <2>5
<1>5. CASE begin_publish_batch
  <2>1. /\ UNCHANGED <<packs, log, logprev, flat, idx, pend>> /\ pc = "idle" /\ ~batch.open
        /\ batch'.open /\ batch'.queued = NoRecords
    BY <1>5 DEF begin_publish_batch, disk
  <2>2. \A k \in Keys : ~Queued(k) /\ ~Queued(k)'
    BY <1>0, <2>1 DEF Queued
  <2>3. \A k \in Keys : HeldRecord(k)' = HeldRecord(k)
    BY <2>1, <2>2 DEF HeldRecord
  <2>4. QED
    BY <1>1, <2>1, <2>3 DEF HeldReads, Published
<1>6. ASSUME NEW k \in Keys, NEW v \in Versions, publish_asset(k, v)
      PROVE  HeldReads'
  <2>1. UNCHANGED <<packs, log, logprev>> /\ pc = "idle"
    BY <1>6 DEF publish_asset
  <2>2. /\ [idx.tab EXCEPT ![k] = v][k] = v
        /\ \A j \in Keys \ {k} : [idx.tab EXCEPT ![k] = v][j] = idx.tab[j]
    BY <1>0 DEF Tables
  <2>3. CASE batch.open
    <3>1. /\ batch'.open /\ DOMAIN batch'.queued = DOMAIN batch.queued \cup {k}
          /\ \A j \in DOMAIN batch'.queued : batch'.queued[j] = IF j = k THEN v ELSE batch.queued[j]
          /\ idx'.tab = [idx.tab EXCEPT ![k] = v] /\ idx'.loc = idx.loc
          /\ UNCHANGED <<pend, flat>>
      BY <1>0, <1>6, <2>3, QueueIs
    <3>2. HeldRecord(k)' = v
      BY <3>1 DEF HeldRecord, Queued
    <3>3. \A j \in Keys \ {k} : HeldRecord(j)' = HeldRecord(j)
      BY <2>1, <2>3, <3>1 DEF HeldRecord, Queued
    <3>4. idx'.tab[k] = v /\ \A j \in Keys \ {k} : idx'.tab[j] = idx.tab[j]
      BY <2>2, <3>1
    <3>5. QED
      BY <1>1, <2>1, <3>2, <3>3, <3>4 DEF HeldReads, Published
  <2>4. CASE ~batch.open
    <3>1. /\ idx'.tab = [idx.tab EXCEPT ![k] = v]
          /\ \A j \in Keys : idx'.loc[j] = IF j = k THEN NoLoc ELSE idx.loc[j]
          /\ DOMAIN pend' = DOMAIN pend \cup {k}
          /\ \A j \in DOMAIN pend' : pend'[j] = IF j = k THEN v ELSE pend[j]
          /\ batch' = batch
          /\ write_asset_records([j \in {k} |-> v], [idx.tab EXCEPT ![k] = v])
      BY <1>0, <1>6, <2>4, StageIs
    <3>2. \A j \in Keys : ~Queued(j) /\ ~Queued(j)'
      BY <2>4, <3>1 DEF Queued
    <3>3. HeldRecord(k)' = v
      BY <3>1, <3>2 DEF HeldRecord
    <3>4. idx'.tab[k] = v /\ \A j \in Keys \ {k} : idx'.tab[j] = idx.tab[j]
      BY <2>2, <3>1
    <3>5. ASSUME NEW j \in Keys, j # k, idx.tab[j] # None
          PROVE  HeldRecord(j)' = idx.tab[j]
      <4>1. HeldRecord(j) = idx.tab[j]
        BY <1>1, <2>1, <3>5 DEF HeldReads, Published
      <4>2. CASE j \in DOMAIN pend
        BY <3>1, <3>2, <3>5, <4>1, <4>2 DEF HeldRecord
      <4>3. CASE j \notin DOMAIN pend
        <5>1. Keeps(j, idx.loc[j])
          BY <1>0, <2>1, <3>1, <3>5, WriteKeeps
        <5>2. QED
          BY <1>0, <3>1, <3>2, <3>5, <4>1, <4>3, <5>1, HeldKept
      <4>4. QED
        BY <4>2, <4>3
    <3>6. QED
      BY <3>3, <3>4, <3>5 DEF HeldReads, Published
  <2>5. QED
    BY <2>3, <2>4
<1>7. ASSUME NEW b \in BOOLEAN, commit_publish_batch(b)
      PROVE  HeldReads'
  <2>1. UNCHANGED <<packs, log, logprev>> /\ pc = "idle" /\ batch' = NoBatch /\ batch.open
    BY <1>7 DEF commit_publish_batch
  <2>2. CASE batch.queued # NoRecords
    <3>1. batch.queued \in RecordPacks
      BY <1>0, <2>1, BatchIs DEF Types
    <3>2. write_asset_records(batch.queued, idx.tab)
      BY <1>7, <2>2 DEF commit_publish_batch
    <3>3. /\ idx'.tab = idx.tab
          /\ \A j \in Keys : idx'.loc[j] = IF j \in DOMAIN batch.queued THEN NoLoc ELSE idx.loc[j]
          /\ DOMAIN pend' = DOMAIN pend \cup DOMAIN batch.queued
          /\ \A j \in DOMAIN pend' : pend'[j] = IF j \in DOMAIN batch.queued THEN batch.queued[j] ELSE pend[j]
      BY <1>0, <3>1, <3>2, WriteIs
    <3>4. \A j \in Keys : ~Queued(j)'
      BY <1>0, <2>1 DEF Queued
    <3>5. ASSUME NEW j \in Keys, idx.tab[j] # None
          PROVE  HeldRecord(j)' = idx.tab[j]
      <4>1. HeldRecord(j) = idx.tab[j]
        BY <1>1, <2>1, <3>5 DEF HeldReads, Published
      <4>2. CASE j \in DOMAIN batch.queued \/ j \in DOMAIN pend
        BY <2>1, <3>3, <3>4, <4>1, <4>2 DEF HeldRecord, Queued
      <4>3. CASE j \notin DOMAIN batch.queued /\ j \notin DOMAIN pend
        <5>1. Keeps(j, idx.loc[j])
          BY <1>0, <2>1, <3>2, <4>3, WriteKeeps
        <5>2. ~Queued(j)
          BY <4>3 DEF Queued
        <5>3. QED
          BY <1>0, <3>3, <3>4, <3>5, <4>1, <4>3, <5>1, <5>2, HeldKept
      <4>4. QED
        BY <4>2, <4>3
    <3>6. QED
      BY <3>3, <3>5 DEF HeldReads, Published
  <2>3. CASE batch.queued = NoRecords
    <3>1. UNCHANGED <<pend, idx, flat>>
      BY <1>7, <2>3 DEF commit_publish_batch
    <3>2. \A j \in Keys : ~Queued(j) /\ ~Queued(j)'
      BY <1>0, <2>1, <2>3 DEF Queued
    <3>3. \A j \in Keys : HeldRecord(j)' = HeldRecord(j)
      BY <2>1, <3>1, <3>2 DEF HeldRecord
    <3>4. QED
      BY <1>1, <2>1, <3>1, <3>3 DEF HeldReads, Published
  <2>4. QED
    BY <2>2, <2>3
<1>8. ASSUME NEW k \in Keys, unpublish_asset(k)
      PROVE  HeldReads'
  <2>1. /\ UNCHANGED <<packs, log, logprev, pend, batch>> /\ pc = "idle"
        /\ flat' = [flat EXCEPT ![k] = None]
    BY <1>8 DEF unpublish_asset
  <2> DEFINE tab == [idx.tab EXCEPT ![k] = None]
  <2>2. idx' = [idx EXCEPT !.tab = tab, !.loc[k] = NoLoc]
    BY <1>8 DEF unpublish_asset
  <2>3. tab[k] = None /\ \A j \in Keys \ {k} : tab[j] = idx.tab[j]
    BY <1>0 DEF Tables
  <2> HIDE DEF tab
  <2>4. idx'.tab = tab /\ \A j \in Keys \ {k} : idx'.loc[j] = idx.loc[j]
    BY <1>0, <2>2 DEF Indexes
  <2>5. \A j \in Keys \ {k} : flat'[j] = flat[j]
    BY <1>0, <2>1 DEF Types, Tables
  <2>6. \A j \in Keys \ {k} : HeldRecord(j)' = HeldRecord(j)
    <3>1. SUFFICES ASSUME NEW j \in Keys \ {k}
                   PROVE  HeldRecord(j)' = HeldRecord(j)
      OBVIOUS
    <3>2. ReadFrom(j, idx'.loc[j], packs', log', logprev', flat')
            = ReadFrom(j, idx.loc[j], packs, log, logprev, flat)
      BY <2>1, <2>4, <2>5 DEF ReadFrom
    <3>3. QED
      BY <2>1, <3>2 DEF HeldRecord, Queued
  <2>7. QED
    BY <1>1, <2>1, <2>3, <2>4, <2>6 DEF HeldReads, Published
<1>9. CASE gc_records
  <2>1. /\ UNCHANGED <<log, logprev, flat, idx, pend, batch>> /\ pc = "idle"
        /\ packs' = {p \in packs : \E k \in Keys : idx.loc[k] = PackLoc(p)}
    BY <1>9 DEF gc_records, mem
  <2>2. ASSUME NEW k \in Keys
        PROVE  Keeps(k, idx.loc[k])
    <3>1. idx.loc[k].kind = "pack" => idx.loc[k] = PackLoc(idx.loc[k].pack)
      BY <1>0, LocTyped
    <3>2. QED
      BY <2>1, <3>1 DEF Keeps
  <2>3. QED
    BY <1>0, <1>1, <2>1, <2>2, HeldSame DEF Published
<1>10. CASE save_large_records
  <2>1. /\ UNCHANGED <<log, logprev, flat, batch>> /\ pc = "save" /\ pend' = NoRecords
        /\ packs' = packs \cup {pend}
    BY <1>10 DEF save_large_records
  <2>2. /\ idx'.tab = idx.tab
        /\ \A k \in Keys : idx'.loc[k] = IF k \in DOMAIN pend THEN PackLoc(pend) ELSE idx.loc[k]
    BY <1>0, <1>10, LargeIs
  <2>3. \A k \in Keys : ~Queued(k) /\ ~Queued(k)'
    BY <2>1 DEF Queued, Places
  <2>4. SUFFICES ASSUME NEW k \in Keys, idx.tab[k] # None
                 PROVE  HeldRecord(k)' = idx.tab[k]
    BY <2>2 DEF HeldReads, Published
  <2>5. HeldRecord(k) = idx.tab[k]
    BY <1>1, <2>1, <2>4 DEF HeldReads, Published
  <2>6. CASE k \in DOMAIN pend
    <3>1. pend[k] = idx.tab[k]
      BY <2>3, <2>5, <2>6 DEF HeldRecord
    <3>2. ReadFrom(k, PackLoc(pend), packs', log', logprev', flat') = pend[k]
      BY <2>1 DEF ReadFrom, PackLoc
    <3>3. QED
      BY <1>0, <2>1, <2>2, <2>3, <2>6, <3>1, <3>2 DEF HeldRecord
  <2>7. CASE k \notin DOMAIN pend
    <3>1. Keeps(k, idx.loc[k])
      BY <2>1, GrowKeeps
    <3>2. QED
      BY <1>0, <2>1, <2>2, <2>3, <2>4, <2>5, <2>7, <3>1, HeldKept
  <2>8. QED
    BY <2>6, <2>7
<1>11. CASE save_append
  <2>1. /\ UNCHANGED <<packs, logprev, flat, batch>> /\ pc = "save" /\ pend' = NoRecords
        /\ log' = Append(log, JournalRecord)
    BY <1>11 DEF save_append
  <2>2. /\ idx'.tab = idx.tab
        /\ \A k \in Keys : idx'.loc[k] = IF k \in dirty /\ idx.tab[k] # None /\ k \in DOMAIN pend
                                         THEN LogLoc("live", Len(log) + 1) ELSE idx.loc[k]
    BY <1>0, <1>11, AppendIs
  <2>3. /\ Len(log) \in Nat /\ Len(log) + 1 \in DOMAIN log' /\ log'[Len(log) + 1] = JournalRecord
        /\ \A i \in DOMAIN log : i \in DOMAIN log' /\ log'[i] = log[i]
    <3>1. log \in Seq(JournalRecords) /\ JournalRecord \in JournalRecords
      BY <1>0, JournalRecordIs DEF Types, Journals
    <3>2. QED
      BY <2>1, <3>1
  <2>4. \A k \in Keys : ~Queued(k) /\ ~Queued(k)'
    BY <2>1 DEF Queued, Places
  <2>5. SUFFICES ASSUME NEW k \in Keys, idx.tab[k] # None
                 PROVE  HeldRecord(k)' = idx.tab[k]
    BY <2>2 DEF HeldReads, Published
  <2>6. HeldRecord(k) = idx.tab[k]
    BY <1>1, <2>1, <2>5 DEF HeldReads, Published
  <2>7. CASE k \in DOMAIN pend
    <3>1. pend[k] = idx.tab[k] /\ k \in dirty
      BY <2>1, <2>4, <2>6, <2>7 DEF HeldRecord, Places
    <3>2. /\ DOMAIN JournalRecord.upd = dirty
          /\ JournalRecord.upd[k].rec = Inline(pend[k])
      BY <1>0, <2>5, <2>7, <3>1, JournalRecordIs
    <3>3. JournalRecord.upd[k].rec.tag = 2 /\ JournalRecord.upd[k].rec.ver = pend[k]
      BY <3>2 DEF Inline
    <3>4. ReadFrom(k, LogLoc("live", Len(log) + 1), packs', log', logprev', flat') = pend[k]
      BY <2>3, <3>1, <3>2, <3>3 DEF ReadFrom, LogLoc
    <3>5. QED
      BY <1>0, <2>1, <2>2, <2>4, <2>5, <2>7, <3>1, <3>4 DEF HeldRecord
  <2>8. CASE k \notin DOMAIN pend
    <3>1. Keeps(k, idx.loc[k])
      BY <2>1, <2>3, GrowKeeps
    <3>2. QED
      BY <1>0, <2>1, <2>2, <2>4, <2>5, <2>6, <2>8, <3>1, HeldKept
  <2>9. QED
    BY <2>7, <2>8
<1>12. CASE save_move_records
  <2>1. /\ UNCHANGED <<log, logprev, flat, batch>> /\ pc = "save" /\ pend' = NoRecords
        /\ packs' = IF Staged = NoRecords THEN packs ELSE packs \cup {Staged}
    BY <1>12 DEF save_move_records
  <2>2. /\ idx'.tab = idx.tab
        /\ \A k \in Keys : idx'.loc[k] = IF k \in DOMAIN Staged THEN PackLoc(Staged)
                                         ELSE IF idx.loc[k].kind = "log" THEN NoLoc ELSE idx.loc[k]
    BY <1>0, <1>12, MoveIs
  <2>3. \A k \in Keys : ~Queued(k) /\ ~Queued(k)'
    BY <2>1 DEF Queued, Places
  <2>4. SUFFICES ASSUME NEW k \in Keys, idx.tab[k] # None
                 PROVE  HeldRecord(k)' = idx.tab[k]
    BY <2>2 DEF HeldReads, Published
  <2>5. HeldRecord(k) = idx.tab[k]
    BY <1>1, <2>1, <2>4 DEF HeldReads, Published
  <2>6. CASE k \in DOMAIN Staged
    <3>1. Staged[k] = IF k \in DOMAIN pend THEN pend[k] ELSE read_record_at(k, idx.loc[k])
      BY <1>0, <2>6, StagedIs
    <3>2. read_record_at(k, idx.loc[k]) = ReadFrom(k, idx.loc[k], packs, log, logprev, flat)
      BY ReadIs
    <3>3. Staged[k] = idx.tab[k]
      BY <2>3, <2>5, <3>1, <3>2 DEF HeldRecord
    <3>4. Staged \in packs'
      BY <1>0, <2>1, <2>6
    <3>5. ReadFrom(k, PackLoc(Staged), packs', log', logprev', flat') = Staged[k]
      BY <3>4 DEF ReadFrom, PackLoc
    <3>6. QED
      BY <1>0, <2>1, <2>2, <2>3, <2>6, <3>3, <3>5 DEF HeldRecord
  <2>7. CASE k \notin DOMAIN Staged
    <3>1. k \notin DOMAIN pend
      BY <1>0, <2>7, StagedIs
    <3>2. ReadFrom(k, idx.loc[k], packs, log, logprev, flat) = idx.tab[k]
      BY <2>3, <2>5, <3>1 DEF HeldRecord
    <3>3. read_record_at(k, idx.loc[k]) # None
      BY <2>4, <3>2, ReadIs
    <3>4. idx.loc[k].kind # "log"
      BY <1>0, <2>7, <3>3, StagedIs
    <3>5. Keeps(k, idx.loc[k])
      BY <2>1, GrowKeeps
    <3>6. QED
      BY <1>0, <2>1, <2>2, <2>3, <2>4, <2>5, <2>7, <3>1, <3>4, <3>5, HeldKept
  <2>8. QED
    BY <2>6, <2>7
<1>13. CASE save_stage \/ save_retire \/ save_install
  BY <1>2, <1>13 DEF save_stage, save_retire, save_install, mem
<1>14. CASE save_rotate
  <2>1. UNCHANGED <<packs, flat, idx, pend, batch>> /\ pc = "rotate"
    BY <1>14 DEF save_rotate
  <2>2. \A k \in Keys : Keeps(k, idx.loc[k])
    BY <2>1 DEF Places, Keeps
  <2>3. QED
    BY <1>0, <1>1, <2>1, <2>2, HeldSame DEF Published
<1>15. CASE append_fails
  <2>1. log' = log
    BY <1>0, <1>15, CutEffect
  <2>2. QED
    BY <1>2, <1>15, <2>1 DEF append_fails, mem
<1>16. CASE pack_fails \/ stage_fails \/ bin_rots
  <2>1. met' \cap {"stage", "pack", "rot"} # {}
    BY <1>16 DEF pack_fails, stage_fails, bin_rots, Inject
  <2>2. QED
    BY <2>1 DEF Settled, Clean, Never
<1>17. CASE dies_in_save \/ exits \/ dies_appending
  BY <1>17 DEF dies_in_save, exits, dies_appending, Ends
<1>18. QED
  BY <1>3, <1>4, <1>5, <1>6, <1>7, <1>8, <1>9, <1>10, <1>11, <1>12, <1>13, <1>14, <1>15,
     <1>16, <1>17 DEF Next, Save, Fault

\* And so does the ledger that the next open would find.
LEMMA SavedStep ==
  ASSUME Whole, Table, Places, Whole', Table', Places', [Next]_vars, Settled', Steady, Steady', Reads,
         Interrupted' => Interrupted,
         pc' # "down" => HeldReads',
         Never({"upgrade"})' => flat = NoTable /\ flat' = NoTable,
         pc' \in {"idle", "down"} \/ Interrupted'
  PROVE  SavedReads'
<1>0. /\ Types /\ Types' /\ idx \in Indexes /\ idx.tab \in Tables /\ acked \in Tables
      /\ Recovered \in Indexes /\ Recovered.tab \in Tables
      /\ batch.open \in BOOLEAN /\ NoBatch.open = FALSE
      /\ Interrupted' => flat' = flat
  <2>1. Recovered \in Indexes
    BY WholeNow
  <2>2. QED
    BY <2>1, BatchIs DEF Whole, Types, Indexes, Interrupted, Never
<1>1. ASSUME Recovered' = Recovered, pc \in {"idle", "down"} \/ Interrupted,
             packs \subseteq packs', logprev' = logprev, flat' = flat,
             \A i \in DOMAIN log : i \in DOMAIN log' /\ log'[i] = log[i]
      PROVE  SavedReads'
  <2>1. SavedReads
    BY <1>1 DEF Reads
  <2>2. \A k \in Published(Recovered.tab) : Keeps(k, Recovered.loc[k])
    BY <1>1, GrowKeeps
  <2>3. QED
    BY <1>0, <1>1, <2>1, <2>2, SavedKept
<1>2. CASE UNCHANGED vars
  <2>1. UNCHANGED <<bin, prev, log, logprev, packs, flat, pc, met>>
    BY <1>2 DEF vars, disk, env
  <2>2. Recovered' = Recovered
    BY <2>1, RecoveredSame
  <2>3. QED
    BY <1>1, <2>1, <2>2
<1>3. CASE open_inner
  <2>1. Recovered' = Recovered /\ idx' = Recovered
    BY <1>0, <1>3, OpenEffect
  <2>2. pc' = "idle" /\ pend' = NoRecords /\ batch' = NoBatch
    BY <1>3 DEF open_inner
  <2>3. QED
    BY <1>0, <2>1, <2>2, SavedFromHeld
<1>4. CASE begin_publish_batch
  <2>1. UNCHANGED <<bin, prev, log, logprev, packs, flat>> /\ pc = "idle"
    BY <1>4 DEF begin_publish_batch, disk
  <2>2. Recovered' = Recovered
    BY <2>1, RecoveredSame
  <2>3. QED
    BY <1>1, <2>1, <2>2
<1>5. CASE \E k \in Keys, v \in Versions : publish_asset(k, v)
  <2>1. /\ UNCHANGED <<bin, prev, log, logprev, packs>> /\ pc = "idle"
        /\ flat' = flat \/ pc' = "save"
    BY <1>5 DEF publish_asset, StartSave
  <2>2. Recovered' = Recovered
    BY <2>1, RecoveredSame
  <2>3. flat' = flat
    BY <1>0, <2>1
  <2>4. QED
    BY <1>1, <2>1, <2>2, <2>3
<1>6. CASE \E b \in BOOLEAN : commit_publish_batch(b)
  <2>1. /\ UNCHANGED <<bin, prev, log, logprev, packs>> /\ pc = "idle"
        /\ flat' = flat \/ pc' = "save"
    BY <1>6 DEF commit_publish_batch, StartSave
  <2>2. Recovered' = Recovered
    BY <2>1, RecoveredSame
  <2>3. flat' = flat
    BY <1>0, <2>1
  <2>4. QED
    BY <1>1, <2>1, <2>2, <2>3
<1>7. CASE \E k \in Keys : unpublish_asset(k)
  <2>1. UNCHANGED <<bin, prev, log, logprev, packs>> /\ pc = "idle" /\ pc' = "save"
    BY <1>7 DEF unpublish_asset, StartSave
  <2>2. Recovered' = Recovered
    BY <2>1, RecoveredSame
  <2>3. flat' = flat
    BY <1>0, <2>1
  <2>4. QED
    BY <1>1, <2>1, <2>2, <2>3
<1>8. CASE gc_records
  <2>1. /\ UNCHANGED <<bin, prev, log, logprev, flat, idx>> /\ pc = "idle" /\ pc' = "save"
        /\ packs' = {p \in packs : \E k \in Keys : idx.loc[k] = PackLoc(p)}
    BY <1>8 DEF gc_records, mem, StartSave
  <2>2. Recovered' = Recovered
    BY <2>1, RecoveredSame
  <2>3. ~batch.open
    BY <1>8 DEF gc_records, SavesInBatch, Inject, Settled, Never
  <2>4. Interrupted /\ Never({"append"})
    BY <2>1 DEF Interrupted, Never
  <2>5. dirty = {}
    BY <1>0, <2>1, <2>3, <2>4 DEF Places, Queued, Types
  <2>6. \A k \in Keys : idx.tab[k] = Recovered.tab[k]
    BY <2>1, <2>5 DEF Table
  <2>7. SavedReads
    BY <2>1 DEF Reads
  <2>8. ASSUME NEW k \in Published(Recovered.tab)
        PROVE  Keeps(k, Recovered.loc[k])
    <3>1. k \in Keys /\ k \in Published(idx.tab)
      BY <2>6 DEF Published
    <3>2. Recovered.loc[k] = idx.loc[k]
      BY <2>1, <2>5, <3>1 DEF Places
    <3>3. idx.loc[k] \in Locs
      BY <1>0, <3>1 DEF Indexes
    <3>4. idx.loc[k].kind = "pack" => idx.loc[k] = PackLoc(idx.loc[k].pack)
      BY <3>3, LocTyped
    <3>5. QED
      BY <2>1, <3>1, <3>2, <3>4 DEF Keeps
  <2>9. QED
    BY <1>0, <2>2, <2>7, <2>8, SavedKept
<1>9. CASE save_large_records \/ save_move_records
  <2>1. /\ UNCHANGED <<bin, prev, log, logprev, flat>> /\ pc' \notin {"idle", "down"}
        /\ packs \subseteq packs'
    BY <1>9 DEF save_large_records, save_move_records
  <2>2. Recovered' = Recovered
    BY <2>1, RecoveredSame
  <2>3. QED
    BY <1>1, <2>1, <2>2
<1>10. CASE save_append \/ save_rotate
  <2>1. pc' = "idle" /\ batch' = batch /\ acked' = idx.tab /\ pc \in {"save", "rotate"}
    BY <1>10 DEF save_append, save_rotate, ReturnOk
  <2>2. idx'.tab = idx.tab
    <3>1. CASE save_append
      BY <1>0, <3>1, AppendIs
    <3>2. CASE save_rotate
      BY <3>2 DEF save_rotate
    <3>3. QED
      BY <1>10, <3>1, <3>2
  <2>3. dirty' = {} /\ pend' = NoRecords /\ batch'.open = FALSE
    <3>1. batch.open = FALSE
      BY <1>0, <2>1 DEF Places
    <3>2. CASE save_append
      BY <2>1, <3>1, <3>2 DEF save_append
    <3>3. CASE save_rotate
      BY <2>1, <3>1, <3>3 DEF save_rotate, Places
    <3>4. QED
      BY <1>10, <3>2, <3>3
  <2>4. Recovered'.tab = idx'.tab
    BY <2>1, <2>2 DEF Table
  <2>5. \A k \in Published(idx'.tab) : Recovered'.loc[k] = idx'.loc[k]
    BY <2>1, <2>3 DEF Places, Published
  <2>6. QED
    BY <2>1, <2>3, <2>4, <2>5, SavedFromHeld
<1>11. CASE save_stage \/ save_retire
  <2>1. UNCHANGED <<log, logprev, packs, flat>> /\ pc' \notin {"idle", "down"}
    BY <1>11 DEF save_stage, save_retire
  <2>2. Recovered' = Recovered
    <3>1. CASE save_stage
      BY <3>1, RecoveredSame DEF save_stage
    <3>2. CASE save_retire
      BY <1>0, <3>2, RetireEffect
    <3>3. QED
      BY <1>11, <3>1, <3>2
  <2>3. QED
    BY <1>1, <2>1, <2>2
<1>12. CASE save_install
  <2>1. UNCHANGED <<idx, dirty, pend, batch>> /\ pc = "install" /\ pc' = "rotate"
    BY <1>12 DEF save_install, mem
  <2>2. tmp = encode_index(idx) /\ Recovered.gen < idx.gen
    BY <2>1 DEF Table
  <2>3. Recovered' = decode_index(encode_index(idx))
    BY <1>0, <1>12, <2>2, InstallEffect
  <2>4. pend = NoRecords /\ ~batch.open /\ \A k \in Keys : idx.loc[k].kind # "log"
    BY <1>0, <2>1 DEF Places
  <2>5. \A k \in Published(idx.tab) : Recovered'.loc[k] = idx.loc[k]
    BY <1>0, <2>3, <2>4, EncodeKeeps
  <2>6. Recovered'.tab = idx.tab
    BY <2>3 DEF encode_index, decode_index
  <2>7. QED
    BY <1>0, <2>1, <2>4, <2>5, <2>6, SavedFromHeld
<1>13. CASE append_fails
  <2>1. /\ UNCHANGED <<bin, prev, logprev, packs, flat>> /\ pc = "save" /\ pc' = "idle"
        /\ "append" \in met' /\ faults' = faults + 1 /\ met' = met \cup {"append"}
    BY <1>13 DEF append_fails, ReturnErr, Inject
  <2>2. log' = log
    BY <1>0, <1>13, CutEffect
  <2>3. Recovered' = Recovered
    BY <2>1, <2>2, RecoveredSame
  <2>4. met = {}
    <3>1. faults \in Nat
      BY <1>0 DEF Types
    <3>2. faults' <= 1 /\ \A a, b \in met' : a = b
      BY <2>1 DEF Steady, Interrupted
    <3>3. faults = 0
      BY <2>1, <3>1, <3>2
    <3>4. "append" \notin met
      BY <3>3 DEF Reads
    <3>5. QED
      BY <2>1, <3>2, <3>4
  <2>5. Interrupted
    BY <2>4 DEF Interrupted
  <2>6. QED
    BY <1>1, <2>1, <2>2, <2>3, <2>5
<1>14. CASE pack_fails \/ stage_fails \/ bin_rots
  <2>1. met' \cap {"stage", "pack", "rot"} # {}
    BY <1>14 DEF pack_fails, stage_fails, bin_rots, Inject
  <2>2. QED
    BY <2>1 DEF Settled, Clean, Never
<1>15. CASE exits
  <2>1. UNCHANGED <<bin, prev, log, logprev, packs, flat>> /\ pc = "idle"
    BY <1>15 DEF exits, Ends
  <2>2. Recovered' = Recovered
    BY <2>1, RecoveredSame
  <2>3. QED
    BY <1>1, <2>1, <2>2
<1>16. CASE dies_in_save \/ dies_appending
  <2>1. UNCHANGED <<bin, prev, logprev, packs, flat>> /\ "midsave" \in met'
    BY <1>16 DEF dies_in_save, dies_appending, Ends
  <2>2. Interrupted
    <3>1. Interrupted'
      BY <2>1 DEF Steady, Interrupted
    <3>2. QED
      BY <3>1
  <2>3. Recovered' = Recovered /\ \A i \in DOMAIN log : i \in DOMAIN log' /\ log'[i] = log[i]
    <3>1. CASE dies_in_save
      BY <3>1, RecoveredSame DEF dies_in_save, Ends
    <3>2. CASE dies_appending
      <4>1. Recovered' = Recovered
        BY <1>0, <3>2, TearEffect
      <4> DEFINE r == [JournalRecord EXCEPT !.sealed = FALSE]
      <4>2. log' = Append(log, r)
        BY <3>2 DEF dies_appending
      <4>3. r \in JournalRecords /\ log \in Seq(JournalRecords)
        <5>1. JournalRecord \in JournalRecords
          BY <1>0, JournalRecordIs
        <5>2. QED
          BY <1>0, <5>1 DEF JournalRecords, Types, Journals
      <4> HIDE DEF r
      <4>4. QED
        BY <4>1, <4>2, <4>3
    <3>3. QED
      BY <1>16, <3>1, <3>2
  <2>4. QED
    BY <1>1, <2>1, <2>2, <2>3
<1>17. QED
  BY <1>2, <1>3, <1>4, <1>5, <1>6, <1>7, <1>8, <1>9, <1>10, <1>11, <1>12, <1>13, <1>14, <1>15,
     <1>16 DEF Next, Save, Fault

\* The invariant of the records.
ReadsInv == PlacesInv /\ Reads

\* It holds of a store that was never opened.
LEMMA ReadsInit ==
  ASSUME Init
  PROVE  ReadsInv
<1>1. PlacesInv
  BY PlacesInit
<1>2. pc = "down" /\ log = <<>>
  BY DEF Init
<1>3. "append" \notin met /\ (Never({"upgrade"}) => flat = NoTable) /\ Clean
  BY DEF Init, Never, Clean
<1>4. Whole
  BY <1>1, <1>3, InvIsWhole DEF PlacesInv
<1>5. SavedReads
  <2>1. CASE Fresh
    <3>1. Recovered = EmptyIndex
      BY <1>4, <2>1, WholeNow
    <3>2. QED
      BY <3>1 DEF SavedReads, Published, EmptyIndex, NoTable
  <2>2. CASE ~Fresh
    <3>1. Base = bin /\ bin.loc = [k \in Keys |-> NoLoc] /\ bin.tab = flat
      BY <2>2 DEF Init, Base, Fresh
    <3>2. /\ Recovered = Replayed /\ decode_index(Base) \in Indexes
          /\ decode_index(Base).loc = Base.loc /\ decode_index(Base).tab = Base.tab
      BY <1>4, <2>2, WholeNow
    <3>3. Replayed = decode_index(Base)
      BY <1>2, <3>2, EmptyJournal DEF Replayed
    <3>4. Recovered.tab = flat /\ \A k \in Keys : Recovered.loc[k] = NoLoc
      BY <3>1, <3>2, <3>3
    <3>5. \A k \in Keys : ReadFrom(k, NoLoc, packs, log, logprev, flat) = flat[k]
      BY DEF ReadFrom, NoLoc
    <3>6. QED
      BY <3>4, <3>5 DEF SavedReads, Published
  <2>3. QED
    BY <2>1, <2>2
<1>6. QED
  BY <1>1, <1>2, <1>3, <1>5 DEF ReadsInv, Reads

\* And after every step.
LEMMA ReadsStep ==
  ASSUME ReadsInv, [Next]_vars
  PROVE  ReadsInv'
<1>1. PlacesInv'
  BY PlacesKept DEF ReadsInv
<1>2. Types /\ Types'
  BY <1>1 DEF ReadsInv, PlacesInv, LedgerInv
<1>3. Never({"upgrade"})' => flat = NoTable /\ flat' = NoTable
  <2>1. met \subseteq met'
    BY MetGrows
  <2>2. Never({"upgrade"})' => Never({"upgrade"})
    BY <2>1 DEF Never
  <2>3. QED
    BY <1>2, <2>2, FlatStep DEF ReadsInv, Reads
<1>4. "append" \in met' => faults' >= 1
  <2>1. faults \in Nat /\ ("append" \in met => faults >= 1)
    BY <1>2 DEF ReadsInv, Reads, Types
  <2>2. \/ faults' = faults + 1
        \/ faults' = faults /\ met' \in {met, met \cup {"midsave"}}
    <3>1. CASE open_inner \/ begin_publish_batch \/ (\E b \in BOOLEAN : commit_publish_batch(b))
                 \/ (\E k \in Keys, v \in Versions : publish_asset(k, v)) \/ UNCHANGED vars
      BY <3>1 DEF open_inner, begin_publish_batch, publish_asset, commit_publish_batch, vars, env
    <3>2. CASE (\E k \in Keys : unpublish_asset(k)) \/ gc_records
      BY <3>2 DEF unpublish_asset, gc_records, SavesInBatch, Inject, env
    <3>3. CASE Save
      BY <3>3 DEF Save, save_large_records, save_append, save_move_records, save_stage, save_retire,
                  save_install, save_rotate, env
    <3>4. CASE append_fails \/ pack_fails \/ stage_fails \/ bin_rots
      BY <3>4 DEF append_fails, pack_fails, stage_fails, bin_rots, Inject
    <3>5. CASE dies_in_save \/ dies_appending \/ exits
      BY <3>5 DEF dies_in_save, dies_appending, exits, Ends
    <3>6. QED
      BY <3>1, <3>2, <3>3, <3>4, <3>5 DEF Next, Fault
  <2>3. QED
    BY <2>1, <2>2
<1>5. ASSUME Steady'
      PROVE  /\ pc' # "down" => HeldReads'
             /\ pc' \in {"idle", "down"} \/ Interrupted' => SavedReads'
  <2>1. Steady /\ Settled' /\ (Interrupted' => Interrupted)
    BY <1>2, <1>5, SteadyBack
  <2>2. Settled
    BY <2>1, MetGrows DEF Settled, Clean, Never
  <2>3. Whole /\ Table /\ Places /\ Reads
    BY <2>2, InvIsWhole DEF ReadsInv, PlacesInv, Settled
  <2>4. Whole' /\ Table'
    BY <1>2, <2>1, <2>3, TableStep DEF Settled
  <2>5. Places'
    BY <1>1, <2>1 DEF PlacesInv
  <2>6. pc' # "down" => HeldReads'
    BY <2>1, <2>3, <2>4, HeldStep
  <2>7. QED
    BY <1>3, <1>5, <2>1, <2>3, <2>4, <2>5, <2>6, SavedStep
<1>6. QED
  BY <1>1, <1>3, <1>4, <1>5 DEF ReadsInv, Reads

\* The events the store can have met are a finite number.
LEMMA MetFinite ==
  ASSUME Types, Cardinality(met) <= 1
  PROVE  \A a, b \in met : a = b
<1>1. IsFiniteSet(EventKinds)
  <2>1. EventKinds = {"append"} \cup ({"stage"} \cup ({"pack"} \cup ({"rot"} \cup
                        ({"midsave"} \cup ({"upgrade"} \cup {"batchsave"})))))
    BY DEF EventKinds
  <2>2. \A s : IsFiniteSet({s})
    BY FS_Singleton
  <2>3. QED
    BY <2>1, <2>2, FS_Union
<1>2. IsFiniteSet(met) /\ Cardinality(met) \in Nat
  <2>1. met \subseteq EventKinds
    BY LedgerAssumption DEF Types
  <2>2. QED
    BY <1>1, <2>1, FS_Subset, FS_CardinalityType
<1>3. SUFFICES ASSUME NEW a \in met, NEW b \in met, a # b
               PROVE  FALSE
  OBVIOUS
<1>4. /\ IsFiniteSet(met \ {a}) /\ Cardinality(met \ {a}) = Cardinality(met) - 1
  BY <1>2, FS_RemoveElement
<1>5. b \in met \ {a}
  BY <1>3
<1>6. Cardinality(met \ {a}) \in Nat /\ Cardinality(met \ {a}) # 0
  BY <1>4, <1>5, FS_CardinalityType, FS_EmptySet
<1>7. QED
  BY <1>2, <1>4, <1>6

\* At every point of a save or of a crash, every asset a reopened store lists
\* has its record, at the version listed, in a store born with the journal whose
\* saves never failed: move_records_into_a_pack, the journal rotation and
\* sweep_dead_record_packs against asset_record_bytes.
THEOREM RecoveredRecordsAlwaysRead == Spec => []RecoveredRecordsRead
<1>1. ReadsInv => RecoveredRecordsRead
  <2>1. SUFFICES ASSUME ReadsInv, Never({"append", "stage", "pack", "rot", "upgrade", "batchsave"})
                 PROVE  \A k \in Published(Recovered.tab) :
                           read_record_at(k, Recovered.loc[k]) = Recovered.tab[k]
    BY DEF RecoveredRecordsRead
  <2>2. Interrupted
    <3>1. met \subseteq EventKinds
      BY <2>1, LedgerAssumption DEF ReadsInv, PlacesInv, LedgerInv, Types
    <3>2. QED
      BY <2>1, <3>1 DEF Interrupted, Never, EventKinds
  <2>3. SavedReads
    BY <2>1, <2>2 DEF ReadsInv, Reads, Steady
  <2>4. QED
    BY <2>3, ReadIs DEF SavedReads
<1>2. Init => ReadsInv
  BY ReadsInit
<1>3. ReadsInv /\ [Next]_vars => ReadsInv'
  BY ReadsStep
<1>4. QED
  BY <1>1, <1>2, <1>3, PTL DEF Spec

\* Between operations the open store reads the record of every published asset
\* at its published version, pending, in a journal, in a pack or flat, also
\* after an append failed, a crash inside a save or an upgrade: get_asset.
THEOREM RecordsAlwaysRead == Spec => []RecordsRead
<1>1. ReadsInv => RecordsRead
  <2>1. SUFFICES ASSUME ReadsInv, pc = "idle", ~batch.open,
                        met \subseteq {"append", "midsave", "upgrade"}, Cardinality(met) <= 1,
                        faults <= 1,
                        NEW k \in Published(idx.tab)
                 PROVE  asset_record_bytes(k) = idx.tab[k]
    BY DEF RecordsRead
  <2>2. Types
    BY <2>1 DEF ReadsInv, PlacesInv, LedgerInv
  <2>3. Steady
    BY <2>1, <2>2, MetFinite DEF Steady
  <2>4. HeldReads
    BY <2>1, <2>3 DEF ReadsInv, Reads
  <2>5. HeldRecord(k) = idx.tab[k]
    BY <2>4 DEF HeldReads
  <2>6. QED
    BY <2>1, <2>5, ReadIs DEF HeldRecord, Queued, asset_record_bytes
<1>2. Init => ReadsInv
  BY ReadsInit
<1>3. ReadsInv /\ [Next]_vars => ReadsInv'
  BY ReadsStep
<1>4. QED
  BY <1>1, <1>2, <1>3, PTL DEF Spec

-----------------------------------------------------------------------------
(* A reopened store has a table that some save was asked to persist *)

\* The records of a journal are whole and of rising generations, which lie
\* above those of a snapshot or below a bound.  Failed snapshots leave gaps.
Rising(l) ==
    \A i \in DOMAIN l : l[i].sealed /\ \A j \in DOMAIN l : i < j => l[i].gen < l[j].gen
Over(l, g)  == \A i \in DOMAIN l : g < l[i].gen
Under(l, g) == \A i \in DOMAIN l : l[i].gen < g

\* The generation and the table a replay leaves do not depend on the record
\* locations of the ledger it starts from, nor on the journal's file name.
LEMMA ReplayTable ==
  ASSUME NEW ix \in Indexes, NEW iy \in Indexes, NEW l, NEW f, NEW h,
         ix.gen = iy.gen, ix.tab = iy.tab
  PROVE  /\ replay_journal(ix, l, f).gen = replay_journal(iy, l, h).gen
         /\ replay_journal(ix, l, f).tab = replay_journal(iy, l, h).tab
  BY ReplayParts

\* The number after one below a bound.
LEMMA NextUp ==
  ASSUME NEW b \in Nat, NEW a \in 0..b, a # b
  PROVE  a + 1 \in 1..b
  OBVIOUS

\* A replay gets past an initial segment of the records.
LEMMA ReachedIs ==
  ASSUME NEW l \in Journals, NEW g \in Nat
  PROVE  \E n \in 0..Len(l) : /\ Reached(l, g) = 1..n
                              /\ \A i \in 1..n : Passes(l, g, i)
                              /\ n = Len(l) \/ ~Passes(l, g, n + 1)
<1> DEFINE bad == {i \in DOMAIN l : ~Passes(l, g, i)}
<1>0. Len(l) \in Nat /\ DOMAIN l = 1..Len(l)
  BY JournalTyped
<1>1. CASE bad = {}
  <2>1. \A i \in 1..Len(l) : Passes(l, g, i)
    BY <1>0, <1>1
  <2>2. Reached(l, g) = 1..Len(l)
    BY <1>0, <2>1 DEF Reached
  <2>3. Len(l) \in 0..Len(l)
    BY <1>0
  <2>4. QED
    BY <2>1, <2>2, <2>3
<1>2. CASE bad # {}
  <2>1. bad \in SUBSET Nat
    BY <1>0
  <2>2. PICK m \in bad : \A y \in bad : m <= y
    <3> HIDE DEF bad
    <3>1. QED
      BY <1>2, <2>1, MinOf
  <2>3. m \in 1..Len(l) /\ ~Passes(l, g, m)
    BY <1>0, <2>2
  <2>4. \A i \in 1..(m - 1) : Passes(l, g, i)
    BY <1>0, <2>2, <2>3
  <2>5. Reached(l, g) = 1..(m - 1)
    <3>1. ASSUME NEW i \in DOMAIN l, \A j \in 1..i : Passes(l, g, j)
          PROVE  i \in 1..(m - 1)
      BY <1>0, <2>3, <3>1
    <3>2. ASSUME NEW i \in 1..(m - 1)
          PROVE  i \in DOMAIN l /\ \A j \in 1..i : Passes(l, g, j)
      BY <1>0, <2>3, <2>4
    <3>3. QED
      BY <3>1, <3>2 DEF Reached
  <2>6. m - 1 \in 0..Len(l) /\ (m - 1) + 1 = m
    BY <1>0, <2>3
  <2>7. QED
    BY <2>3, <2>4, <2>5, <2>6
<1>3. QED
  BY <1>1, <1>2

\* Of a rising journal above the ledger, a replay applies every record it gets
\* past, and comes to the generation of the last of them.
LEMMA RisingApplied ==
  ASSUME NEW ix \in Indexes, NEW l \in Journals, NEW f, NEW n \in 0..Len(l),
         Rising(l), Over(l, ix.gen), Reached(l, ix.gen) = 1..n
  PROVE  /\ Applied(l, ix.gen) = 1..n
         /\ replay_journal(ix, l, f).gen = GenBefore(l, ix.gen, n + 1)
<1> DEFINE g == ix.gen
<1>0. /\ Len(l) \in Nat /\ DOMAIN l = 1..Len(l) /\ g \in Nat
      /\ \A i \in DOMAIN l : l[i].gen \in Nat
  BY JournalTyped DEF Indexes
<1>1. ASSUME NEW i \in 1..n
      PROVE  l[i].gen = GenBefore(l, g, i) + 1
  <2>1. i \in DOMAIN l /\ i \in Nat /\ i <= Len(l) + 1
    BY <1>0
  <2>2. Passes(l, g, i)
    <3>1. i \in Reached(l, g) /\ i \in 1..i
      BY <2>1
    <3>2. QED
      BY <3>1 DEF Reached
  <2>3. /\ GenBefore(l, g, i) \in Nat
        /\ \/ GenBefore(l, g, i) = g
           \/ \E j \in 1..(i - 1) : GenBefore(l, g, i) = l[j].gen
    BY <1>0, <2>1, GenBeforeIs
  <2>4. GenBefore(l, g, i) < l[i].gen
    <3>1. \A j \in 1..(i - 1) : j \in DOMAIN l /\ j < i
      BY <1>0, <2>1
    <3>2. g < l[i].gen
      BY <2>1 DEF Over
    <3>3. \A j \in 1..(i - 1) : l[j].gen < l[i].gen
      BY <2>1, <3>1 DEF Rising
    <3>4. QED
      BY <2>3, <3>2, <3>3
  <2>5. l[i].gen <= GenBefore(l, g, i) + 1
    BY <2>2 DEF Passes
  <2>6. QED
    BY <1>0, <2>1, <2>3, <2>4, <2>5
<1>2. Applied(l, g) = 1..n
  BY <1>1 DEF Applied
<1>3. {l[i].gen : i \in Applied(l, g)} = {l[i].gen : i \in 1..((n + 1) - 1)}
  <2>1. (n + 1) - 1 = n
    BY <1>0
  <2>2. QED
    BY <1>2, <2>1
<1>4. replay_journal(ix, l, f).gen = Max({g} \cup {l[i].gen : i \in Applied(l, g)})
  BY ReplayParts
<1>5. QED
  BY <1>2, <1>3, <1>4 DEF GenBefore

\* So it comes no further than the newest record, and a journal whose newest
\* record it comes to has no gap.
LEMMA RisingEnd ==
  ASSUME NEW ix \in Indexes, NEW l \in Journals, NEW f, NEW b \in Nat,
         Rising(l), Over(l, ix.gen), Under(l, b + 1), ix.gen <= b
  PROVE  LET e == replay_journal(ix, l, f).gen
         IN  /\ e \in Nat /\ ix.gen <= e /\ e <= b
             /\ e = b => Good(l, ix.gen, e)
<1> DEFINE g == ix.gen
           e == replay_journal(ix, l, f).gen
<1>0. /\ Len(l) \in Nat /\ DOMAIN l = 1..Len(l) /\ g \in Nat
      /\ \A i \in DOMAIN l : l[i].gen \in Nat
  BY JournalTyped DEF Indexes
<1>1. PICK n \in 0..Len(l) : /\ Reached(l, g) = 1..n
                             /\ \A i \in 1..n : Passes(l, g, i)
                             /\ n = Len(l) \/ ~Passes(l, g, n + 1)
  BY <1>0, ReachedIs
<1>2. e = GenBefore(l, g, n + 1)
  BY <1>1, RisingApplied
<1>3. n + 1 \in Nat /\ n + 1 <= Len(l) + 1 /\ (n + 1) - 1 = n
  BY <1>0
<1>4. /\ e \in Nat /\ e >= g
      /\ \/ e = g
         \/ \E j \in 1..n : e = l[j].gen
  <2> DEFINE m == n + 1
  <2>1. m \in Nat /\ m <= Len(l) + 1 /\ m - 1 = n /\ e = GenBefore(l, g, m)
    BY <1>2, <1>3
  <2> HIDE DEF m, e, g
  <2>2. /\ GenBefore(l, g, m) \in Nat /\ GenBefore(l, g, m) >= g
        /\ \/ GenBefore(l, g, m) = g
           \/ \E j \in 1..(m - 1) : GenBefore(l, g, m) = l[j].gen
    BY <1>0, <2>1, GenBeforeIs
  <2>3. QED
    BY <2>1, <2>2
<1>5. \A j \in 1..n : j \in DOMAIN l /\ l[j].gen \in Nat /\ l[j].gen < b + 1
  BY <1>0 DEF Under
<1>6. e <= b
  BY <1>0, <1>3, <1>4, <1>5
<1>7. ASSUME e = b
      PROVE  Good(l, g, e)
  <2>1. n = Len(l)
    <3>1. SUFFICES ASSUME n # Len(l)
                   PROVE  FALSE
      OBVIOUS
    <3>2. n + 1 \in DOMAIN l
      BY <1>0, <3>1, NextUp
    <3>3. g < l[n + 1].gen /\ l[n + 1].gen < b + 1 /\ l[n + 1].gen \in Nat
      BY <1>0, <3>2 DEF Over, Under
    <3>4. \A j \in 1..n : l[j].gen < l[n + 1].gen
      <4>1. \A j \in 1..n : j \in DOMAIN l /\ j < n + 1
        BY <1>0
      <4>2. QED
        BY <3>2, <4>1 DEF Rising
    <3>5. e < l[n + 1].gen
      BY <1>3, <1>4, <3>3, <3>4
    <3>6. QED
      BY <1>4, <1>7, <3>3, <3>5
  <2>2. \A i \in DOMAIN l : Passes(l, g, i)
    BY <1>0, <1>1, <2>1
  <2>3. QED
    BY <1>2, <2>1, <2>2 DEF Good
<1> HIDE DEF e
<1>8. QED
  BY <1>4, <1>6, <1>7 DEF e

\* A journal that begins behind a gap says nothing to the ledger.
LEMMA ReplayLate ==
  ASSUME NEW ix \in Indexes, NEW l \in Journals, NEW f, Over(l, ix.gen + 1)
  PROVE  replay_journal(ix, l, f) = ix
<1> DEFINE g == ix.gen
<1>0. /\ Len(l) \in Nat /\ DOMAIN l = 1..Len(l) /\ g \in Nat /\ <<>> \in Journals
      /\ \A i \in DOMAIN l : l[i].gen \in Nat
  BY JournalTyped, EmptyJournal DEF Indexes
<1>1. Applied(l, g) = {}
  <2>1. SUFFICES ASSUME NEW i \in Reached(l, g)
                 PROVE  FALSE
    BY DEF Applied
  <2>2. i \in DOMAIN l /\ \A j \in 1..i : Passes(l, g, j)
    BY DEF Reached
  <2>3. 1 \in DOMAIN l /\ 1 \in 1..i /\ 1 <= Len(l) + 1 /\ 1..(1 - 1) = {}
    BY <1>0, <2>2
  <2>4. GenBefore(l, g, 1) = g
    <3>1. \/ GenBefore(l, g, 1) = g
          \/ \E j \in 1..(1 - 1) : GenBefore(l, g, 1) = l[j].gen
      <4> HIDE DEF g
      <4>1. QED
        BY <1>0, <2>3, GenBeforeIs
    <3>2. QED
      BY <2>3, <3>1
  <2>5. l[1].gen <= g + 1
    BY <2>2, <2>3, <2>4 DEF Passes
  <2>6. g + 1 < l[1].gen
    BY <2>3 DEF Over
  <2>7. QED
    BY <1>0, <2>3, <2>5, <2>6
<1>2. Applied(<<>>, g) = {}
  BY DEF Applied, Reached
<1>3. replay_journal(ix, l, f) = replay_journal(ix, <<>>, f)
  <2> DEFINE none == <<>>
  <2>1. none \in Journals /\ Applied(none, g) = {} /\ \A i \in Applied(none, g) : l[i] = none[i]
    BY <1>0, <1>2
  <2> HIDE DEF none
  <2>2. replay_journal(ix, l, f) = replay_journal(ix, none, f)
    BY <1>1, <2>1, ReplayAlike
  <2>3. QED
    BY <2>2 DEF none
<1>4. QED
  BY <1>3, EmptyJournal

\* The cut that an open makes in a rising journal: what is left has no gap and
\* replays alike.
LEMMA RisingCut ==
  ASSUME NEW ix \in Indexes, NEW l \in Journals, NEW f, Rising(l), Over(l, ix.gen)
  PROVE  LET m == SubSeq(l, 1, Cardinality(Reached(l, ix.gen)))
             e == replay_journal(ix, l, f).gen
         IN  /\ m \in Journals /\ Len(m) = Cardinality(Reached(l, ix.gen))
             /\ Rising(m) /\ Over(m, ix.gen)
             /\ replay_journal(ix, m, f) = replay_journal(ix, l, f)
             /\ e \in Nat /\ ix.gen <= e /\ Under(m, e + 1)
             /\ \A i \in DOMAIN m : i \in DOMAIN l /\ m[i] = l[i]
<1> DEFINE g == ix.gen
           e == replay_journal(ix, l, f).gen
<1>0. /\ Len(l) \in Nat /\ DOMAIN l = 1..Len(l) /\ g \in Nat
      /\ \A i \in DOMAIN l : l[i].gen \in Nat
  BY JournalTyped DEF Indexes
<1>1. PICK n \in 0..Len(l) : Reached(l, g) = 1..n
  BY <1>0, ReachedIs
<1> DEFINE m == SubSeq(l, 1, n)
<1>2. n \in Nat /\ n <= Len(l) /\ Cardinality(Reached(l, g)) = n
  BY <1>0, <1>1, IntervalSize
<1>3. m \in Journals /\ Len(m) = n /\ \A j \in 1..n : l[j] = m[j]
  BY <1>2, PrefixIs
<1>4. SubSeq(l, 1, Cardinality(Reached(l, ix.gen))) = m
  BY <1>2
<1> HIDE DEF m
<1>5. DOMAIN m = 1..n
  BY <1>3, JournalTyped
<1>6. \A i \in 1..n : i \in DOMAIN l /\ m[i] = l[i]
  BY <1>0, <1>2, <1>3
<1>7. Rising(m) /\ Over(m, g)
  BY <1>5, <1>6 DEF Rising, Over
<1>8. Applied(l, g) = 1..n /\ e = GenBefore(l, g, n + 1)
  BY <1>1, RisingApplied
<1>9. Applied(m, g) = 1..n
  <2>1. \A i \in 1..n : i \in Applied(l, g) <=> i \in Applied(m, g)
    BY <1>0, <1>2, <1>3, SamePrefix
  <2>2. Applied(m, g) \subseteq 1..n
    BY <1>5 DEF Applied, Reached
  <2>3. QED
    BY <1>8, <2>1, <2>2
<1>10. replay_journal(ix, m, f) = replay_journal(ix, l, f)
  BY <1>3, <1>6, <1>8, <1>9, ReplayAlike
<1>11. e \in Nat /\ g <= e /\ Under(m, e + 1)
  <2> DEFINE k == n + 1
  <2>1. k \in Nat /\ k <= Len(l) + 1 /\ k - 1 = n /\ e = GenBefore(l, g, k)
    BY <1>0, <1>2, <1>8
  <2> HIDE DEF k, e, g
  <2>2. /\ GenBefore(l, g, k) \in Nat /\ GenBefore(l, g, k) >= g
        /\ \A j \in 1..(k - 1) : l[j].gen <= GenBefore(l, g, k)
    BY <1>0, <2>1, GenBeforeIs
  <2>3. \A j \in 1..n : l[j].gen \in Nat /\ l[j].gen < e + 1
    BY <1>0, <1>6, <2>1, <2>2
  <2>4. QED
    BY <1>0, <1>5, <1>6, <2>1, <2>2, <2>3 DEF Under
<1>12. QED
  BY <1>2, <1>3, <1>4, <1>5, <1>6, <1>7, <1>10, <1>11

\* A record appended to a rising journal keeps it rising.
LEMMA RisingAppend ==
  ASSUME NEW l \in Journals, NEW r \in JournalRecords, NEW g,
         Rising(l), Over(l, g), Under(l, r.gen), r.sealed, g < r.gen
  PROVE  /\ Append(l, r) \in Journals
         /\ Rising(Append(l, r)) /\ Over(Append(l, r), g) /\ Under(Append(l, r), r.gen + 1)
<1> DEFINE m == Append(l, r)
<1>1. /\ Len(l) \in Nat /\ DOMAIN l = 1..Len(l)
      /\ \A i \in DOMAIN l : l[i].gen \in Nat
      /\ r.gen \in Nat
  BY JournalTyped DEF JournalRecords
<1>2. /\ m \in Journals /\ Len(m) = Len(l) + 1
      /\ \A i \in 1..Len(l) : m[i] = l[i]
      /\ m[Len(l) + 1] = r
  BY AppendProperties DEF Journals
<1> HIDE DEF m
<1>3. DOMAIN m = 1..(Len(l) + 1)
  BY <1>2, JournalTyped
<1>4. \A i \in DOMAIN m : \/ i \in DOMAIN l /\ m[i] = l[i] /\ i < Len(l) + 1
                          \/ i = Len(l) + 1 /\ m[i] = r
  BY <1>1, <1>2, <1>3
<1>5. Over(m, g)
  BY <1>4 DEF Over
<1>6. Under(m, r.gen + 1)
  BY <1>1, <1>4 DEF Under
<1>7. Rising(m)
  <2>1. ASSUME NEW i \in DOMAIN m
        PROVE  m[i].sealed
    BY <1>4 DEF Rising
  <2>2. ASSUME NEW i \in DOMAIN m, NEW j \in DOMAIN m, i < j
        PROVE  m[i].gen < m[j].gen
    <3>1. i \in DOMAIN l /\ m[i] = l[i]
      BY <1>1, <1>3, <1>4, <2>2
    <3>2. CASE j \in DOMAIN l /\ m[j] = l[j]
      BY <2>2, <3>1, <3>2 DEF Rising
    <3>3. CASE m[j] = r
      BY <3>1, <3>3 DEF Under
    <3>4. QED
      BY <1>4, <3>2, <3>3
  <2>3. QED
    BY <2>1, <2>2 DEF Rising
<1>8. QED
  BY <1>2, <1>5, <1>6, <1>7 DEF m

\* A record that leaves a gap behind the generation a replay comes to changes
\* nothing, however much of the journal the replay gets past.
LEMMA ReplayGap ==
  ASSUME NEW ix \in Indexes, NEW l \in Journals, NEW f, NEW r \in JournalRecords,
         Rising(l), Over(l, ix.gen), replay_journal(ix, l, f).gen + 1 < r.gen
  PROVE  replay_journal(ix, Append(l, r), f) = replay_journal(ix, l, f)
<1> DEFINE g == ix.gen
           m == Append(l, r)
           e == replay_journal(ix, l, f).gen
<1>0. Len(l) \in Nat /\ DOMAIN l = 1..Len(l) /\ g \in Nat
  BY JournalTyped DEF Indexes
<1>1. /\ m \in Journals /\ Len(m) = Len(l) + 1
      /\ \A i \in 1..Len(l) : l[i] = m[i]
      /\ m[Len(l) + 1] = r
  BY AppendProperties DEF Journals
<1>2. PICK n \in 0..Len(l) : /\ Reached(l, g) = 1..n
                             /\ n = Len(l) \/ ~Passes(l, g, n + 1)
  BY <1>0, ReachedIs
<1>3. e = GenBefore(l, g, n + 1)
  BY <1>2, RisingApplied
<1> HIDE DEF m
<1>4. DOMAIN m = 1..(Len(l) + 1)
  BY <1>1, JournalTyped
<1>5. /\ \A i \in 1..(Len(l) + 1) : GenBefore(l, g, i) = GenBefore(m, g, i)
      /\ \A i \in 1..Len(l) : /\ Passes(l, g, i) <=> Passes(m, g, i)
                              /\ i \in Applied(l, g) <=> i \in Applied(m, g)
  <2>1. Len(l) <= Len(l) /\ Len(l) <= Len(m)
    BY <1>0, <1>1
  <2>2. QED
    BY <1>0, <1>1, <2>1, SamePrefix
<1>6. n + 1 \in 1..(Len(l) + 1)
  BY <1>0
<1>7. ~Passes(m, g, n + 1)
  <2>1. CASE n = Len(l)
    <3>1. GenBefore(m, g, n + 1) = e /\ m[n + 1] = r
      BY <1>1, <1>3, <1>5, <1>6, <2>1
    <3>2. e \in Nat /\ r.gen \in Nat
      <4>1. n + 1 \in Nat /\ n + 1 <= Len(l) + 1
        BY <1>0
      <4>2. GenBefore(l, g, n + 1) \in Nat
        <5> HIDE DEF g
        <5>1. QED
          BY <1>0, <4>1, GenBeforeIs
      <4>3. QED
        BY <1>3, <4>2 DEF JournalRecords
    <3>3. ~(r.gen <= e + 1)
      BY <3>2
    <3>4. QED
      BY <3>1, <3>3 DEF Passes
  <2>2. CASE n # Len(l)
    <3> DEFINE k == n + 1
    <3>1. k \in 1..Len(l)
      BY <1>0, <2>2, NextUp
    <3>2. ~Passes(l, g, k)
      BY <1>2, <2>2
    <3> HIDE DEF k
    <3>3. ~Passes(m, g, k)
      BY <1>5, <3>1, <3>2
    <3>4. QED
      BY <3>3 DEF k
  <2>3. QED
    BY <2>1, <2>2
<1>8. Len(l) + 1 \notin Applied(m, g)
  <2>1. n + 1 \in 1..(Len(l) + 1)
    BY <1>6
  <2>2. QED
    BY <1>7, <2>1 DEF Applied, Reached
<1>9. Applied(m, g) = Applied(l, g) /\ Applied(l, g) \subseteq 1..Len(l)
  <2>1. Applied(m, g) \subseteq 1..(Len(l) + 1) /\ Applied(l, g) \subseteq 1..Len(l)
    BY <1>0, <1>4 DEF Applied, Reached
  <2>2. \A i \in 1..(Len(l) + 1) : i \in 1..Len(l) \/ i = Len(l) + 1
    BY <1>0
  <2>3. QED
    BY <1>5, <1>8, <2>1, <2>2
<1>10. replay_journal(ix, m, f) = replay_journal(ix, l, f)
  BY <1>1, <1>9, ReplayAlike
<1>11. QED
  BY <1>10 DEF m

\* What a publish does to the table and to the files.
LEMMA PublishIs ==
  ASSUME Types, NEW k \in Keys, NEW v \in Versions, publish_asset(k, v)
  PROVE  /\ UNCHANGED <<bin, prev, tmp, log, logprev, snap, jb, acked, met>>
         /\ pc = "idle" /\ pc' \in {"idle", "save"} /\ dirty' = dirty \cup {k}
         /\ idx'.gen = idx.gen
         /\ \A j \in Keys \ {k} : idx'.tab[j] = idx.tab[j]
         /\ committed \subseteq committed'
         /\ pc' = "save" => idx'.tab \in committed' /\ attempt' \in committed'
         /\ pc' = "idle" => attempt' = attempt
<1> DEFINE tab == [idx.tab EXCEPT ![k] = v]
<1>0. idx \in Indexes /\ idx.tab \in Tables
  BY DEF Types, Indexes
<1>1. /\ UNCHANGED <<bin, prev, tmp, log, logprev, snap, jb, acked, met>>
      /\ pc = "idle" /\ dirty' = dirty \cup {k}
      /\ \/ pc' = "idle" /\ UNCHANGED <<attempt, committed>>
         \/ pc' = "save" /\ attempt' = tab /\ committed' = committed \cup {tab}
  BY DEF publish_asset, StartSave, hist, env
<1>2. tab \in Tables /\ \A j \in Keys \ {k} : tab[j] = idx.tab[j]
  BY <1>0 DEF Tables
<1>3. idx'.tab = tab /\ idx'.gen = idx.gen
  <2>1. CASE batch.open
    <3>1. idx' = [idx EXCEPT !.tab = tab]
      BY <2>1 DEF publish_asset
    <3> HIDE DEF tab
    <3>2. QED
      BY <1>0, <3>1 DEF Indexes
  <2>2. CASE ~batch.open
    <3>1. write_asset_records([j \in {k} |-> v], tab)
      BY <2>2 DEF publish_asset
    <3>2. [j \in {k} |-> v] \in RecordPacks
      <4>1. {k} \in SUBSET Keys /\ [j \in {k} |-> v] \in [{k} -> Versions]
        OBVIOUS
      <4>2. QED
        BY <4>1, PackTyped
    <3> HIDE DEF tab
    <3>3. QED
      BY <1>2, <3>1, <3>2, WriteIs
  <2>3. QED
    BY <2>1, <2>2
<1> HIDE DEF tab
<1>4. QED
  BY <1>1, <1>2, <1>3

\* The commit of a batch, likewise.
LEMMA CommitIs ==
  ASSUME Types, NEW b \in BOOLEAN, commit_publish_batch(b)
  PROVE  /\ UNCHANGED <<bin, prev, tmp, log, logprev, snap, jb, acked, met, dirty>>
         /\ pc = "idle" /\ pc' \in {"idle", "save"}
         /\ idx'.gen = idx.gen /\ idx'.tab = idx.tab
         /\ committed \subseteq committed'
         /\ pc' = "save" => idx'.tab \in committed' /\ attempt' \in committed'
         /\ pc' = "idle" => attempt' = attempt
<1>0. idx \in Indexes /\ idx.tab \in Tables
  BY DEF Types, Indexes
<1>1. /\ UNCHANGED <<bin, prev, tmp, log, logprev, snap, jb, acked, met, dirty>>
      /\ pc = "idle"
      /\ \/ pc' = "idle" /\ UNCHANGED <<attempt, committed>>
         \/ pc' = "save" /\ attempt' = idx.tab /\ committed' = committed \cup {idx.tab}
  BY DEF commit_publish_batch, StartSave, hist, env
<1>2. idx'.tab = idx.tab /\ idx'.gen = idx.gen
  <2>1. CASE batch.queued # NoRecords
    <3>1. batch.queued \in RecordPacks
      BY BatchIs DEF commit_publish_batch, Types
    <3>2. write_asset_records(batch.queued, idx.tab)
      BY <2>1 DEF commit_publish_batch
    <3>3. QED
      BY <1>0, <3>1, <3>2, WriteIs
  <2>2. CASE batch.queued = NoRecords
    BY <2>2 DEF commit_publish_batch
  <2>3. QED
    BY <2>1, <2>2
<1>3. QED
  BY <1>1, <1>2

\* unpublish_asset, likewise.
LEMMA UnpublishIs ==
  ASSUME Types, NEW k \in Keys, unpublish_asset(k)
  PROVE  /\ UNCHANGED <<bin, prev, tmp, log, logprev, snap, jb, acked>>
         /\ pc = "idle" /\ pc' = "save" /\ dirty' = dirty \cup {k}
         /\ idx'.gen = idx.gen
         /\ \A j \in Keys \ {k} : idx'.tab[j] = idx.tab[j]
         /\ committed \subseteq committed'
         /\ idx'.tab \in committed' /\ attempt' \in committed'
<1> DEFINE tab == [idx.tab EXCEPT ![k] = None]
<1>0. idx \in Indexes /\ idx.tab \in Tables
  BY DEF Types, Indexes
<1>1. /\ UNCHANGED <<bin, prev, tmp, log, logprev, snap, jb, acked>>
      /\ pc = "idle" /\ pc' = "save" /\ dirty' = dirty \cup {k}
      /\ attempt' = tab /\ committed' = committed \cup {tab}
      /\ idx' = [idx EXCEPT !.tab = tab, !.loc[k] = NoLoc]
  BY DEF unpublish_asset, StartSave
<1>2. \A j \in Keys \ {k} : tab[j] = idx.tab[j]
  BY <1>0 DEF Tables
<1> HIDE DEF tab
<1>3. idx'.tab = tab /\ idx'.gen = idx.gen
  BY <1>0, <1>1 DEF Indexes
<1>4. QED
  BY <1>1, <1>2, <1>3

\* A save under way persists a table that it was asked to persist.
Asked == pc \notin {"idle", "down"} => idx.tab \in committed

\* It is kept by every step, and no table asked for is forgotten.
LEMMA AskedStep ==
  ASSUME Types, Asked, [Next]_vars
  PROVE  Asked' /\ committed \subseteq committed'
<1>1. CASE UNCHANGED vars
  BY <1>1 DEF vars, mem, hist, Asked
<1>2. CASE open_inner \/ exits \/ dies_in_save \/ dies_appending
  BY <1>2 DEF open_inner, exits, dies_in_save, dies_appending, Ends, hist, Asked
<1>3. CASE begin_publish_batch
  BY <1>3 DEF begin_publish_batch, hist, Asked
<1>4. CASE \E k \in Keys, v \in Versions : publish_asset(k, v)
  BY <1>4, PublishIs DEF Asked
<1>5. CASE \E b \in BOOLEAN : commit_publish_batch(b)
  BY <1>5, CommitIs DEF Asked
<1>6. CASE \E k \in Keys : unpublish_asset(k)
  BY <1>6, UnpublishIs DEF Asked
<1>7. CASE gc_records
  BY <1>7 DEF gc_records, StartSave, mem, Asked
<1>8. CASE save_large_records
  BY <1>8, LargeIs DEF save_large_records, hist, Asked
<1>9. CASE save_append
  BY <1>9 DEF save_append, ReturnOk, Asked
<1>10. CASE save_move_records
  BY <1>10, MoveIs DEF save_move_records, hist, Asked
<1>11. CASE save_stage \/ save_retire \/ save_install
  BY <1>11 DEF save_stage, save_retire, save_install, mem, hist, Asked
<1>12. CASE save_rotate
  BY <1>12 DEF save_rotate, ReturnOk, Asked
<1>13. CASE append_fails \/ pack_fails \/ stage_fails
  BY <1>13 DEF append_fails, pack_fails, stage_fails, ReturnErr, Asked
<1>14. CASE bin_rots
  BY <1>14 DEF bin_rots, mem, hist, Asked
<1>15. QED
  BY <1>1, <1>2, <1>3, <1>4, <1>5, <1>6, <1>7, <1>8, <1>9, <1>10, <1>11, <1>12, <1>13, <1>14
  DEF Next, Save, Fault

\* So are the tables of the last save that succeeded and of the last one cut
\* short, while no snapshot failed or rotted.
Answered == acked \in committed /\ attempt \in committed

\* It is kept by every step.
LEMMA AnsweredStep ==
  ASSUME Types, Asked, Answered, [Next]_vars,
         pc = "down" => Recovered.tab \in {acked, attempt}
  PROVE  Answered'
<1>0. committed \subseteq committed'
  BY AskedStep
<1>1. CASE UNCHANGED <<acked, attempt>>
  BY <1>0, <1>1 DEF Answered
<1>2. CASE open_inner
  BY <1>0, <1>2 DEF open_inner, Answered
<1>3. CASE \E k \in Keys, v \in Versions : publish_asset(k, v)
  BY <1>0, <1>3, PublishIs DEF Answered
<1>4. CASE \E b \in BOOLEAN : commit_publish_batch(b)
  BY <1>0, <1>4, CommitIs DEF Answered
<1>5. CASE \E k \in Keys : unpublish_asset(k)
  BY <1>0, <1>5, UnpublishIs DEF Answered
<1>6. CASE gc_records
  BY <1>6 DEF gc_records, StartSave, Answered
<1>7. CASE save_append \/ save_rotate
  BY <1>0, <1>7 DEF save_append, save_rotate, ReturnOk, Asked, Answered
<1>8. CASE append_fails \/ pack_fails \/ stage_fails
  BY <1>0, <1>8 DEF append_fails, pack_fails, stage_fails, ReturnErr, Answered
<1>9. CASE begin_publish_batch \/ bin_rots \/ exits \/ dies_in_save \/ dies_appending
  BY <1>1, <1>9 DEF begin_publish_batch, bin_rots, exits, dies_in_save, dies_appending, Ends, hist
<1>10. CASE save_large_records \/ save_move_records \/ save_stage \/ save_retire \/ save_install
  BY <1>1, <1>10 DEF save_large_records, save_move_records, save_stage, save_retire, save_install, hist
<1>11. CASE UNCHANGED vars
  BY <1>1, <1>11 DEF vars, hist
<1>12. QED
  BY <1>2, <1>3, <1>4, <1>5, <1>6, <1>7, <1>8, <1>9, <1>10, <1>11 DEF Next, Save, Fault

\* No record pack failed to be written, and no crash struck inside a save:
\* snapshots may have failed, which leaves gaps in the generations of the
\* journal, and index.bin may have rotted, any number of times.
Uncut == Never({"midsave", "pack"})

\* What a journal adds to a snapshot, and that it is one of the tables given.
Follow(s, l) == replay_journal(decode_index(s), l, "live")
Continues(s, l, tabs) == Rising(l) /\ Over(l, s.gen) /\ Follow(s, l).tab \in tabs

\* The snapshots are in place: no save is between its two renames.
Standing == pc \notin {"install", "rotate"}

\* index.log continues index.bin.  A snapshot of an old store has no journal.
LiveTrail ==
    /\ SealHolds(bin) /\ Standing => Continues(bin, log, committed)
    /\ SealHolds(bin) /\ bin.kind = "v1" => prev = NoFile /\ log = <<>> /\ logprev = <<>>

\* A store that has no index.bin was never opened.
BlankTrail ==
    bin = NoFile /\ Standing => prev = NoFile /\ pc = "down" /\ NoTable \in committed

\* index.log.prev continues index.bin.prev up to a generation before that of
\* index.bin, so index.log begins behind a gap: a store that lost index.bin
\* falls back to before the snapshot, not to a mixture.
PrevTrail ==
    SealHolds(prev) /\ Standing =>
        /\ Continues(prev, logprev, committed)
        /\ SealHolds(bin) => prev.gen < bin.gen /\ Under(logprev, bin.gen)
        /\ Over(log, prev.gen + 1)
        /\ \A j \in DOMAIN logprev : Over(log, logprev[j].gen + 1)

\* As long as index.bin never rotted, index.log.prev holds nothing that is
\* newer than the snapshot an open starts from.
OldTrail ==
    Never({"rot"}) =>
        /\ SealHolds(bin) /\ Standing => Under(logprev, bin.gen)
        /\ ~Standing => SealHolds(prev) /\ Under(logprev, prev.gen + 1)

\* The open store is never behind its files.  Where a replay comes as far as
\* the store has, the table of the store differs from it in dirty assets only;
\* where it does not, there is a gap, and what is appended is not replayed.
HeldTrail ==
    /\ snap /\ pc \in {"idle", "save", "stage", "retire"} => SealHolds(bin) /\ bin.kind = "v2"
    /\ SealHolds(bin) /\ pc \in {"idle", "save"} =>
          /\ bin.gen <= idx.gen /\ Under(log, idx.gen + 1)
          /\ Follow(bin, log).gen = idx.gen =>
                \A k \in Keys \ dirty : Follow(bin, log).tab[k] = idx.tab[k]
    /\ SealHolds(bin) /\ pc \in {"stage", "retire"} => bin.gen < idx.gen /\ Under(log, idx.gen)

\* Between the renames the journal continues the outgoing snapshot and lies
\* below the incoming one.
SwapTrail ==
    /\ pc \in {"retire", "install"} => tmp = encode_index(idx)
    /\ pc = "install" => bin = NoFile
    /\ pc = "rotate" => bin = encode_index(idx)
    /\ ~Standing /\ SealHolds(prev) =>
          Continues(prev, log, committed) /\ prev.gen < idx.gen /\ Under(log, idx.gen)

Trail == LiveTrail /\ BlankTrail /\ PrevTrail /\ OldTrail /\ HeldTrail /\ SwapTrail

\* What a replay leaves, as the parts of a ledger.
LEMMA FollowIs ==
  ASSUME NEW s \in Snapshots, NEW l \in Journals
  PROVE  /\ decode_index(s) \in Indexes
         /\ decode_index(s).gen = s.gen /\ decode_index(s).tab = s.tab
         /\ s.gen \in Nat /\ s.tab \in Tables
         /\ Follow(s, l) \in Indexes /\ Follow(s, l).gen \in Nat /\ Follow(s, l).tab \in Tables
         /\ Follow(s, <<>>) = decode_index(s)
<1>1. decode_index(s) \in Indexes /\ s.gen \in Nat /\ s.tab \in Tables
  BY DecodeTyped DEF Snapshots
<1>2. Follow(s, l) \in Indexes
  BY <1>1, ReplayTyped DEF Follow
<1>3. Follow(s, <<>>) = decode_index(s)
  BY <1>1, EmptyJournal DEF Follow
<1>4. QED
  BY <1>1, <1>2, <1>3 DEF decode_index, Indexes

\* A replay comes to the generation it starts from or to that of a record.
LEMMA FollowGen ==
  ASSUME NEW s \in Snapshots, NEW l \in Journals, Rising(l), Over(l, s.gen)
  PROVE  \/ Follow(s, l).gen = s.gen
         \/ \E j \in DOMAIN l : Follow(s, l).gen = l[j].gen
<1> DEFINE ix == decode_index(s)
           g == ix.gen
<1>1. ix \in Indexes /\ g \in Nat /\ g = s.gen /\ Len(l) \in Nat /\ DOMAIN l = 1..Len(l)
  BY FollowIs, JournalTyped
<1>2. PICK n \in 0..Len(l) : Reached(l, g) = 1..n
  BY <1>1, ReachedIs
<1> DEFINE m == n + 1
           e == Follow(s, l).gen
<1>3. e = GenBefore(l, g, m)
  <2> HIDE DEF ix
  <2>1. Over(l, ix.gen)
    BY <1>1
  <2>2. replay_journal(ix, l, "live").gen = GenBefore(l, ix.gen, n + 1)
    BY <1>1, <1>2, <2>1, RisingApplied
  <2>3. QED
    BY <2>2 DEF Follow, ix
<1>4. m \in Nat /\ m <= Len(l) + 1 /\ m - 1 = n /\ 1..n \subseteq DOMAIN l
  BY <1>1
<1> HIDE DEF m, e, g
<1>5. GenBefore(l, g, m) = g \/ \E j \in 1..(m - 1) : GenBefore(l, g, m) = l[j].gen
  BY <1>1, <1>4, GenBeforeIs
<1>6. e = s.gen \/ \E j \in DOMAIN l : e = l[j].gen
  BY <1>1, <1>3, <1>4, <1>5
<1>7. QED
  BY <1>6 DEF e

\* With the snapshots in place, an open finds a table asked for: that of
\* index.bin and its journal or, where index.bin is lost, an older one.
LEMMA StandingKnown ==
  ASSUME Types, Sealed, Uncut, Trail, Standing
  PROVE  /\ Recovered.tab \in committed
         /\ SealHolds(bin) => /\ Recovered.tab = Follow(bin, log).tab
                              /\ Recovered.gen = Follow(bin, log).gen
         /\ load_ledger = "Live" => Recovered = Follow(bin, log)
<1>0. bin \in Files /\ prev \in Files /\ log \in Journals /\ logprev \in Journals
  BY DEF Types
<1>1. CASE load_ledger = "Live"
  <2>1. SealHolds(bin) /\ Recovered = Follow(bin, log)
    BY <1>0, <1>1, LoadIs DEF Recovered, Follow
  <2>2. QED
    BY <2>1 DEF Trail, LiveTrail, Continues
<1>2. CASE load_ledger = "Legacy"
  <2>1. SealHolds(bin) /\ bin.kind = "v1" /\ bin \in Snapshots
    BY <1>0, <1>2, LoadIs, FileKinds
  <2>2. log = <<>> /\ Follow(bin, log).tab \in committed
    BY <2>1 DEF Trail, LiveTrail, Continues
  <2>3. Follow(bin, log) = decode_index(bin) /\ decode_index(bin) \in Indexes
    BY <1>0, <2>1, <2>2, FollowIs
  <2>4. Recovered = [decode_index(bin) EXCEPT !.loc =
                        [k \in Keys |-> IF @[k].kind = "pack" THEN @[k] ELSE NoLoc]]
    BY <1>2 DEF Recovered
  <2>5. Recovered.tab = decode_index(bin).tab /\ Recovered.gen = decode_index(bin).gen
    BY <2>3, <2>4 DEF Indexes
  <2>6. QED
    BY <1>2, <2>2, <2>3, <2>5
<1>3. CASE load_ledger = "Prev"
  <2>1. ~SealHolds(bin) /\ SealHolds(prev) /\ prev \in Snapshots
    BY <1>0, <1>3, LoadIs, FileKinds
  <2>2. /\ Continues(prev, logprev, committed) /\ Over(log, prev.gen + 1)
        /\ \A j \in DOMAIN logprev : Over(log, logprev[j].gen + 1)
    BY <2>1 DEF Trail, PrevTrail
  <2> DEFINE ix == decode_index(prev)
             before == replay_journal(ix, logprev, "prev")
  <2>3. ix \in Indexes /\ before \in Indexes
    BY <1>0, <2>1, FollowIs, ReplayTyped
  <2>4. before.gen = Follow(prev, logprev).gen /\ before.tab = Follow(prev, logprev).tab
    <3> HIDE DEF ix
    <3>1. /\ replay_journal(ix, logprev, "prev").gen = replay_journal(ix, logprev, "live").gen
          /\ replay_journal(ix, logprev, "prev").tab = replay_journal(ix, logprev, "live").tab
      BY <2>3, ReplayTable
    <3>2. QED
      BY <3>1 DEF ix, Follow
  <2>5. Over(log, before.gen + 1)
    <3>1. \/ before.gen = prev.gen
          \/ \E j \in DOMAIN logprev : before.gen = logprev[j].gen
      BY <1>0, <2>1, <2>2, <2>4, FollowGen DEF Continues
    <3> HIDE DEF before
    <3>2. QED
      BY <2>2, <3>1
  <2>6. replay_journal(before, log, "live") = before
    <3> HIDE DEF before
    <3>1. QED
      BY <1>0, <2>3, <2>5, ReplayLate
  <2>7. Recovered = before
    BY <1>3, <2>6 DEF Recovered
  <2>8. QED
    BY <1>3, <2>1, <2>2, <2>4, <2>7 DEF Continues
<1>4. CASE load_ledger = "None"
  <2>1. bin = NoFile /\ ~SealHolds(bin)
    BY <1>0, <1>4, LoadIs DEF SealHolds, NoFile
  <2>2. Recovered.tab = NoTable /\ NoTable \in committed
    BY <1>4, <2>1, EmptyTyped DEF Recovered, Trail, BlankTrail
  <2>3. QED
    BY <1>4, <2>1, <2>2
<1>5. load_ledger # "Err"
  <2>1. Never({"midsave"}) /\ pc # "install" /\ ~SealHolds(NoFile) /\ NoFile # Corrupt
    BY DEF Uncut, Never, Standing, SealHolds, NoFile, Corrupt
  <2>2. (bin = Corrupt => SealHolds(prev)) /\ (prev = Corrupt => SealHolds(bin))
    BY <2>1 DEF Sealed
  <2>3. QED
    BY <1>0, <2>1, <2>2, LoadIs
<1>6. QED
  BY <1>0, <1>1, <1>2, <1>3, <1>4, <1>5, LoadIs

\* Between the renames too, as long as index.bin never rotted.
LEMMA SwapKnown ==
  ASSUME Types, Asked, Trail, ~Standing, Never({"rot"})
  PROVE  Recovered.tab \in committed
<1>0. /\ bin \in Files /\ prev \in Files /\ log \in Journals /\ logprev \in Journals
      /\ idx \in Indexes /\ idx.gen \in Nat
  BY DEF Types, Indexes
<1>1. /\ SealHolds(prev) /\ prev \in Snapshots /\ Under(logprev, prev.gen + 1)
      /\ Continues(prev, log, committed) /\ Under(log, idx.gen)
  BY <1>0, FileKinds DEF Trail, OldTrail, SwapTrail
<1>2. CASE pc = "install"
  <2>1. bin = NoFile /\ load_ledger = "Prev"
    BY <1>0, <1>1, <1>2, LoadIs DEF Trail, SwapTrail, SealHolds, NoFile
  <2> DEFINE ix == decode_index(prev)
  <2>2. ix \in Indexes /\ ix.gen = prev.gen /\ prev.gen \in Nat
    BY <1>0, <1>1, FollowIs
  <2>3. \A j \in DOMAIN logprev : logprev[j].gen <= ix.gen
    BY <1>0, <1>1, <2>2, JournalTyped DEF Under
  <2>4. replay_journal(ix, logprev, "prev") = ix
    <3> HIDE DEF ix
    <3>1. QED
      BY <1>0, <2>2, <2>3, ReplayStale
  <2>5. Recovered = Follow(prev, log)
    BY <2>1, <2>4 DEF Recovered, Follow
  <2>6. QED
    BY <1>1, <2>5 DEF Continues
<1>3. CASE pc = "rotate"
  <2>1. bin = encode_index(idx) /\ idx.tab \in committed
    BY <1>3 DEF Trail, SwapTrail, Asked
  <2>2. /\ bin \in Snapshots /\ bin.kind = "v2" /\ bin.gen = idx.gen /\ bin.tab = idx.tab
    BY <1>0, <2>1, EncodeTyped
  <2>3. load_ledger = "Live"
    BY <1>0, <2>2, LoadIs, FileKinds
  <2> DEFINE ix == decode_index(bin)
  <2>4. ix \in Indexes /\ ix.gen = idx.gen /\ ix.tab = idx.tab
    BY <1>0, <2>2, FollowIs
  <2>5. \A j \in DOMAIN log : log[j].gen <= ix.gen
    BY <1>0, <1>1, <2>4, JournalTyped DEF Under
  <2>6. replay_journal(ix, log, "live") = ix
    <3> HIDE DEF ix
    <3>1. QED
      BY <1>0, <2>4, <2>5, ReplayStale
  <2>7. Recovered = ix
    BY <2>3, <2>6 DEF Recovered
  <2>8. QED
    BY <2>1, <2>4, <2>7
<1>4. QED
  BY <1>2, <1>3 DEF Standing

\* A step that leaves the snapshots and the journals alone, with the snapshots
\* in place, leaves what the files say of each other.
LEMMA FilesStay ==
  ASSUME Trail, UNCHANGED <<bin, prev, log, logprev>>, Standing, Standing',
         committed \subseteq committed', met \subseteq met', pc' = "down" \/ pc # "down"
  PROVE  (LiveTrail /\ BlankTrail /\ PrevTrail /\ OldTrail)'
<1>1. Never({"rot"})' => Never({"rot"})
  BY DEF Never
<1>2. \A s, l : Continues(s, l, committed) => Continues(s, l, committed')
  BY DEF Continues
<1>3. LiveTrail'
  BY <1>2 DEF Trail, LiveTrail
<1>4. BlankTrail'
  BY DEF Trail, BlankTrail
<1>5. PrevTrail'
  BY <1>2 DEF Trail, PrevTrail
<1>6. OldTrail'
  BY <1>1 DEF Trail, OldTrail
<1>7. QED
  BY <1>3, <1>4, <1>5, <1>6

\* Opening the store keeps the trail.
LEMMA OpenTrail ==
  ASSUME Types, Types', Sealed, Uncut, Trail, open_inner
  PROVE  Trail'
<1>0. /\ bin \in Files /\ prev \in Files /\ log \in Journals /\ logprev \in Journals
      /\ pc = "down" /\ pc' = "idle" /\ UNCHANGED <<prev, committed, met>> /\ idx' = Recovered
      /\ Standing /\ Standing' /\ dirty' = {}
      /\ snap' = (load_ledger \in {"Live", "None"})
      /\ NoFile # Corrupt /\ ~SealHolds(NoFile) /\ ~SealHolds(Corrupt)
  BY DEF Types, open_inner, Standing, env, NoFile, Corrupt, SealHolds
<1>1. SwapTrail' /\ (Never({"rot"})' <=> Never({"rot"}))
  BY <1>0 DEF SwapTrail, Never
<1>2. CASE load_ledger = "Live"
  <2> DEFINE ix == decode_index(bin)
             m == SubSeq(log, 1, Cardinality(Reached(log, ix.gen)))
             e == replay_journal(ix, log, "live").gen
  <2>1. SealHolds(bin) /\ bin.kind = "v2" /\ bin \in Snapshots
    BY <1>0, <1>2, LoadIs, FileKinds
  <2>2. ix \in Indexes /\ ix.gen = bin.gen /\ bin.gen \in Nat
    BY <1>0, <2>1, FollowIs
  <2>3. bin' = bin /\ logprev' = logprev /\ log' = m
    BY <1>2, <2>2 DEF open_inner
  <2>4. Continues(bin, log, committed)
    BY <1>0, <2>1 DEF Trail, LiveTrail
  <2>5. /\ m \in Journals /\ Rising(m) /\ Over(m, ix.gen)
        /\ replay_journal(ix, m, "live") = replay_journal(ix, log, "live")
        /\ e \in Nat /\ ix.gen <= e /\ Under(m, e + 1)
        /\ \A i \in DOMAIN m : i \in DOMAIN log /\ m[i] = log[i]
    <3> HIDE DEF ix
    <3>1. Rising(log) /\ Over(log, ix.gen)
      BY <2>2, <2>4 DEF Continues
    <3>2. QED
      BY <1>0, <2>2, <3>1, RisingCut
  <2> HIDE DEF m
  <2>6. Follow(bin, m) = Follow(bin, log) /\ e = Follow(bin, log).gen
    BY <2>5 DEF Follow
  <2>7. idx' = Follow(bin, log)
    BY <1>0, <1>2, StandingKnown
  <2> HIDE DEF ix, e
  <2>8. Continues(bin, m, committed)
    BY <2>2, <2>4, <2>5, <2>6 DEF Continues
  <2>9. \A b : Over(log, b) => Over(m, b)
    BY <2>5 DEF Over
  <2>10. LiveTrail'
    BY <1>0, <2>1, <2>3, <2>8 DEF LiveTrail
  <2>11. BlankTrail'
    BY <1>0, <2>1, <2>3 DEF BlankTrail
  <2>12. PrevTrail'
    BY <1>0, <2>1, <2>3, <2>9 DEF Trail, PrevTrail
  <2>13. OldTrail'
    BY <1>0, <1>1, <2>3 DEF Trail, OldTrail
  <2>14. HeldTrail'
    <3>1. bin'.gen <= idx'.gen /\ Under(log', idx'.gen + 1)
      BY <2>2, <2>3, <2>5, <2>6, <2>7
    <3>2. Follow(bin', log') = idx'
      BY <2>3, <2>6, <2>7
    <3>3. QED
      BY <1>0, <2>1, <2>3, <3>1, <3>2 DEF HeldTrail
  <2>15. QED
    BY <1>1, <2>10, <2>11, <2>12, <2>13, <2>14 DEF Trail
<1>3. CASE load_ledger = "Legacy"
  <2>1. SealHolds(bin) /\ bin.kind = "v1" /\ bin \in Snapshots
    BY <1>0, <1>3, LoadIs, FileKinds
  <2>2. /\ bin' = bin /\ log = <<>> /\ logprev = <<>> /\ UNCHANGED <<log, logprev>>
        /\ ~snap'
    <3>1. log = <<>> /\ logprev = <<>>
      BY <1>0, <2>1 DEF Trail, LiveTrail
    <3>2. bin' = bin /\ log' = <<>> /\ logprev' = <<>>
      BY <1>3 DEF open_inner
    <3>3. ~snap'
      BY <1>0, <1>3
    <3>4. QED
      BY <3>1, <3>2, <3>3
  <2>3. LiveTrail' /\ PrevTrail' /\ OldTrail'
    BY <1>0, <1>1, <2>2 DEF Trail, LiveTrail, PrevTrail, OldTrail
  <2>4. BlankTrail'
    BY <1>0, <2>1, <2>2 DEF BlankTrail
  <2>5. /\ idx'.gen = Follow(bin, log).gen /\ idx'.tab = Follow(bin, log).tab
        /\ Follow(bin, log) = decode_index(bin)
        /\ decode_index(bin).gen = bin.gen /\ bin.gen \in Nat
    <3>1. idx'.gen = Follow(bin, log).gen /\ idx'.tab = Follow(bin, log).tab
      BY <1>0, <2>1, StandingKnown
    <3>2. QED
      BY <1>0, <2>1, <2>2, <3>1, FollowIs
  <2>6. HeldTrail'
    <3>1. bin'.gen <= idx'.gen /\ Under(log', idx'.gen + 1)
      BY <2>2, <2>5 DEF Under
    <3>2. Follow(bin', log').tab = idx'.tab
      BY <2>2, <2>5
    <3>3. QED
      BY <1>0, <2>2, <3>1, <3>2 DEF HeldTrail
  <2>7. QED
    BY <1>1, <2>3, <2>4, <2>6 DEF Trail
<1>4. CASE load_ledger = "Prev"
  <2>1. ~SealHolds(bin) /\ SealHolds(prev)
    BY <1>0, <1>4, LoadIs
  <2>2. UNCHANGED <<bin, log, logprev>> /\ ~snap'
    <3>1. UNCHANGED <<bin, log, logprev>>
      BY <1>4 DEF open_inner
    <3>2. ~snap'
      BY <1>0, <1>4
    <3>3. QED
      BY <3>1, <3>2
  <2>3. bin # NoFile
    BY <1>0, <2>1 DEF Trail, BlankTrail
  <2>4. LiveTrail' /\ BlankTrail' /\ HeldTrail'
    BY <1>0, <2>1, <2>2, <2>3 DEF LiveTrail, BlankTrail, HeldTrail
  <2>5. PrevTrail' /\ OldTrail'
    BY <1>0, <1>1, <2>2 DEF Trail, PrevTrail, OldTrail
  <2>6. QED
    BY <1>1, <2>4, <2>5 DEF Trail
<1>5. CASE load_ledger = "None"
  <2>1. /\ bin = NoFile /\ prev = NoFile /\ bin' = encode_index(EmptyIndex)
        /\ log' = <<>> /\ logprev' = <<>> /\ idx' = EmptyIndex
    BY <1>0, <1>5, LoadIs DEF open_inner, Recovered
  <2>2. /\ EmptyIndex \in Indexes /\ EmptyIndex.tab = NoTable /\ EmptyIndex.gen \in Nat
        /\ NoTable \in committed
    BY <1>0, <2>1, EmptyTyped DEF Indexes, Trail, BlankTrail
  <2>3. /\ bin' \in Snapshots /\ bin'.kind = "v2" /\ bin'.gen = EmptyIndex.gen
        /\ bin'.tab = NoTable
    BY <2>1, <2>2, EncodeTyped
  <2>4. /\ Follow(bin', <<>>) = decode_index(bin')
        /\ decode_index(bin').gen = bin'.gen /\ decode_index(bin').tab = bin'.tab
    BY <1>0, <2>3, FollowIs
  <2>5. SealHolds(bin') /\ bin' # NoFile /\ ~SealHolds(prev')
    BY <1>0, <2>1, <2>3 DEF SealHolds
  <2>6. Continues(bin', log', committed')
    BY <1>0, <2>1, <2>2, <2>3, <2>4 DEF Continues, Rising, Over
  <2>7. LiveTrail' /\ BlankTrail' /\ PrevTrail'
    BY <2>3, <2>5, <2>6 DEF LiveTrail, BlankTrail, PrevTrail
  <2>8. OldTrail'
    BY <1>0, <2>1 DEF OldTrail, Under
  <2>9. HeldTrail'
    <3>1. bin'.gen <= idx'.gen /\ Under(log', idx'.gen + 1)
      BY <2>1, <2>2, <2>3 DEF Under
    <3>2. Follow(bin', log').tab = idx'.tab
      BY <2>1, <2>2, <2>3, <2>4
    <3>3. QED
      BY <1>0, <2>3, <2>5, <3>1, <3>2 DEF HeldTrail
  <2>10. QED
    BY <1>1, <2>7, <2>8, <2>9 DEF Trail
<1>6. QED
  BY <1>0, <1>2, <1>3, <1>4, <1>5, LoadIs DEF open_inner, Openable

\* So does appending a record, whether the journal has a gap or not.
LEMMA AppendTrail ==
  ASSUME Types, Types', Asked, Trail, save_append
  PROVE  Trail'
<1> DEFINE r == JournalRecord
           ix == decode_index(bin)
           e == Follow(bin, log).gen
<1>0. /\ bin \in Files /\ prev \in Files /\ log \in Journals /\ logprev \in Journals
      /\ pc = "save" /\ pc' = "idle" /\ snap /\ dirty \subseteq Keys
      /\ UNCHANGED <<bin, prev, logprev, committed, met, snap>> /\ log' = Append(log, r)
      /\ idx.gen \in Nat /\ idx.tab \in Tables
      /\ Standing /\ Standing'
  BY DEF Types, Indexes, save_append, ReturnOk, env, Standing
<1>1. idx'.gen = idx.gen + 1 /\ idx'.tab = idx.tab /\ idx.tab \in committed
  BY <1>0, AppendIs DEF Asked
<1>2. /\ r \in JournalRecords /\ r.gen = idx.gen + 1 /\ r.sealed = TRUE /\ DOMAIN r.upd = dirty
      /\ \A k \in dirty : r.upd[k].ver = idx.tab[k]
  BY JournalRecordIs
<1>3. SealHolds(bin) /\ bin.kind = "v2" /\ bin \in Snapshots /\ bin # NoFile
  <2>1. SealHolds(bin) /\ bin.kind = "v2"
    BY <1>0 DEF Trail, HeldTrail
  <2>2. QED
    BY <1>0, <2>1, FileKinds DEF NoFile
<1>4. /\ ix \in Indexes /\ ix.gen = bin.gen /\ bin.gen \in Nat
      /\ Follow(bin, log) \in Indexes /\ e \in Nat /\ Follow(bin, log).tab \in Tables
  BY <1>0, <1>3, FollowIs
<1>5. /\ Rising(log) /\ Over(log, bin.gen) /\ Follow(bin, log).tab \in committed
      /\ bin.gen <= idx.gen /\ Under(log, idx.gen + 1)
      /\ e = idx.gen => \A k \in Keys \ dirty : Follow(bin, log).tab[k] = idx.tab[k]
  BY <1>0, <1>3 DEF Trail, LiveTrail, HeldTrail, Continues
<1> HIDE DEF r
<1>6. /\ log' \in Journals /\ Rising(log') /\ Over(log', bin.gen)
      /\ Under(log', (idx.gen + 1) + 1)
  <2>1. bin.gen < r.gen /\ Under(log, r.gen) /\ r.sealed
    BY <1>0, <1>2, <1>4, <1>5
  <2>2. /\ Append(log, r) \in Journals /\ Rising(Append(log, r)) /\ Over(Append(log, r), bin.gen)
        /\ Under(Append(log, r), r.gen + 1)
    BY <1>0, <1>2, <1>5, <2>1, RisingAppend
  <2>3. QED
    BY <1>0, <1>2, <2>2
<1>7. e <= idx.gen /\ (e = idx.gen => Good(log, bin.gen, e))
  <2> HIDE DEF ix
  <2>1. LET d == replay_journal(ix, log, "live").gen
        IN  d <= idx.gen /\ (d = idx.gen => Good(log, ix.gen, d))
    BY <1>0, <1>4, <1>5, RisingEnd
  <2>2. replay_journal(ix, log, "live") = Follow(bin, log)
    BY DEF Follow, ix
  <2>3. QED
    BY <1>4, <2>1, <2>2
<1>8. /\ Follow(bin, log').tab \in committed
      /\ Follow(bin, log').gen = idx.gen + 1 => Follow(bin, log').tab = idx.tab
  <2>1. CASE e = idx.gen
    <3>1. /\ \A k \in Keys \ dirty : Follow(bin, log').tab[k] = Follow(bin, log).tab[k]
          /\ \A k \in dirty : Follow(bin, log').tab[k] = idx.tab[k]
      <4> DEFINE after == replay_journal(ix, Append(log, r), "live")
                 before == replay_journal(ix, log, "live")
      <4>1. before = Follow(bin, log) /\ after = Follow(bin, log')
        BY <1>0 DEF Follow
      <4>2. Good(log, ix.gen, before.gen) /\ r.gen = before.gen + 1 /\ r.sealed
        BY <1>2, <1>4, <1>7, <2>1, <4>1
      <4> HIDE DEF ix
      <4>3. /\ \A k \in Keys \ DOMAIN r.upd : after.tab[k] = before.tab[k]
            /\ \A k \in Keys \cap DOMAIN r.upd : after.tab[k] = r.upd[k].ver
        BY <1>0, <1>2, <1>4, <4>2, ReplayAppend
      <4> HIDE DEF after, before
      <4>4. QED
        BY <1>0, <1>2, <4>1, <4>3
    <3>2. Follow(bin, log').tab \in Tables
      BY <1>3, <1>6, FollowIs
    <3>3. \A k \in Keys : Follow(bin, log').tab[k] = idx.tab[k]
      BY <1>5, <2>1, <3>1
    <3>4. Follow(bin, log').tab = idx.tab
      BY <1>0, <3>2, <3>3 DEF Tables
    <3>5. QED
      BY <1>1, <3>4
  <2>2. CASE e # idx.gen
    <3>1. e + 1 < r.gen
      BY <1>0, <1>2, <1>4, <1>7, <2>2
    <3>2. Follow(bin, log') = Follow(bin, log)
      <4>1. replay_journal(ix, log, "live") = Follow(bin, log)
        BY DEF Follow
      <4>2. replay_journal(ix, Append(log, r), "live") = Follow(bin, log')
        BY <1>0 DEF Follow
      <4>3. replay_journal(ix, log, "live").gen + 1 < r.gen /\ Over(log, ix.gen)
        BY <1>4, <1>5, <3>1, <4>1
      <4> HIDE DEF ix
      <4>4. replay_journal(ix, Append(log, r), "live") = replay_journal(ix, log, "live")
        BY <1>0, <1>2, <1>4, <1>5, <4>3, ReplayGap
      <4>5. QED
        BY <4>1, <4>2, <4>4
    <3>3. e # idx.gen + 1
      BY <1>0, <1>4, <1>7
    <3>4. QED
      BY <1>5, <3>2, <3>3
  <2>3. QED
    BY <2>1, <2>2
<1>9. Continues(bin, log', committed)
  BY <1>6, <1>8 DEF Continues
<1>10. LiveTrail' /\ BlankTrail' /\ SwapTrail'
  BY <1>0, <1>3, <1>9 DEF LiveTrail, BlankTrail, SwapTrail
<1>11. PrevTrail'
  <2>1. SUFFICES ASSUME SealHolds(prev)
                 PROVE  PrevTrail'
    BY <1>0 DEF PrevTrail
  <2>2. /\ Continues(prev, logprev, committed) /\ prev.gen < bin.gen /\ Under(logprev, bin.gen)
        /\ Over(log, prev.gen + 1)
        /\ \A j \in DOMAIN logprev : Over(log, logprev[j].gen + 1)
    BY <1>0, <1>3, <2>1 DEF Trail, PrevTrail
  <2>3. ASSUME NEW b \in Nat, b < bin.gen, Over(log, b + 1)
        PROVE  Over(log', b + 1)
    <3>1. b + 1 < idx.gen + 1
      BY <1>0, <1>4, <1>5, <2>3
    <3>2. /\ Len(log) \in Nat /\ DOMAIN log = 1..Len(log)
          /\ DOMAIN log' = 1..(Len(log) + 1)
          /\ \A i \in 1..Len(log) : log'[i] = log[i]
          /\ log'[Len(log) + 1] = r
      BY <1>0, <1>2, AppendProperties, JournalTyped DEF Journals
    <3>3. \A i \in DOMAIN log' : (i \in DOMAIN log /\ log'[i] = log[i]) \/ log'[i] = r
      BY <3>2
    <3>4. QED
      BY <1>2, <2>3, <3>1, <3>3 DEF Over
  <2>4. prev.gen \in Nat /\ \A j \in DOMAIN logprev : logprev[j].gen \in Nat /\ logprev[j].gen < bin.gen
    <3>1. prev.gen \in Nat
      BY <1>0, <2>1, FileKinds
    <3>2. QED
      BY <1>0, <2>2, <3>1, JournalTyped DEF Under
  <2>5. Over(log', prev.gen + 1) /\ \A j \in DOMAIN logprev : Over(log', logprev[j].gen + 1)
    BY <2>2, <2>3, <2>4
  <2>6. QED
    BY <1>0, <2>2, <2>5 DEF PrevTrail
<1>12. OldTrail'
  BY <1>0 DEF Trail, OldTrail, Never
<1>13. HeldTrail'
  <2>1. bin'.gen <= idx'.gen /\ Under(log', idx'.gen + 1)
    BY <1>0, <1>1, <1>4, <1>5, <1>6
  <2>2. Follow(bin', log').gen = idx'.gen => Follow(bin', log').tab = idx'.tab
    BY <1>0, <1>1, <1>8
  <2>3. QED
    BY <1>0, <1>3, <2>1, <2>2 DEF HeldTrail
<1>14. QED
  BY <1>10, <1>11, <1>12, <1>13 DEF Trail

\* And so do the renames of a snapshot and the rotation of the journals.
LEMMA SwapStep ==
  ASSUME Types, Types', Sealed, Asked, Trail, save_retire \/ save_install \/ save_rotate
  PROVE  Trail'
<1>0. /\ bin \in Files /\ prev \in Files /\ log \in Journals /\ logprev \in Journals
      /\ idx \in Indexes /\ idx.gen \in Nat /\ idx.tab \in Tables
      /\ UNCHANGED <<idx, committed, met>> /\ encode_index(idx)' = encode_index(idx)
      /\ NoFile # Corrupt /\ ~SealHolds(NoFile) /\ ~SealHolds(Corrupt)
      /\ Never({"rot"})' <=> Never({"rot"})
  BY DEF Types, Indexes, save_retire, save_install, save_rotate, ReturnOk, mem, hist, env, NoFile,
         Corrupt, SealHolds, Never
<1>1. encode_index(idx) \in Snapshots /\ encode_index(idx).kind = "v2"
      /\ encode_index(idx).gen = idx.gen /\ encode_index(idx).tab = idx.tab
  BY <1>0, EncodeTyped
<1>2. CASE save_retire
  <2>1. /\ prev' = (IF bin = NoFile THEN prev ELSE bin) /\ bin' = NoFile
        /\ UNCHANGED <<tmp, log, logprev>> /\ pc = "retire" /\ pc' = "install"
        /\ Standing /\ ~Standing'
    BY <1>2 DEF save_retire, Standing
  <2>2. bin # NoFile /\ prev' = bin
    BY <2>1 DEF Trail, BlankTrail
  <2>3. SealHolds(bin) => /\ Continues(bin, log, committed)
                          /\ bin.gen < idx.gen /\ Under(log, idx.gen)
    BY <2>1 DEF Trail, LiveTrail, HeldTrail
  <2>4. SwapTrail'
    BY <1>0, <2>1, <2>2, <2>3 DEF Trail, SwapTrail
  <2>5. LiveTrail' /\ BlankTrail' /\ PrevTrail' /\ HeldTrail'
    BY <1>0, <2>1 DEF LiveTrail, BlankTrail, PrevTrail, HeldTrail
  <2>6. OldTrail'
    <3>1. SUFFICES ASSUME Never({"rot"})
                   PROVE  SealHolds(prev') /\ Under(logprev', prev'.gen + 1)
      BY <1>0, <2>1 DEF OldTrail
    <3>2. SealHolds(bin) /\ bin \in Snapshots
      BY <1>0, <2>2, <3>1, FileKinds DEF Sealed
    <3>3. Under(logprev, bin.gen) /\ bin.gen \in Nat
      BY <2>1, <3>1, <3>2 DEF Trail, OldTrail, Snapshots
    <3>4. Under(logprev, bin.gen + 1)
      BY <1>0, <3>3, JournalTyped DEF Under
    <3>5. QED
      BY <2>1, <2>2, <3>2, <3>4
  <2>7. QED
    BY <2>4, <2>5, <2>6 DEF Trail
<1>3. CASE save_install
  <2>1. /\ bin' = tmp /\ UNCHANGED <<prev, log, logprev>> /\ pc = "install" /\ pc' = "rotate"
        /\ ~Standing /\ ~Standing'
    BY <1>3 DEF save_install, Standing
  <2>2. bin' = encode_index(idx)
    BY <2>1 DEF Trail, SwapTrail
  <2>3. SwapTrail'
    BY <1>0, <2>1, <2>2 DEF Trail, SwapTrail
  <2>4. LiveTrail' /\ BlankTrail' /\ PrevTrail' /\ HeldTrail'
    BY <1>1, <2>1, <2>2 DEF LiveTrail, BlankTrail, PrevTrail, HeldTrail
  <2>5. OldTrail'
    BY <1>0, <2>1 DEF Trail, OldTrail
  <2>6. QED
    BY <2>3, <2>4, <2>5 DEF Trail
<1>4. CASE save_rotate
  <2>1. /\ UNCHANGED <<bin, prev>> /\ logprev' = log /\ log' = <<>> /\ pc = "rotate" /\ pc' = "idle"
        /\ ~Standing /\ Standing'
    BY <1>4 DEF save_rotate, ReturnOk, Standing
  <2>2. bin = encode_index(idx) /\ idx.tab \in committed
    BY <2>1 DEF Trail, SwapTrail, Asked
  <2>3. /\ bin \in Snapshots /\ bin.kind = "v2" /\ bin.gen = idx.gen /\ bin.tab = idx.tab
        /\ SealHolds(bin) /\ bin # NoFile
    BY <1>0, <1>1, <2>2 DEF SealHolds
  <2>4. /\ Follow(bin, <<>>) = decode_index(bin)
        /\ decode_index(bin).gen = bin.gen /\ decode_index(bin).tab = bin.tab
    BY <1>0, <2>3, FollowIs
  <2>5. Continues(bin, <<>>, committed)
    BY <2>2, <2>3, <2>4 DEF Continues, Rising, Over
  <2>6. LiveTrail' /\ BlankTrail' /\ SwapTrail'
    BY <1>0, <2>1, <2>3, <2>5 DEF LiveTrail, BlankTrail, SwapTrail
  <2>7. SealHolds(prev) => Continues(prev, log, committed) /\ prev.gen < idx.gen /\ Under(log, idx.gen)
    BY <2>1 DEF Trail, SwapTrail
  <2>8. \A b : Over(log', b)
    BY <2>1 DEF Over
  <2>9. PrevTrail'
    BY <1>0, <2>1, <2>3, <2>7, <2>8 DEF PrevTrail
  <2>10. OldTrail'
    BY <1>0, <2>1, <2>3, <2>7 DEF Trail, OldTrail
  <2>11. HeldTrail'
    <3>1. Under(log', idx'.gen + 1) /\ bin'.gen <= idx'.gen
      BY <1>0, <2>1, <2>3 DEF Under
    <3>2. Follow(bin', log').tab = idx'.tab
      BY <1>0, <2>1, <2>3, <2>4
    <3>3. QED
      BY <2>1, <2>3, <3>1, <3>2 DEF HeldTrail
  <2>12. QED
    BY <2>6, <2>9, <2>10, <2>11 DEF Trail
<1>5. QED
  BY <1>2, <1>3, <1>4

\* Every step that is not a crash inside a save or a failed record pack keeps
\* the trail.
LEMMA TrailStep ==
  ASSUME Types, Types', Sealed, Asked, Uncut, Trail, [Next]_vars, Uncut'
  PROVE  Trail'
<1>0. /\ committed \subseteq committed' /\ met \subseteq met'
      /\ bin \in Files /\ log \in Journals /\ idx.gen \in Nat
  BY AskedStep, MetGrows DEF Types, Indexes
<1>1. ASSUME UNCHANGED <<bin, prev, log, logprev>>, Standing, Standing',
             pc' = "down" \/ pc # "down", HeldTrail', SwapTrail'
      PROVE  Trail'
  BY <1>0, <1>1, FilesStay DEF Trail
<1>2. ASSUME UNCHANGED <<bin, prev, log, logprev, snap>>, pc \in {"idle", "save"}, pc' \in {"idle", "save"},
             idx'.gen = idx.gen,
             \A k \in Keys \ dirty' : k \notin dirty /\ idx'.tab[k] = idx.tab[k]
      PROVE  Trail'
  <2>1. HeldTrail' /\ SwapTrail' /\ Standing /\ Standing'
    BY <1>2 DEF Trail, HeldTrail, SwapTrail, Standing
  <2>2. QED
    BY <1>1, <1>2, <2>1
<1>3. CASE UNCHANGED vars
  <2>1. UNCHANGED <<bin, prev, tmp, log, logprev, pc, idx, dirty, snap, committed, met>>
    BY <1>3 DEF vars, disk, mem, hist, env
  <2>2. QED
    BY <2>1 DEF Trail, LiveTrail, BlankTrail, PrevTrail, OldTrail, HeldTrail, SwapTrail, Standing, Never
<1>4. CASE open_inner
  BY <1>4, OpenTrail
<1>5. CASE begin_publish_batch
  <2>1. UNCHANGED <<bin, prev, log, logprev, snap, pc, idx, dirty>> /\ pc = "idle"
    BY <1>5 DEF begin_publish_batch, disk
  <2>2. QED
    BY <1>2, <2>1
<1>6. CASE \E k \in Keys, v \in Versions : publish_asset(k, v)
  BY <1>2, <1>6, PublishIs
<1>7. CASE \E b \in BOOLEAN : commit_publish_batch(b)
  BY <1>2, <1>7, CommitIs
<1>8. CASE \E k \in Keys : unpublish_asset(k)
  BY <1>2, <1>8, UnpublishIs
<1>9. CASE gc_records
  BY <1>2, <1>9 DEF gc_records, StartSave, mem
<1>10. CASE save_large_records
  BY <1>2, <1>10, LargeIs DEF save_large_records
<1>11. CASE save_append
  BY <1>11, AppendTrail
<1>12. CASE save_move_records
  <2>1. /\ UNCHANGED <<bin, prev, log, logprev, snap>> /\ pc = "save" /\ pc' = "stage"
        /\ idx'.gen = idx.gen + 1
    BY <1>12, MoveIs DEF save_move_records
  <2>2. SealHolds(bin) => bin.gen <= idx.gen /\ Under(log, idx.gen + 1) /\ bin.gen \in Nat
    BY <1>0, <2>1, FileKinds DEF Trail, HeldTrail
  <2>3. SealHolds(bin) => bin.gen < idx'.gen /\ Under(log, idx'.gen)
    BY <1>0, <2>1, <2>2
  <2>4. HeldTrail' /\ SwapTrail' /\ Standing /\ Standing'
    BY <2>1, <2>3 DEF Trail, HeldTrail, SwapTrail, Standing
  <2>5. QED
    BY <1>1, <2>1, <2>4
<1>13. CASE save_stage
  <2>1. /\ UNCHANGED <<bin, prev, log, logprev, snap, idx>> /\ pc = "stage" /\ pc' = "retire"
        /\ tmp' = encode_index(idx) /\ encode_index(idx)' = encode_index(idx)
    BY <1>13 DEF save_stage, mem
  <2>2. HeldTrail' /\ SwapTrail' /\ Standing /\ Standing'
    BY <2>1 DEF Trail, HeldTrail, SwapTrail, Standing
  <2>3. QED
    BY <1>1, <2>1, <2>2
<1>14. CASE save_retire \/ save_install \/ save_rotate
  BY <1>14, SwapStep
<1>15. CASE append_fails
  <2>1. UNCHANGED <<bin, prev, logprev, snap, idx, dirty>> /\ pc = "save" /\ pc' = "idle"
    BY <1>15 DEF append_fails, ReturnErr, mem
  <2>2. log' = log
    BY <1>15, CutEffect
  <2>3. QED
    BY <1>2, <2>1, <2>2
<1>16. CASE stage_fails
  <2>1. UNCHANGED <<bin, prev, log, logprev, snap, idx, dirty>> /\ pc = "stage" /\ pc' = "idle"
    BY <1>16 DEF stage_fails, ReturnErr, disk, mem
  <2>2. ASSUME SealHolds(bin)
        PROVE  /\ bin.gen <= idx.gen /\ Under(log, idx.gen + 1)
               /\ Follow(bin, log).gen # idx.gen
    <3>1. /\ bin.gen < idx.gen /\ Under(log, idx.gen) /\ Rising(log) /\ Over(log, bin.gen)
          /\ bin \in Snapshots /\ bin.gen \in Nat
      BY <1>0, <2>1, <2>2, FileKinds DEF Trail, HeldTrail, LiveTrail, Continues, Standing
    <3> DEFINE b == idx.gen - 1
               ix == decode_index(bin)
    <3>2. b \in Nat /\ bin.gen <= b /\ b + 1 = idx.gen /\ ix \in Indexes /\ ix.gen = bin.gen
      BY <1>0, <3>1, FollowIs
    <3>3. Follow(bin, log) = replay_journal(ix, log, "live")
      BY DEF Follow
    <3> HIDE DEF b, ix
    <3>4. replay_journal(ix, log, "live").gen \in Nat /\ replay_journal(ix, log, "live").gen <= b
      BY <1>0, <3>1, <3>2, RisingEnd
    <3>5. Under(log, idx.gen + 1)
      BY <1>0, <3>1, JournalTyped DEF Under
    <3>6. QED
      BY <1>0, <3>1, <3>2, <3>3, <3>4, <3>5
  <2>3. HeldTrail' /\ SwapTrail' /\ Standing /\ Standing'
    BY <2>1, <2>2 DEF Trail, HeldTrail, SwapTrail, Standing
  <2>4. QED
    BY <1>1, <2>1, <2>3
<1>17. CASE bin_rots
  <2>1. /\ pc = "down" /\ pc' = "down" /\ SealHolds(bin) /\ SealHolds(prev) /\ bin' = Corrupt
        /\ UNCHANGED <<prev, log, logprev, committed>> /\ ~Never({"rot"})'
        /\ ~SealHolds(Corrupt) /\ Corrupt # NoFile /\ Standing /\ Standing'
    BY <1>17 DEF bin_rots, Inject, hist, Never, SealHolds, Corrupt, NoFile, Standing
  <2>2. LiveTrail' /\ BlankTrail' /\ OldTrail' /\ HeldTrail' /\ SwapTrail'
    BY <2>1 DEF LiveTrail, BlankTrail, OldTrail, HeldTrail, SwapTrail
  <2>3. PrevTrail'
    BY <2>1 DEF Trail, PrevTrail
  <2>4. QED
    BY <2>2, <2>3 DEF Trail
<1>18. CASE pack_fails \/ dies_in_save \/ dies_appending
  <2>1. met' \cap {"midsave", "pack"} # {}
    BY <1>18 DEF pack_fails, dies_in_save, dies_appending, Inject
  <2>2. QED
    BY <2>1 DEF Uncut, Never
<1>19. CASE exits
  <2>1. UNCHANGED <<bin, prev, log, logprev>> /\ pc = "idle" /\ pc' = "down"
    BY <1>19 DEF exits, Ends
  <2>2. HeldTrail' /\ SwapTrail' /\ Standing /\ Standing'
    BY <2>1 DEF HeldTrail, SwapTrail, Standing
  <2>3. QED
    BY <1>1, <2>1, <2>2
<1>20. QED
  BY <1>3, <1>4, <1>5, <1>6, <1>7, <1>8, <1>9, <1>10, <1>11, <1>12, <1>13, <1>14, <1>15, <1>16,
     <1>17, <1>18, <1>19 DEF Next, Save, Fault

\* The inductive invariant.
KnownInv == LedgerInv /\ Asked /\ (Clean => Answered) /\ (Uncut => Trail)

\* It holds of a store that was never opened.
LEMMA KnownInit ==
  ASSUME Init
  PROVE  KnownInv
<1>0. /\ LedgerInv /\ Types
      /\ pc = "down" /\ prev = NoFile /\ log = <<>> /\ logprev = <<>>
      /\ acked = flat /\ attempt = flat /\ committed = {flat}
      /\ ~SealHolds(NoFile) /\ DOMAIN <<>> = {} /\ Standing
  <2>1. LedgerInv
    BY InvInit
  <2>2. /\ pc = "down" /\ prev = NoFile /\ log = <<>> /\ logprev = <<>>
        /\ acked = flat /\ attempt = flat /\ committed = {flat}
    BY DEF Init
  <2>3. ~SealHolds(NoFile) /\ DOMAIN <<>> = {}
    BY DEF SealHolds, NoFile
  <2>4. QED
    BY <2>1, <2>2, <2>3 DEF LedgerInv, Standing
<1>1. Asked /\ Answered
  BY <1>0 DEF Asked, Answered
<1>2. BlankTrail /\ PrevTrail /\ OldTrail /\ HeldTrail /\ SwapTrail
  <2>1. BlankTrail
    BY <1>0 DEF BlankTrail, Init, NoFile
  <2>2. PrevTrail /\ HeldTrail /\ SwapTrail
    BY <1>0 DEF PrevTrail, HeldTrail, SwapTrail
  <2>3. OldTrail
    BY <1>0 DEF OldTrail, Under
  <2>4. QED
    BY <2>1, <2>2, <2>3
<1>3. LiveTrail
  <2>1. SUFFICES ASSUME SealHolds(bin)
                 PROVE  Continues(bin, <<>>, {flat})
    BY <1>0 DEF LiveTrail
  <2>2. bin = [kind |-> "v1", gen |-> 0, tab |-> flat, loc |-> [k \in Keys |-> NoLoc]]
    BY <1>0, <2>1 DEF Init
  <2>3. bin \in Snapshots /\ bin.tab = flat /\ log \in Journals
    BY <1>0, <2>1, <2>2, FileKinds DEF Types
  <2>4. Follow(bin, <<>>).tab = flat
    BY <2>3, FollowIs
  <2>5. QED
    BY <2>4 DEF Continues, Rising, Over
<1>4. QED
  BY <1>0, <1>1, <1>2, <1>3 DEF KnownInv, Trail

\* And every step keeps it.
LEMMA KnownStep ==
  ASSUME KnownInv, [Next]_vars
  PROVE  KnownInv'
<1>0. Types /\ Sealed /\ Asked /\ LedgerInv /\ met \subseteq met'
  BY MetGrows DEF KnownInv, LedgerInv
<1>1. LedgerInv' /\ Types'
  BY <1>0, InvStep DEF LedgerInv
<1>2. Asked'
  BY <1>0, AskedStep
<1>3. ASSUME Clean'
      PROVE  Answered'
  <2>1. Clean
    BY <1>0, <1>3 DEF Clean, Never
  <2>2. Answered /\ (pc = "down" => Recovered.tab \in {acked, attempt})
    BY <1>0, <2>1, InvIsWhole DEF KnownInv, Table
  <2>3. QED
    BY <1>0, <2>2, AnsweredStep
<1>4. ASSUME Uncut'
      PROVE  Trail'
  <2>1. Uncut
    BY <1>0, <1>4 DEF Uncut, Never
  <2>2. Trail
    BY <2>1 DEF KnownInv
  <2>3. QED
    BY <1>0, <1>1, <1>4, <2>1, <2>2, TrailStep
<1>5. QED
  BY <1>1, <1>2, <1>3, <1>4 DEF KnownInv

\* A reopened store has a table that some save was asked to persist, never a
\* mixture of saves: however many snapshots fail to be written and leave gaps
\* in the journal, and however often index.bin is lost and index.bin.prev takes
\* its place, if then no crash strikes inside a save; or wherever crashes
\* strike, if no snapshot failed and none was lost.  The generations of
\* replay_journal_from against the rotation of write_snapshot.
THEOREM TableAlwaysKnown == Spec => []KnownTable
<1>1. KnownInv => KnownTable
  <2>1. SUFFICES ASSUME KnownInv, Never({"pack"}), Never({"rot"}) \/ pc = "down",
                        Never({"rot", "stage"}) \/ Never({"midsave"})
                 PROVE  Recovered.tab \in committed
    BY DEF KnownTable
  <2>2. LedgerInv /\ Types /\ Sealed /\ Asked
    BY <2>1 DEF KnownInv, LedgerInv
  <2>3. CASE Never({"rot", "stage"})
    <3>1. Clean
      BY <2>1, <2>3 DEF Clean, Never
    <3>2. Answered /\ Whole /\ Table
      BY <2>1, <2>2, <3>1, InvIsWhole DEF KnownInv
    <3>3. pc \in {"down", "idle", "save", "stage", "retire", "install", "rotate"}
      BY <2>2 DEF Types
    <3>4. Recovered.tab \in {acked, attempt}
      BY <3>2, <3>3 DEF Table
    <3>5. QED
      BY <3>2, <3>4 DEF Answered
  <2>4. CASE Never({"midsave"})
    <3>1. Uncut
      BY <2>1, <2>4 DEF Uncut, Never
    <3>2. Trail
      BY <2>1, <3>1 DEF KnownInv
    <3>3. CASE Standing
      BY <2>2, <3>1, <3>2, <3>3, StandingKnown
    <3>4. CASE ~Standing
      BY <2>1, <2>2, <3>2, <3>4, SwapKnown DEF Standing
    <3>5. QED
      BY <3>3, <3>4
  <2>5. QED
    BY <2>1, <2>3, <2>4
<1>2. Init => KnownInv
  BY KnownInit
<1>3. KnownInv /\ [Next]_vars => KnownInv'
  BY KnownStep
<1>4. QED
  BY <1>1, <1>2, <1>3, PTL DEF Spec
===========================================================================
