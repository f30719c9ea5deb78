------------------------- MODULE LfsTransfer_proofs -------------------------
(***************************************************************************)
(* Proofs about LfsTransfer and the pool of AdaptiveFetch it starts.       *)
(***************************************************************************)
EXTENDS LfsTransfer, Orders_proofs

Groups == [pack : SUBSET Chunks, chunks : SUBSET Chunks]

Working == {"budget", "blocked", "get", "get again", "decode", "alone",
            "alone again", "decode alone", "error"}

Places == Working \union {"idle", "loop", "gate", "parked", "claim", "release",
                          "release failed", "leave", "exit", "done"}

Controllers == [limit : Nat, window_start : Nat, pressure : BOOLEAN,
                last_decrease : Nat \union {Never}]

PoolTyped ==
    /\ missing \in Seq(Groups) /\ next \in Nat \ {0}
    /\ failed \in BOOLEAN /\ cancel \in BOOLEAN /\ trouble \in BOOLEAN
    /\ pc \in [Workers -> Places]
    /\ group \in [Workers -> Groups]
    /\ left \in [Workers -> SUBSET Chunks]
    /\ active \in Nat /\ used \in Nat
    /\ aimd \in Controllers
    /\ now \in Nat /\ pushback \in Nat \union {Never}

(* A worker stops, or gives up its group, only for a reason it leaves.       *)
StopsForReason ==
    /\ failed => first_error # "none"
    /\ \A w \in Workers : /\ pc[w] = "release" => left[w] = {}
                          /\ pc[w] = "release failed" => failed
                          /\ pc[w] = "exit" => failed \/ next > Len(missing)

(* A claimed group is cached or somebody is at it; an unclaimed one has      *)
(* somebody who will claim it.                                               *)
ClaimedInHand ==
    \A i \in DOMAIN missing :
        i < next => \/ first_error # "none"
                    \/ missing[i].chunks \subseteq cache
                    \/ \E w \in Workers : pc[w] \in Working /\ missing[i].chunks \subseteq cache \union left[w]

UnclaimedWaited ==
    first_error = "none" /\ next <= Len(missing) =>
        \E w \in Workers : pc[w] \notin {"idle", "done", "exit"}

(* The push-backs of a window that is not spoilt are older than the window.  *)
WindowKnows ==
    /\ aimd.window_start <= now
    /\ pushback # Never => pushback <= now /\ (aimd.pressure \/ pushback <= aimd.window_start)

PoolInv == PoolTyped /\ SlotsExact /\ StopsForReason /\ ClaimedInHand
           /\ UnclaimedWaited /\ WindowKnows

(* Outside a fetch there is no pool.                                         *)
PoolAtRest ==
    stage # "fetching" =>
        /\ \A w \in Workers : pc[w] = "idle"
        /\ first_error = "none" /\ ~cancel /\ ~failed

------------------------------------------------------------------------------
(* A push.                                                                   *)

Exporting == {"packs", "pack torn", "chunk map", "chunk map torn", "manifest", "manifest torn"}

Sessions == Exporting \union {"none", "open", "meta pack", "meta index"}

Files == {"absent", "torn", "whole"}

PushTyped ==
    /\ session \in Sessions /\ ledger \in SUBSET Oids /\ batch \in SUBSET Oids
    /\ pack_of \in [Chunks -> SUBSET Chunks]
    /\ pending \in Seq(Oids) /\ pos \in Nat \ {0}
    /\ acked \in SUBSET Oids /\ published \in SUBSET Oids
    /\ chunk_map \in [Oids -> Files] /\ manifest \in [Oids -> Files]
    /\ open_pack \in SUBSET Chunks
    /\ meta_packs \in Seq(Seq(Oids)) /\ meta_index \in Seq(Seq(Oids))

(* What the ledger says is in packs, and nothing else is exported.           *)
LedgerBacks ==
    /\ \A o \in Oids : manifest[o] # "absent" => o \in ledger
    /\ \A o \in ledger : \A c \in ChunksOf[o] : pack_of[c] # {}
    /\ \A i \in DOMAIN pending : pending[i] \in ledger \union batch
    /\ session # "open" => batch = {}
    /\ session = "none" => pending = <<>> /\ acked = {}

(* A queued object is queued once, and has no manifest before its turn.      *)
QueueExact ==
    /\ \A i, j \in DOMAIN pending : pending[i] = pending[j] => i = j
    /\ \A i \in DOMAIN pending : pending[i] \in acked
    /\ session \in Exporting => pos \in DOMAIN pending
    /\ session \in {"open"} \union Exporting =>
         \A i \in DOMAIN pending :
            session = "open" \/ i > pos \/ (i = pos /\ session # "manifest torn") =>
                manifest[pending[i]] = "absent"
    /\ session = "manifest torn" => manifest[pending[pos]] = "torn"
    /\ session \in Exporting => \A i \in DOMAIN pending : i < pos => manifest[pending[i]] = "whole"
    /\ session \in {"meta pack", "meta index"} =>
         \A i \in DOMAIN pending : manifest[pending[i]] = "whole"

(* Its packs are written before its chunk map, that before its manifest, and *)
(* the meta-pack before the index.                                           *)
ExportOrdered ==
    /\ session \in {"chunk map", "chunk map torn", "manifest", "manifest torn"} =>
         \A c \in ChunksOf[pending[pos]] : whole(pack_of[c])
    /\ session \in {"manifest", "manifest torn"} => chunk_map[pending[pos]] = "whole"
    /\ session = "meta index" => pending = <<>> \/ pending \in Range(meta_packs)

(* What was acknowledged is queued, or has a manifest.                       *)
AckedKept ==
    /\ \A o \in acked : manifest[o] # "absent" \/ \E i \in DOMAIN pending : pending[i] = o
    /\ \A o \in published : manifest[o] # "absent"

(* Every chunk of an ingested object is in the store or in the open pack,    *)
(* and no chunk is in both: not after a failed upload, either.               *)
OpenPackExact ==
    /\ \A o \in batch : \A c \in ChunksOf[o] : pack_of[c] # {} \/ c \in open_pack
    /\ \A c \in open_pack : pack_of[c] = {}
    /\ session # "open" => open_pack = {}

(* Every meta-pack of the tree, those no index names included, is of objects *)
(* that can be fetched: an index rebuilt from them promises nothing else.    *)
PacksServed == \A m \in Range(meta_packs) : \A o \in Range(m) : Servable(o)

PushInv ==
    /\ PushTyped /\ LedgerBacks /\ QueueExact /\ ExportOrdered /\ AckedKept /\ ManifestReady
    /\ OpenPackExact /\ PacksServed

------------------------------------------------------------------------------
(* A pull.                                                                   *)

PullTyped ==
    /\ stage \in {"idle", "index", "mapped", "single", "resolved", "fetching"}
    /\ stage # "idle" => want \in Oids /\ session = "none" /\ result = "none"
    /\ result \in {"failed", "not found"} => want \in Oids
    /\ l1 \in SUBSET Oids /\ l2 \in [Oids -> Seq(Oids)] /\ index \in Seq(Seq(Oids))

(* What is resolved can be fetched.                                          *)
ResolvedServed ==
    /\ \A i \in DOMAIN index : \A o \in Range(index[i]) : Servable(o)
    /\ \A o \in l1 : Servable(o)
    /\ stage \in {"index", "mapped", "single"} => manifest[want] # "absent"
    /\ stage \in {"resolved", "fetching"} => Servable(want)

(* The pool was started for every chunk that is not cached, and its packs    *)
(* are whole.                                                                *)
PlannedAll ==
    stage = "fetching" =>
        /\ \A c \in ChunksOf[want] : c \in cache \/ \E i \in DOMAIN missing : c \in missing[i].chunks
        /\ \A i \in DOMAIN missing : whole(missing[i].pack)
        /\ \A w \in Workers : pc[w] \in Working => whole(group[w].pack)

(* Nothing fails in a pool whose remote answers.                             *)
Untroubled ==
    ~trouble => /\ ~failed /\ ~cancel /\ first_error = "none"
                /\ \A w \in Workers : pc[w] \notin {"get again", "alone", "alone again",
                                                     "decode alone", "error", "release failed"}

(* A failure has its cause before any later push, which leaves it alone.     *)
CauseKept ==
    /\ result = "failed" => \/ trouble
                            \/ /\ manifest[want] = "torn"
                               /\ \A i \in DOMAIN pending : pending[i] # want
    /\ result = "not found" => want \notin began

PullInv == PullTyped /\ PoolAtRest /\ ResolvedServed /\ PlannedAll /\ Untroubled /\ CauseKept

Inv == PoolInv /\ PushInv /\ PullInv

------------------------------------------------------------------------------
(* Counting.                                                                 *)

\* The bytes of a group fit the budget.
LEMMA SpanRange ==
  ASSUME NEW g \in Groups
  PROVE  span(g) \in 0..MaxBytes
<1>1. IsFiniteSet(g.chunks)
  BY AdaptiveFetchAssumption, FS_Subset DEF Groups
<1>2. Cardinality(g.chunks) \in Nat /\ MaxBytes \in Nat
  BY <1>1, AdaptiveFetchAssumption, FS_CardinalityType
<1>3. QED
  BY <1>2, MinOfTwo DEF span

(* The bytes of one worker are as many as its span.                          *)
LEMMA OwnBytes ==
  ASSUME NEW w, NEW n \in Nat
  PROVE  IsFiniteSet({w} \X (1..n)) /\ Cardinality({w} \X (1..n)) = n
<1>1. IsFiniteSet({w}) /\ Cardinality({w}) = 1
  BY FS_Singleton
<1>2. IsFiniteSet(1..n) /\ Cardinality(1..n) = n
  BY FS_Interval
<1>3. /\ IsFiniteSet({w} \X (1..n))
      /\ Cardinality({w} \X (1..n)) = Cardinality({w}) * Cardinality(1..n)
  BY <1>1, <1>2, FS_Product
<1>4. QED
  BY <1>1, <1>2, <1>3

\* The workers that hold a slot are finitely many.
LEMMA HoldersFinite ==
  /\ IsFiniteSet(holding) /\ Cardinality(holding) \in Nat
  /\ IsFiniteSet(in_flight) /\ Cardinality(in_flight) \in Nat
<1>1. IsFiniteSet(Workers) /\ MaxBytes \in Nat
  BY AdaptiveFetchAssumption
<1>2. IsFiniteSet(holding)
  BY <1>1, FS_Subset DEF holding
<1>3. IsFiniteSet(loading)
  BY <1>2, FS_Subset DEF loading
<1>4. IsFiniteSet(loading \X (1..MaxBytes))
  BY <1>1, <1>3, FS_Product, FS_Interval
<1>5. in_flight \in SUBSET (loading \X (1..MaxBytes))
  BY DEF in_flight
<1>6. IsFiniteSet(in_flight)
  BY <1>4, <1>5, FS_Subset
<1>7. QED
  BY <1>2, <1>6, FS_CardinalityType

------------------------------------------------------------------------------
(* Slots and permits.                                                        *)

Outside == {"idle", "loop", "gate", "parked", "done"}

Unloaded == {"claim", "budget", "blocked", "leave", "exit"}

(* Who moves within its part of the loop takes and gives back nothing.       *)
LEMMA SlotsKept ==
  ASSUME \A v \in Workers : /\ pc'[v] \in Outside <=> pc[v] \in Outside
                            /\ pc'[v] \in Unloaded <=> pc[v] \in Unloaded,
         \A v \in loading : group'[v] = group[v]
  PROVE  holding' = holding /\ in_flight' = in_flight
<1>1. holding' = holding
  BY DEF holding, Outside
<1>2. loading' = loading
  BY <1>1 DEF loading, holding, Unloaded
<1>3. in_flight' = in_flight
  BY <1>2 DEF in_flight, span
<1>4. QED
  BY <1>1, <1>3

\* Slots and bytes stay exact when nobody takes or returns one.
LEMMA SlotsExactKept ==
  ASSUME SlotsExact, holding' = holding, in_flight' = in_flight,
         UNCHANGED <<active, used>>, aimd'.limit \in MinLimit..Cardinality(Workers)
  PROVE  SlotsExact'
  BY DEF SlotsExact

(* The controller keeps its limit in range and knows the last push-back.     *)
LEMMA OnPressure ==
  ASSUME PoolTyped, SlotsExact, WindowKnows
  PROVE  /\ on_pressure \in Controllers
         /\ on_pressure.limit \in MinLimit..Cardinality(Workers)
         /\ on_pressure.limit <= aimd.limit
         /\ on_pressure.pressure = TRUE
         /\ on_pressure.window_start = aimd.window_start
<1> DEFINE half == aimd.limit \div 2
           lower == Max({half, MinLimit})
           halved == [aimd EXCEPT !.pressure = TRUE, !.limit = lower, !.last_decrease = now]
           spoilt == [aimd EXCEPT !.pressure = TRUE]
<1>1. MinLimit \in Nat \ {0} /\ Cardinality(Workers) \in Nat
  BY AdaptiveFetchAssumption, FS_CardinalityType
<1>2. aimd \in Controllers /\ now \in Nat /\ aimd.limit \in MinLimit..Cardinality(Workers)
  BY DEF PoolTyped, SlotsExact
<1>3. aimd.limit \in Nat /\ half \in Nat
  BY <1>2 DEF Controllers
<1>4. lower \in Nat /\ lower >= MinLimit
  <2> HIDE DEF half
  <2>1. QED
    BY <1>1, <1>3, MaxOfTwo
<1>5. on_pressure = spoilt \/ (on_pressure = halved /\ lower < aimd.limit)
  BY DEF on_pressure
<1> HIDE DEF half, lower
<1>6. CASE on_pressure = spoilt
  <2>1. spoilt \in Controllers
    BY <1>2 DEF Controllers
  <2>2. /\ spoilt.limit = aimd.limit /\ spoilt.pressure = TRUE
        /\ spoilt.window_start = aimd.window_start
    BY <1>2 DEF Controllers
  <2>3. QED
    BY <1>2, <1>3, <1>6, <2>1, <2>2
<1>7. CASE on_pressure = halved /\ lower < aimd.limit
  <2>1. halved \in Controllers
    BY <1>2, <1>4 DEF Controllers
  <2>2. /\ halved.limit = lower /\ halved.pressure = TRUE
        /\ halved.window_start = aimd.window_start
    BY <1>2 DEF Controllers
  <2>3. lower \in MinLimit..Cardinality(Workers)
    BY <1>1, <1>2, <1>3, <1>4, <1>7
  <2>4. QED
    BY <1>3, <1>4, <1>7, <2>1, <2>2, <2>3
<1>8. QED
  BY <1>5, <1>6, <1>7

\* What AimdController::on_success returns.
LEMMA OnSuccess ==
  ASSUME PoolTyped, SlotsExact, WindowKnows
  PROVE  /\ on_success \in Controllers
         /\ on_success.limit \in MinLimit..Cardinality(Workers)
         /\ on_success.window_start <= now
         /\ pushback # Never => on_success.pressure \/ pushback <= on_success.window_start
         /\ on_success.limit > aimd.limit =>
               ~aimd.pressure /\ now - aimd.window_start >= Window
<1> DEFINE higher == Min({aimd.limit + 1, Cardinality(Workers)})
           raised == [aimd EXCEPT !.limit = higher, !.window_start = now, !.pressure = FALSE]
           closed == [aimd EXCEPT !.window_start = now, !.pressure = FALSE]
<1>1. MinLimit \in Nat \ {0} /\ Cardinality(Workers) \in Nat /\ Window \in Nat
  BY AdaptiveFetchAssumption, FS_CardinalityType
<1>2. /\ aimd \in Controllers /\ now \in Nat /\ pushback \in Nat \union {Never}
      /\ aimd.limit \in MinLimit..Cardinality(Workers)
  BY DEF PoolTyped, SlotsExact
<1>3. aimd.limit \in Nat /\ aimd.window_start \in Nat
  BY <1>2 DEF Controllers
<1>4. higher \in aimd.limit..Cardinality(Workers)
  BY <1>1, <1>2, <1>3, MinOfTwo
<1>5. \/ on_success = aimd
      \/ on_success = closed
      \/ on_success = raised /\ ~aimd.pressure /\ ~(now - aimd.window_start < Window)
  BY <1>2 DEF on_success, Controllers
<1> HIDE DEF higher
<1>6. CASE on_success = aimd
  BY <1>2, <1>3, <1>6 DEF WindowKnows
<1>7. CASE on_success = closed
  <2>1. closed \in Controllers
    BY <1>2 DEF Controllers
  <2>2. closed.limit = aimd.limit /\ closed.window_start = now
    BY <1>2 DEF Controllers
  <2>3. QED
    BY <1>2, <1>3, <1>7, <2>1, <2>2 DEF WindowKnows
<1>8. CASE on_success = raised /\ ~aimd.pressure /\ ~(now - aimd.window_start < Window)
  <2>1. higher \in Nat /\ higher \in MinLimit..Cardinality(Workers)
    BY <1>1, <1>2, <1>3, <1>4
  <2>2. raised \in Controllers
    BY <1>2, <2>1 DEF Controllers
  <2>3. raised.limit = higher /\ raised.window_start = now
    BY <1>2 DEF Controllers
  <2>4. now - aimd.window_start >= Window
    BY <1>1, <1>2, <1>3, <1>8
  <2>5. QED
    BY <1>2, <1>8, <2>1, <2>2, <2>3, <2>4 DEF WindowKnows
<1>9. QED
  BY <1>5, <1>6, <1>7, <1>8

------------------------------------------------------------------------------
(* The pool keeps its invariant, one step of a worker after the other.       *)

\* The pool's invariant is kept when a worker begins its loop.
LEMMA LoopKeeps ==
  ASSUME PoolInv, NEW w \in Workers, loop(w)
  PROVE  PoolInv'
<1> USE DEF PoolInv
<1>1. /\ pc[w] = "loop" /\ pc' = [pc EXCEPT ![w] = IF failed \/ cancel THEN "done" ELSE "gate"]
      /\ failed' = (failed \/ cancel)
      /\ first_error' = IF ~failed /\ cancel /\ first_error = "none" THEN "cancelled" ELSE first_error
      /\ UNCHANGED <<cache, missing, next, cancel, group, left, active, used, aimd, now, pushback, trouble>>
  BY DEF loop, To
<1>2. PoolTyped'
  BY <1>1 DEF PoolTyped, Places, Working
<1>3. holding' = holding /\ in_flight' = in_flight
  <2>1. \A v \in Workers : /\ pc'[v] \in Outside <=> pc[v] \in Outside
                           /\ pc'[v] \in Unloaded <=> pc[v] \in Unloaded
    BY <1>1 DEF PoolTyped, Outside, Unloaded
  <2>2. QED
    BY <1>1, <2>1, SlotsKept
<1>4. SlotsExact'
  BY <1>1, <1>3, SlotsExactKept DEF SlotsExact
<1>5. StopsForReason'
  BY <1>1 DEF PoolTyped, StopsForReason
<1>6. ClaimedInHand'
  BY <1>1 DEF PoolTyped, ClaimedInHand, Working
<1>7. UnclaimedWaited'
  BY <1>1 DEF PoolTyped, UnclaimedWaited, StopsForReason
<1>8. WindowKnows'
  BY <1>1 DEF WindowKnows
<1>9. QED
  BY <1>2, <1>4, <1>5, <1>6, <1>7, <1>8

\* The pool keeps its invariant when a worker enters the gate or begins to
\* wait there.
LEMMA EnterKeeps ==
  ASSUME PoolInv, NEW w \in Workers, enter(w)
  PROVE  PoolInv'
<1> USE DEF PoolInv
<1>1. /\ pc[w] = "gate"
      /\ UNCHANGED <<cache, missing, next, failed, first_error, cancel, group, left,
                     used, aimd, now, pushback, trouble>>
      /\ \/ active' = active + 1 /\ pc' = [pc EXCEPT ![w] = "claim"]
         \/ active' = active /\ pc' = [pc EXCEPT ![w] = IF failed THEN "done" ELSE "parked"]
  BY DEF enter, To
<1>2. PoolTyped'
  <2>1. pc' \in [Workers -> Places]
    BY <1>1 DEF PoolTyped, Places
  <2>2. active' \in Nat
    BY <1>1 DEF PoolTyped
  <2>3. QED
    BY <1>1, <2>1, <2>2 DEF PoolTyped
<1>3. SlotsExact'
  <2>1. CASE active' = active + 1 /\ pc' = [pc EXCEPT ![w] = "claim"]
    <3>1. holding' = holding \union {w} /\ w \notin holding
      BY <1>1, <2>1 DEF holding, PoolTyped
    <3>2. loading' = loading
      BY <1>1, <2>1, <3>1 DEF holding, loading, PoolTyped
    <3>3. in_flight' = in_flight
      BY <1>1, <3>2 DEF in_flight, span
    <3>4. Cardinality(holding') = Cardinality(holding) + 1
      BY <3>1, HoldersFinite, FS_AddElement
    <3>5. QED
      BY <1>1, <2>1, <3>3, <3>4 DEF SlotsExact
  <2>2. CASE active' = active /\ pc' = [pc EXCEPT ![w] = IF failed THEN "done" ELSE "parked"]
    <3>1. \A v \in Workers : /\ pc'[v] \in Outside <=> pc[v] \in Outside
                             /\ pc'[v] \in Unloaded <=> pc[v] \in Unloaded
      BY <1>1, <2>2 DEF PoolTyped, Outside, Unloaded
    <3>2. holding' = holding /\ in_flight' = in_flight
      BY <1>1, <3>1, SlotsKept
    <3>3. QED
      BY <1>1, <2>2, <3>2, SlotsExactKept DEF SlotsExact
  <2>3. QED
    BY <1>1, <2>1, <2>2
<1>4. StopsForReason'
  BY <1>1 DEF PoolTyped, StopsForReason
<1>5. ClaimedInHand'
  BY <1>1 DEF PoolTyped, ClaimedInHand, Working
<1>6. UnclaimedWaited'
  BY <1>1 DEF PoolTyped, UnclaimedWaited, StopsForReason
<1>7. WindowKnows'
  BY <1>1 DEF WindowKnows
<1>8. QED
  BY <1>2, <1>3, <1>4, <1>5, <1>6, <1>7

\* The pool keeps its invariant when a worker is woken at the gate.
LEMMA WakeKeeps ==
  ASSUME PoolInv, NEW w \in Workers, wake(w)
  PROVE  PoolInv'
<1> USE DEF PoolInv
<1>1. /\ pc[w] = "parked" /\ pc' = [pc EXCEPT ![w] = "gate"]
      /\ UNCHANGED <<cache, missing, next, failed, first_error, cancel, group, left,
                     active, used, aimd, now, pushback, trouble>>
  BY DEF wake, To
<1>2. PoolTyped'
  <2>1. pc' \in [Workers -> Places]
    BY <1>1 DEF PoolTyped, Places
  <2>2. QED
    BY <1>1, <2>1 DEF PoolTyped
<1>3. SlotsExact'
  <2>1. \A v \in Workers : /\ pc'[v] \in Outside <=> pc[v] \in Outside
                           /\ pc'[v] \in Unloaded <=> pc[v] \in Unloaded
    BY <1>1 DEF PoolTyped, Outside, Unloaded
  <2>2. holding' = holding /\ in_flight' = in_flight
    BY <1>1, <2>1, SlotsKept
  <2>3. QED
    BY <1>1, <2>2, SlotsExactKept DEF SlotsExact
<1>4. StopsForReason'
  BY <1>1 DEF PoolTyped, StopsForReason
<1>5. ClaimedInHand'
  BY <1>1 DEF PoolTyped, ClaimedInHand, Working
<1>6. UnclaimedWaited'
  BY <1>1 DEF PoolTyped, UnclaimedWaited
<1>7. WindowKnows'
  BY <1>1 DEF WindowKnows
<1>8. QED
  BY <1>2, <1>3, <1>4, <1>5, <1>6, <1>7

\* The pool keeps its invariant when a worker claims the next group.
LEMMA ClaimKeeps ==
  ASSUME PoolInv, NEW w \in Workers, claim(w)
  PROVE  PoolInv'
<1> USE DEF PoolInv
<1>1. /\ pc[w] = "claim" /\ next' = next + 1
      /\ UNCHANGED <<cache, missing, failed, first_error, cancel, active, used, aimd,
                     now, pushback, trouble>>
      /\ \/ /\ next > Len(missing)
            /\ pc' = [pc EXCEPT ![w] = "exit"]
            /\ UNCHANGED <<group, left>>
         \/ /\ ~(next > Len(missing))
            /\ pc' = [pc EXCEPT ![w] = "budget"]
            /\ group' = [group EXCEPT ![w] = missing[next]]
            /\ left' = [left EXCEPT ![w] = missing[next].chunks]
  BY DEF claim, To
<1>2. missing \in Seq(Groups) /\ Len(missing) \in Nat /\ next \in Nat \ {0}
  BY DEF PoolTyped
<1>3. ~(next > Len(missing)) => next \in DOMAIN missing /\ missing[next] \in Groups
                                /\ missing[next].chunks \in SUBSET Chunks
  <2> SUFFICES ASSUME ~(next > Len(missing))
               PROVE  /\ next \in DOMAIN missing /\ missing[next] \in Groups
                      /\ missing[next].chunks \in SUBSET Chunks
    OBVIOUS
  <2>1. next \in 1..Len(missing)
    BY <1>2
  <2>2. next \in DOMAIN missing /\ missing[next] \in Groups
    BY <1>2, <2>1
  <2>3. QED
    BY <2>2 DEF Groups
<1>4. PoolTyped'
  <2>1. pc' \in [Workers -> Places]
    BY <1>1 DEF PoolTyped, Places, Working
  <2>2. group' \in [Workers -> Groups] /\ left' \in [Workers -> SUBSET Chunks]
    BY <1>1, <1>3 DEF PoolTyped
  <2>3. QED
    BY <1>1, <2>1, <2>2 DEF PoolTyped
<1>5. SlotsExact'
  <2>1. \A v \in Workers : /\ pc'[v] \in Outside <=> pc[v] \in Outside
                           /\ pc'[v] \in Unloaded <=> pc[v] \in Unloaded
    BY <1>1 DEF PoolTyped, Outside, Unloaded
  <2>2. \A v \in loading : group'[v] = group[v]
    BY <1>1 DEF PoolTyped, loading, holding
  <2>3. holding' = holding /\ in_flight' = in_flight
    BY <2>1, <2>2, SlotsKept
  <2>4. QED
    BY <1>1, <2>3, SlotsExactKept DEF SlotsExact
<1>6. StopsForReason'
  <2>1. next > Len(missing) => next' > Len(missing')
    BY <1>1, <1>2
  <2>2. \A v \in Workers : /\ pc'[v] = "release" => left'[v] = {}
                           /\ pc'[v] = "release failed" => failed'
                           /\ pc'[v] = "exit" => failed' \/ next' > Len(missing')
    BY <1>1, <2>1 DEF PoolTyped, StopsForReason
  <2>3. QED
    BY <1>1, <2>2 DEF StopsForReason
<1>7. ClaimedInHand'
  <2> SUFFICES ASSUME NEW i \in DOMAIN missing, i < next + 1
               PROVE  \/ first_error # "none"
                      \/ missing[i].chunks \subseteq cache
                      \/ \E v \in Workers : /\ pc'[v] \in Working
                                            /\ missing[i].chunks \subseteq cache \union left'[v]
    BY <1>1 DEF ClaimedInHand
  <2>1. CASE i < next
    <3>1. \A v \in Workers : pc[v] \in Working => pc'[v] \in Working /\ left'[v] = left[v]
      BY <1>1 DEF PoolTyped, Working
    <3>2. QED
      BY <2>1, <3>1 DEF ClaimedInHand
  <2>2. CASE i = next
    <3>1. ~(next > Len(missing))
      BY <1>2, <2>2
    <3>2. pc'[w] \in Working /\ left'[w] = missing[i].chunks
      BY <1>1, <2>2, <3>1 DEF PoolTyped, Working
    <3>3. QED
      BY <3>2
  <2>3. QED
    BY <1>2, <2>1, <2>2
<1>8. UnclaimedWaited'
  BY <1>1, <1>2 DEF PoolTyped, UnclaimedWaited
<1>9. WindowKnows'
  BY <1>1 DEF WindowKnows
<1>10. QED
  BY <1>4, <1>5, <1>6, <1>7, <1>8, <1>9

\* The pool keeps its invariant when a worker takes its bytes of the budget.
LEMMA AcquireKeeps ==
  ASSUME PoolInv, NEW w \in Workers, acquire(w)
  PROVE  PoolInv'
<1> USE DEF PoolInv
<1>1. /\ pc[w] = "budget"
      /\ UNCHANGED <<cache, missing, next, failed, first_error, cancel, group, left, active,
                     aimd, now, pushback, trouble>>
      /\ \/ /\ used + span(group[w]) <= MaxBytes
            /\ used' = used + span(group[w])
            /\ pc' = [pc EXCEPT ![w] = "get"]
         \/ used' = used /\ pc' = [pc EXCEPT ![w] = "blocked"]
  BY DEF acquire, To
<1>2. used \in Nat /\ MaxBytes \in Nat /\ span(group[w]) \in 0..MaxBytes
  BY AdaptiveFetchAssumption, SpanRange DEF PoolTyped
<1>3. PoolTyped'
  <2>1. pc' \in [Workers -> Places]
    BY <1>1 DEF PoolTyped, Places, Working
  <2>2. used' \in Nat
    BY <1>1, <1>2
  <2>3. QED
    BY <1>1, <2>1, <2>2 DEF PoolTyped
<1>4. SlotsExact'
  <2>1. CASE /\ used + span(group[w]) <= MaxBytes
             /\ used' = used + span(group[w])
             /\ pc' = [pc EXCEPT ![w] = "get"]
    <3> DEFINE own == {w} \X (1..span(group[w]))
    <3>1. holding' = holding /\ w \in holding
      BY <1>1, <2>1 DEF PoolTyped, holding
    <3>2. loading' = loading \union {w} /\ w \notin loading
      BY <1>1, <2>1, <3>1 DEF PoolTyped, loading, holding
    <3>3. in_flight' = in_flight \union own /\ in_flight \cap own = {}
      <4>1. group' = group /\ \A g : span(g)' = span(g)
        BY <1>1 DEF span
      <4>2. in_flight' = {b \in loading' \X (1..MaxBytes) : b[2] <= span(group[b[1]])}
        BY <4>1 DEF in_flight
      <4>3. QED
        BY <1>2, <3>2, <4>2 DEF in_flight
    <3>4. IsFiniteSet(own) /\ Cardinality(own) = span(group[w])
      <4>1. span(group[w]) \in Nat
        BY <1>2
      <4>2. QED
        BY <4>1, OwnBytes
    <3>5. Cardinality(in_flight') = Cardinality(in_flight) + span(group[w])
      <4> HIDE DEF own
      <4>1. Cardinality(in_flight \union own) =
               Cardinality(in_flight) + Cardinality(own) - Cardinality(in_flight \cap own)
        BY <3>4, HoldersFinite, FS_Union
      <4>2. Cardinality(in_flight \cap own) = 0
        BY <3>3, FS_EmptySet
      <4>3. QED
        BY <1>2, <3>3, <3>4, <4>1, <4>2, HoldersFinite
    <3>6. QED
      BY <1>1, <2>1, <3>1, <3>5 DEF SlotsExact
  <2>2. CASE used' = used /\ pc' = [pc EXCEPT ![w] = "blocked"]
    <3>1. \A v \in Workers : /\ pc'[v] \in Outside <=> pc[v] \in Outside
                             /\ pc'[v] \in Unloaded <=> pc[v] \in Unloaded
      BY <1>1, <2>2 DEF PoolTyped, Outside, Unloaded
    <3>2. holding' = holding /\ in_flight' = in_flight
      BY <1>1, <3>1, SlotsKept
    <3>3. QED
      BY <1>1, <2>2, <3>2, SlotsExactKept DEF SlotsExact
  <2>3. QED
    BY <1>1, <2>1, <2>2
<1>5. StopsForReason'
  BY <1>1 DEF PoolTyped, StopsForReason
<1>6. ClaimedInHand'
  BY <1>1 DEF PoolTyped, ClaimedInHand, Working
<1>7. UnclaimedWaited'
  BY <1>1 DEF PoolTyped, UnclaimedWaited
<1>8. WindowKnows'
  BY <1>1 DEF WindowKnows
<1>9. QED
  BY <1>3, <1>4, <1>5, <1>6, <1>7, <1>8

\* The pool keeps its invariant when a worker gets its range, whole or chunk
\* by chunk.
LEMMA GetRangeKeeps ==
  ASSUME PoolInv, NEW w \in Workers, get_group(w) \/ get_alone(w)
  PROVE  PoolInv'
<1> USE DEF PoolInv
<1>0. now \in Nat /\ now <= now
  <2>1. now \in Nat
    BY DEF PoolTyped
  <2>2. QED
    BY <2>1
<1>1. PICK q \in {"get again", "decode", "alone again", "decode alone", "error"} :
         /\ pc[w] \in {"get", "get again", "alone", "alone again"}
         /\ pc' = [pc EXCEPT ![w] = q]
         /\ UNCHANGED <<cache, missing, next, failed, first_error, cancel, group, left, active,
                        used, now, trouble>>
         /\ \/ UNCHANGED <<aimd, pushback>>
            \/ aimd' = on_pressure /\ pushback' = now
  BY DEF get_group, get_alone, get_range, To
<1>2. /\ aimd' \in Controllers /\ pushback' \in Nat \union {Never}
      /\ aimd'.limit \in MinLimit..Cardinality(Workers)
      /\ WindowKnows'
  <2>1. CASE UNCHANGED <<aimd, pushback>>
    BY <1>1, <2>1 DEF PoolTyped, WindowKnows, SlotsExact
  <2>2. CASE aimd' = on_pressure /\ pushback' = now
    BY <1>0, <1>1, <2>2, OnPressure DEF WindowKnows
  <2>3. QED
    BY <1>1, <2>1, <2>2
<1>3. PoolTyped'
  <2>1. pc' \in [Workers -> Places]
    BY <1>1 DEF PoolTyped, Places, Working
  <2>2. QED
    BY <1>1, <1>2, <2>1 DEF PoolTyped
<1>4. SlotsExact'
  <2>1. \A v \in Workers : /\ pc'[v] \in Outside <=> pc[v] \in Outside
                           /\ pc'[v] \in Unloaded <=> pc[v] \in Unloaded
    BY <1>1 DEF PoolTyped, Outside, Unloaded
  <2>2. holding' = holding /\ in_flight' = in_flight
    BY <1>1, <2>1, SlotsKept
  <2>3. QED
    BY <1>1, <1>2, <2>2, SlotsExactKept
<1>5. StopsForReason'
  BY <1>1 DEF PoolTyped, StopsForReason
<1>6. ClaimedInHand'
  <2>1. \A v \in Workers : pc[v] \in Working => pc'[v] \in Working
    BY <1>1 DEF PoolTyped, Working
  <2>2. QED
    BY <1>1, <2>1 DEF ClaimedInHand
<1>7. UnclaimedWaited'
  <2>1. \A v \in Workers : pc[v] \notin {"idle", "done", "exit"} => pc'[v] \notin {"idle", "done", "exit"}
    BY <1>1 DEF PoolTyped
  <2>2. QED
    BY <1>1, <2>1 DEF UnclaimedWaited
<1>8. QED
  BY <1>2, <1>3, <1>4, <1>5, <1>6, <1>7

\* The pool keeps its invariant when a worker decodes what it got.
LEMMA DecodeKeeps ==
  ASSUME PoolInv, NEW w \in Workers, decode(w)
  PROVE  PoolInv'
<1> USE DEF PoolInv
<1>1. PICK q \in {"decode", "alone", "error"} :
         /\ pc[w] \in {"decode", "decode alone"}
         /\ pc' = [pc EXCEPT ![w] = q]
         /\ UNCHANGED <<missing, next, failed, first_error, cancel, group, active, used, aimd,
                        now, pushback, trouble>>
         /\ \/ UNCHANGED <<cache, left>>
            \/ /\ cache' = cache \union {Min(left[w])}
               /\ left' = [left EXCEPT ![w] = left[w] \ {Min(left[w])}]
  BY DEF decode, To
<1>2. PoolTyped'
  <2>1. pc' \in [Workers -> Places]
    BY <1>1 DEF PoolTyped, Places, Working
  <2>2. left' \in [Workers -> SUBSET Chunks]
    BY <1>1 DEF PoolTyped
  <2>3. QED
    BY <1>1, <2>1, <2>2 DEF PoolTyped
<1>3. SlotsExact'
  <2>1. \A v \in Workers : /\ pc'[v] \in Outside <=> pc[v] \in Outside
                           /\ pc'[v] \in Unloaded <=> pc[v] \in Unloaded
    BY <1>1 DEF PoolTyped, Outside, Unloaded
  <2>2. holding' = holding /\ in_flight' = in_flight
    BY <1>1, <2>1, SlotsKept
  <2>3. QED
    BY <1>1, <2>2, SlotsExactKept DEF SlotsExact
<1>4. StopsForReason'
  BY <1>1 DEF PoolTyped, StopsForReason
<1>5. ClaimedInHand'
  <2>1. \A v \in Workers : pc[v] \in Working => pc'[v] \in Working
    BY <1>1 DEF PoolTyped, Working
  <2>2. cache \subseteq cache' /\ \A v \in Workers : cache \union left[v] \subseteq cache' \union left'[v]
    BY <1>1 DEF PoolTyped
  <2>3. QED
    BY <1>1, <2>1, <2>2 DEF ClaimedInHand
<1>6. UnclaimedWaited'
  <2>1. \A v \in Workers : pc[v] \notin {"idle", "done", "exit"} => pc'[v] \notin {"idle", "done", "exit"}
    BY <1>1 DEF PoolTyped
  <2>2. QED
    BY <1>1, <2>1 DEF UnclaimedWaited
<1>7. WindowKnows'
  BY <1>1 DEF WindowKnows
<1>8. QED
  BY <1>2, <1>3, <1>4, <1>5, <1>6, <1>7

\* The pool keeps its invariant when a worker reports a success.
LEMMA SucceedKeeps ==
  ASSUME PoolInv, NEW w \in Workers, succeed(w)
  PROVE  PoolInv'
<1> USE DEF PoolInv
<1>1. /\ pc[w] = "decode" /\ left[w] = {} /\ aimd' = on_success
      /\ pc' = [pc EXCEPT ![w] = "release"]
      /\ UNCHANGED <<cache, missing, next, failed, first_error, cancel, group, left, active,
                     used, now, pushback, trouble>>
  BY DEF succeed, To
<1>2. PoolTyped'
  <2>1. pc' \in [Workers -> Places]
    BY <1>1 DEF PoolTyped, Places, Working
  <2>2. aimd' \in Controllers
    BY <1>1, OnSuccess
  <2>3. QED
    BY <1>1, <2>1, <2>2 DEF PoolTyped
<1>3. SlotsExact'
  <2>1. \A v \in Workers : /\ pc'[v] \in Outside <=> pc[v] \in Outside
                           /\ pc'[v] \in Unloaded <=> pc[v] \in Unloaded
    BY <1>1 DEF PoolTyped, Outside, Unloaded
  <2>2. holding' = holding /\ in_flight' = in_flight
    BY <1>1, <2>1, SlotsKept
  <2>3. QED
    BY <1>1, <2>2, OnSuccess, SlotsExactKept
<1>4. StopsForReason'
  BY <1>1 DEF PoolTyped, StopsForReason
<1>5. ClaimedInHand'
  <2>1. \A v \in Workers : pc[v] \in Working => pc'[v] \in Working \/ left[v] = {}
    BY <1>1 DEF PoolTyped, Working
  <2>2. QED
    BY <1>1, <2>1 DEF ClaimedInHand
<1>6. UnclaimedWaited'
  <2>1. \A v \in Workers : pc[v] \notin {"idle", "done", "exit"} => pc'[v] \notin {"idle", "done", "exit"}
    BY <1>1 DEF PoolTyped
  <2>2. QED
    BY <1>1, <2>1 DEF UnclaimedWaited
<1>7. WindowKnows'
  BY <1>1, OnSuccess DEF WindowKnows
<1>8. QED
  BY <1>2, <1>3, <1>4, <1>5, <1>6, <1>7

\* The pool keeps its invariant when a worker reports a failure.
LEMMA FailKeeps ==
  ASSUME PoolInv, NEW w \in Workers, fail(w)
  PROVE  PoolInv'
<1> USE DEF PoolInv
<1>1. /\ pc[w] = "error" /\ aimd' = on_pressure /\ pushback' = now
      /\ first_error' # "none" /\ failed' = TRUE
      /\ pc' = [pc EXCEPT ![w] = "release failed"]
      /\ UNCHANGED <<cache, missing, next, cancel, group, left, active, used, now, trouble>>
  BY DEF fail, To
<1>2. now \in Nat /\ aimd.window_start \in Nat
  BY DEF PoolTyped, Controllers
<1>3. PoolTyped'
  <2>1. pc' \in [Workers -> Places]
    BY <1>1 DEF PoolTyped, Places, Working
  <2>2. aimd' \in Controllers
    BY <1>1, OnPressure
  <2>3. QED
    BY <1>1, <1>2, <2>1, <2>2 DEF PoolTyped
<1>4. SlotsExact'
  <2>1. \A v \in Workers : /\ pc'[v] \in Outside <=> pc[v] \in Outside
                           /\ pc'[v] \in Unloaded <=> pc[v] \in Unloaded
    BY <1>1 DEF PoolTyped, Outside, Unloaded
  <2>2. holding' = holding /\ in_flight' = in_flight
    BY <1>1, <2>1, SlotsKept
  <2>3. QED
    BY <1>1, <2>2, OnPressure, SlotsExactKept
<1>5. StopsForReason'
  BY <1>1 DEF PoolTyped, StopsForReason
<1>6. ClaimedInHand' /\ UnclaimedWaited'
  BY <1>1 DEF ClaimedInHand, UnclaimedWaited
<1>7. WindowKnows'
  <2>1. now <= now
    BY <1>2
  <2>2. QED
    BY <1>1, <2>1, OnPressure DEF WindowKnows
<1>8. QED
  BY <1>3, <1>4, <1>5, <1>6, <1>7

\* The pool keeps its invariant when a worker returns its bytes.
LEMMA ReleaseKeeps ==
  ASSUME PoolInv, NEW w \in Workers, release(w)
  PROVE  PoolInv'
<1> USE DEF PoolInv
<1> DEFINE own == {w} \X (1..span(group[w]))
<1>1. /\ pc[w] \in {"release", "release failed"}
      /\ used' = used - span(group[w])
      /\ pc' = [[v \in Workers |-> IF pc[v] = "blocked" THEN "budget" ELSE pc[v]]
                   EXCEPT ![w] = IF pc[w] = "release" THEN "leave" ELSE "exit"]
      /\ group' = [group EXCEPT ![w] = NoGroup]
      /\ left' = [left EXCEPT ![w] = {}]
      /\ UNCHANGED <<cache, missing, next, failed, first_error, cancel, active, aimd, now,
                     pushback, trouble>>
  BY DEF release
<1>2. used \in Nat /\ MaxBytes \in Nat /\ span(group[w]) \in 0..MaxBytes /\ span(group[w]) \in Nat
  BY AdaptiveFetchAssumption, SpanRange DEF PoolTyped
<1>3. /\ pc'[w] \in {"leave", "exit"} /\ (pc'[w] = "exit" => pc[w] = "release failed")
      /\ \A v \in Workers \ {w} : pc'[v] = IF pc[v] = "blocked" THEN "budget" ELSE pc[v]
  BY <1>1
<1>4. holding' = holding
  BY <1>1, <1>3 DEF holding
<1>5. loading' = loading \ {w} /\ w \in loading
  BY <1>1, <1>3 DEF loading, holding
<1>6. in_flight' = in_flight \ own /\ own \subseteq in_flight
  <2>1. \A g : span(g)' = span(g)
    BY DEF span
  <2>2. \A v \in loading' : group'[v] = group[v]
    BY <1>1, <1>5 DEF PoolTyped, loading, holding
  <2>3. in_flight' = {b \in loading' \X (1..MaxBytes) : b[2] <= span(group[b[1]])}
    BY <2>1, <2>2 DEF in_flight, span
  <2>4. QED
    BY <1>2, <1>5, <2>3 DEF in_flight
<1>7. Cardinality(in_flight') = used - span(group[w])
  <2>1. IsFiniteSet(own) /\ Cardinality(own) = span(group[w])
    BY <1>2, OwnBytes
  <2> HIDE DEF own
  <2>2. Cardinality(in_flight \ own) = Cardinality(in_flight) - Cardinality(in_flight \cap own)
    BY HoldersFinite, FS_Difference
  <2>3. in_flight \cap own = own
    BY <1>6
  <2>4. used = Cardinality(in_flight)
    BY DEF SlotsExact
  <2>5. QED
    BY <1>6, <2>1, <2>2, <2>3, <2>4
<1>8. IsFiniteSet(in_flight') /\ Cardinality(in_flight') \in Nat
  BY <1>6, HoldersFinite, FS_Difference, FS_CardinalityType
<1>9. PoolTyped'
  <2>1. pc' \in [Workers -> Places]
    BY <1>1, <1>3 DEF PoolTyped, Places, Working
  <2>2. used' \in Nat
    BY <1>1, <1>7, <1>8
  <2>3. group' \in [Workers -> Groups] /\ left' \in [Workers -> SUBSET Chunks]
    BY <1>1 DEF PoolTyped, NoGroup, Groups
  <2>4. QED
    BY <1>1, <2>1, <2>2, <2>3 DEF PoolTyped
<1>10. SlotsExact'
  <2>1. used <= MaxBytes
    BY DEF SlotsExact
  <2>2. used' = used - span(group[w])
    BY <1>1
  <2>3. used' <= MaxBytes
    BY <1>2, <2>1, <2>2
  <2>4. QED
    BY <1>1, <1>4, <1>7, <2>3 DEF SlotsExact
<1>11. StopsForReason'
  BY <1>1, <1>3 DEF PoolTyped, StopsForReason
<1>12. ClaimedInHand'
  <2>1. \A v \in Workers : pc[v] \in Working => pc'[v] \in Working /\ left'[v] = left[v]
    BY <1>1, <1>3 DEF PoolTyped, Working
  <2>2. QED
    BY <1>1, <2>1 DEF ClaimedInHand
<1>13. UnclaimedWaited'
  <2>1. \A v \in Workers : pc[v] \notin {"idle", "done", "exit"} =>
                               pc'[v] \notin {"idle", "done", "exit"} \/ failed
    BY <1>1, <1>3 DEF PoolTyped, StopsForReason
  <2>2. QED
    BY <1>1, <2>1 DEF UnclaimedWaited, StopsForReason
<1>14. WindowKnows'
  BY <1>1 DEF WindowKnows
<1>15. QED
  BY <1>9, <1>10, <1>11, <1>12, <1>13, <1>14

\* The pool keeps its invariant when a worker leaves the gate.
LEMMA LeaveKeeps ==
  ASSUME PoolInv, NEW w \in Workers, leave(w)
  PROVE  PoolInv'
<1> USE DEF PoolInv
<1>1. /\ pc[w] \in {"leave", "exit"} /\ active' = active - 1
      /\ pc' = [pc EXCEPT ![w] = IF pc[w] = "leave" THEN "loop" ELSE "done"]
      /\ UNCHANGED <<cache, missing, next, failed, first_error, cancel, group, left, used,
                     aimd, now, pushback, trouble>>
  BY DEF leave, To
<1>2. holding' = holding \ {w} /\ w \in holding
  BY <1>1 DEF holding, PoolTyped
<1>3. in_flight' = in_flight
  <2>1. loading' = loading
    BY <1>1, <1>2 DEF loading, holding, PoolTyped
  <2>2. QED
    BY <1>1, <2>1 DEF in_flight, span
<1>4. Cardinality(holding') = active - 1 /\ Cardinality(holding') \in Nat
  <2>1. IsFiniteSet(holding') /\ Cardinality(holding') = Cardinality(holding) - 1
    BY <1>2, HoldersFinite, FS_RemoveElement
  <2>2. QED
    BY <2>1, FS_CardinalityType DEF SlotsExact
<1>5. PoolTyped'
  <2>1. pc' \in [Workers -> Places]
    BY <1>1 DEF PoolTyped, Places
  <2>2. QED
    BY <1>1, <1>4, <2>1 DEF PoolTyped
<1>6. SlotsExact'
  BY <1>1, <1>3, <1>4 DEF SlotsExact
<1>7. StopsForReason'
  BY <1>1 DEF PoolTyped, StopsForReason
<1>8. ClaimedInHand'
  <2>1. \A v \in Workers : pc[v] \in Working => pc'[v] \in Working
    BY <1>1 DEF PoolTyped, Working
  <2>2. QED
    BY <1>1, <2>1 DEF ClaimedInHand
<1>9. UnclaimedWaited'
  <2>1. \A v \in Workers : pc[v] \notin {"idle", "done", "exit"} => pc'[v] \notin {"idle", "done", "exit"}
    BY <1>1 DEF PoolTyped
  <2>2. QED
    BY <1>1, <2>1 DEF UnclaimedWaited
<1>10. WindowKnows'
  BY <1>1 DEF WindowKnows
<1>11. QED
  BY <1>5, <1>6, <1>7, <1>8, <1>9, <1>10

\* The pool keeps its invariant when the caller cancels or time passes.
LEMMA CallerKeeps ==
  ASSUME PoolInv, cancel_fetch \/ tick
  PROVE  PoolInv'
<1> USE DEF PoolInv
<1>1. /\ UNCHANGED <<cache, missing, next, failed, first_error, pc, group, left, active, used,
                     aimd, pushback, trouble>>
      /\ cancel' \in BOOLEAN
      /\ now' = now \/ now' = now + 1
  BY DEF cancel_fetch, tick, PoolTyped
<1>2. now \in Nat /\ now' \in Nat /\ now <= now'
  <2>1. now \in Nat
    BY DEF PoolTyped
  <2>2. QED
    BY <1>1, <2>1
<1>3. PoolTyped'
  BY <1>1, <1>2 DEF PoolTyped
<1>4. SlotsExact'
  BY <1>1, SlotsKept, SlotsExactKept DEF SlotsExact
<1>5. StopsForReason' /\ ClaimedInHand' /\ UnclaimedWaited'
  BY <1>1 DEF StopsForReason, ClaimedInHand, UnclaimedWaited
<1>6. WindowKnows'
  <2>1. aimd.window_start \in Nat /\ pushback \in Nat \union {Never}
    BY DEF PoolTyped, Controllers
  <2>2. aimd.window_start <= now'
    BY <1>2, <2>1 DEF WindowKnows
  <2>3. pushback # Never => pushback <= now'
    BY <1>2, <2>1 DEF WindowKnows
  <2>4. QED
    BY <1>1, <2>2, <2>3 DEF WindowKnows
<1>7. QED
  BY <1>3, <1>4, <1>5, <1>6

\* Every step of the pool keeps its invariant.
LEMMA PoolStepKeeps ==
  ASSUME PoolInv, PoolNext
  PROVE  PoolInv'
  BY LoopKeeps, EnterKeeps, WakeKeeps, ClaimKeeps, AcquireKeeps, GetRangeKeeps, DecodeKeeps,
     SucceedKeeps, FailKeeps, ReleaseKeeps, LeaveKeeps, CallerKeeps DEF PoolNext, Worker

(* A pool that has just been started, and one that is gone.                  *)
LEMMA NobodyHolds ==
  ASSUME \A w \in Workers : pc[w] \in Outside
  PROVE  holding = {} /\ in_flight = {} /\ Cardinality(holding) = 0 /\ Cardinality(in_flight) = 0
<1>1. holding = {}
  BY DEF holding, Outside
<1>2. in_flight = {}
  BY <1>1 DEF in_flight, loading
<1>3. QED
  BY <1>1, <1>2, FS_EmptySet

\* A new controller starts inside its limits.
LEMMA FreshController ==
  /\ AimdController \in Controllers
  /\ AimdController.limit \in MinLimit..Cardinality(Workers)
  /\ AimdController.window_start = 0
<1>1. Cardinality(Workers) \in Nat
  BY AdaptiveFetchAssumption, FS_CardinalityType
<1>2. QED
  BY <1>1, AdaptiveFetchAssumption DEF AimdController, Controllers

(* spawn starts somebody if there is a group to fetch.                       *)
LEMMA Crew ==
  ASSUME NEW n \in Nat, n > 0
  PROVE  \E w \in Workers : w \in {SetToSeq(Workers)[i] : i \in 1..Min({Cardinality(Workers), n})}
<1>1. Cardinality(Workers) \in Nat /\ Cardinality(Workers) > 0
  BY AdaptiveFetchAssumption, FS_CardinalityType
<1>2. PICK f \in [1..Cardinality(Workers) -> Workers] : IsInjective(f)
  BY AdaptiveFetchAssumption, FS_CardinalityType DEF ExistsBijection, Bijection, Injection
<1>3. SetToSeq(Workers) \in [1..Cardinality(Workers) -> Workers]
  BY <1>2 DEF SetToSeq
<1>4. Min({Cardinality(Workers), n}) \in Nat /\ Min({Cardinality(Workers), n}) > 0
  BY <1>1, MinOfTwo
<1>5. 1 \in 1..Min({Cardinality(Workers), n}) /\ 1 \in 1..Cardinality(Workers)
  BY <1>1, <1>4
<1>6. QED
  BY <1>3, <1>5

\* A spawn of the pool starts within its invariant.
LEMMA SpawnStarts ==
  ASSUME PoolInv, Joined, NEW groups \in Seq(Groups), spawn(groups)
  PROVE  PoolInv'
<1> USE DEF PoolInv
<1> DEFINE crew == {SetToSeq(Workers)[i] : i \in 1..Min({Cardinality(Workers), Len(groups)})}
<1>1. /\ missing' = groups /\ next' = 1 /\ failed' = FALSE /\ first_error' = "none" /\ cancel' = FALSE
      /\ pc' = [w \in Workers |-> IF w \in crew THEN "loop" ELSE "done"]
      /\ group' = [w \in Workers |-> NoGroup] /\ left' = [w \in Workers |-> {}]
      /\ active' = 0 /\ aimd' = AimdController /\ now' = 0 /\ pushback' = Never
      /\ UNCHANGED <<used, cache, trouble>>
  BY DEF spawn
<1>2. Len(groups) \in Nat /\ (Len(groups) > 0 => \E w \in Workers : w \in crew)
  <2>1. Len(groups) \in Nat
    OBVIOUS
  <2>2. QED
    BY <2>1, Crew
<1> HIDE DEF crew
<1>3. PoolTyped'
  <2>1. pc' \in [Workers -> Places]
    BY <1>1 DEF Places
  <2>2. group' \in [Workers -> Groups] /\ left' \in [Workers -> SUBSET Chunks]
    BY <1>1 DEF NoGroup, Groups
  <2>3. /\ missing' \in Seq(Groups) /\ next' \in Nat \ {0} /\ active' \in Nat /\ used' \in Nat
        /\ now' \in Nat /\ pushback' \in Nat \union {Never}
    BY <1>1 DEF PoolTyped
  <2>4. aimd' \in Controllers
    BY <1>1, FreshController
  <2>5. failed' \in BOOLEAN /\ cancel' \in BOOLEAN /\ trouble' \in BOOLEAN
    BY <1>1 DEF PoolTyped
  <2>6. QED
    BY <2>1, <2>2, <2>3, <2>4, <2>5 DEF PoolTyped
<1>4. SlotsExact'
  <2>1. used = 0
    BY NobodyHolds DEF Joined, Outside, SlotsExact
  <2>2. \A w \in Workers : pc'[w] \in Outside
    BY <1>1 DEF Outside
  <2>3. Cardinality(holding') = 0 /\ Cardinality(in_flight') = 0
    <3>1. holding' = {}
      BY <2>2 DEF holding, Outside
    <3>2. in_flight' = {}
      BY <3>1 DEF in_flight, loading
    <3>3. QED
      BY <3>1, <3>2, FS_EmptySet
  <2>4. 0 <= MaxBytes
    BY AdaptiveFetchAssumption
  <2>5. QED
    BY <1>1, <2>1, <2>3, <2>4, FreshController DEF SlotsExact
<1>5. StopsForReason' /\ ClaimedInHand'
  <2>1. StopsForReason'
    BY <1>1 DEF StopsForReason
  <2>2. \A i \in DOMAIN groups : ~(i < 1)
    BY <1>2
  <2>3. ClaimedInHand'
    BY <1>1, <2>2 DEF ClaimedInHand
  <2>4. QED
    BY <2>1, <2>3
<1>6. UnclaimedWaited'
  BY <1>1, <1>2 DEF UnclaimedWaited
<1>7. WindowKnows'
  BY <1>1, FreshController DEF WindowKnows
<1>8. QED
  BY <1>3, <1>4, <1>5, <1>6, <1>7

\* So does a pool that a crash took away.
LEMMA PoolGoneEmpty ==
  ASSUME PoolInv, Joined, PoolGone
  PROVE  PoolInv'
<1> USE DEF PoolInv
<1>1. /\ missing' = <<>> /\ next' = 1 /\ failed' = FALSE /\ first_error' = "none" /\ cancel' = FALSE
      /\ pc' = [w \in Workers |-> "idle"]
      /\ group' = [w \in Workers |-> NoGroup] /\ left' = [w \in Workers |-> {}]
      /\ active' = 0 /\ aimd' = AimdController /\ now' = 0 /\ pushback' = Never
      /\ UNCHANGED <<used, cache, trouble>>
  BY DEF PoolGone
<1>2. PoolTyped'
  <2>1. pc' \in [Workers -> Places]
    BY <1>1 DEF Places
  <2>2. group' \in [Workers -> Groups] /\ left' \in [Workers -> SUBSET Chunks]
    BY <1>1 DEF NoGroup, Groups
  <2>3. /\ missing' \in Seq(Groups) /\ next' \in Nat \ {0} /\ active' \in Nat /\ used' \in Nat
        /\ now' \in Nat /\ pushback' \in Nat \union {Never}
    BY <1>1 DEF PoolTyped
  <2>4. aimd' \in Controllers
    BY <1>1, FreshController
  <2>5. failed' \in BOOLEAN /\ cancel' \in BOOLEAN /\ trouble' \in BOOLEAN
    BY <1>1 DEF PoolTyped
  <2>6. QED
    BY <2>1, <2>2, <2>3, <2>4, <2>5 DEF PoolTyped
<1>3. SlotsExact'
  <2>1. used = 0
    BY NobodyHolds DEF Joined, Outside, SlotsExact
  <2>2. holding' = {}
    BY <1>1 DEF holding
  <2>3. in_flight' = {}
    BY <2>2 DEF in_flight, loading
  <2>4. 0 <= MaxBytes
    BY AdaptiveFetchAssumption
  <2>5. QED
    BY <1>1, <2>1, <2>2, <2>3, <2>4, FS_EmptySet, FreshController DEF SlotsExact
<1>4. StopsForReason' /\ ClaimedInHand' /\ UnclaimedWaited'
  <2>1. StopsForReason'
    BY <1>1 DEF StopsForReason
  <2>2. DOMAIN <<>> = {} /\ ~(1 <= Len(<<>>))
    OBVIOUS
  <2>3. ClaimedInHand' /\ UnclaimedWaited'
    BY <1>1, <2>2 DEF ClaimedInHand, UnclaimedWaited
  <2>4. QED
    BY <2>1, <2>3
<1>5. WindowKnows'
  BY <1>1, FreshController DEF WindowKnows
<1>6. QED
  BY <1>2, <1>3, <1>4, <1>5

------------------------------------------------------------------------------
(* A push keeps its invariant, and what can be fetched stays so.             *)

(* Files that are whole are left alone.                                      *)
LEMMA ServableKept ==
  ASSUME PushTyped,
         \A p : whole(p) => whole(p)',
         \A c \in Chunks : pack_of[c] # {} => pack_of'[c] = pack_of[c],
         \A o \in Oids : manifest[o] = "whole" => manifest'[o] = "whole" /\ chunk_map'[o] = chunk_map[o]
  PROVE  \A o \in Oids : Servable(o) => Servable(o)'
<1> SUFFICES ASSUME NEW o \in Oids, Servable(o)
             PROVE  Servable(o)'
  OBVIOUS
<1>1. ChunksOf[o] \subseteq Chunks
  BY LfsTransferAssumption
<1>2. manifest'[o] = "whole" /\ chunk_map'[o] = "whole"
  BY DEF Servable
<1>3. ASSUME NEW c \in ChunksOf[o]
      PROVE  pack_of'[c] # {} /\ whole(pack_of[c])' /\ pack_of'[c] = pack_of[c]
  BY <1>1, <1>3 DEF Servable, whole
<1>4. QED
  BY <1>2, <1>3 DEF Servable, whole

\* What is served stays served while its files stay.
LEMMA ReadyKept ==
  ASSUME PushInv,
         \A o \in Oids : Servable(o) => Servable(o)',
         \A o \in Oids : manifest'[o] = "whole" => manifest[o] = "whole" \/ Servable(o)',
         meta_index' = meta_index,
         Range(meta_packs) \subseteq Range(meta_packs'),
         \A m \in Range(meta_packs') : m \in Range(meta_packs) \/ \A o \in Range(m) : Servable(o)'
  PROVE  ManifestReady' /\ PacksServed'
<1>1. ASSUME NEW o \in Oids, manifest'[o] = "whole"
      PROVE  Servable(o)'
  BY <1>1 DEF PushInv, ManifestReady
<1>2. ASSUME NEW i \in DOMAIN meta_index
      PROVE  meta_index[i] \in Range(meta_packs') /\ \A o \in Range(meta_index[i]) : Servable(o)'
  <2>1. meta_index[i] \in Seq(Oids)
    BY DEF PushInv, PushTyped
  <2>2. \A o \in Range(meta_index[i]) : o \in Oids /\ Servable(o)
    BY <2>1 DEF PushInv, ManifestReady, Range
  <2>3. QED
    BY <2>2 DEF PushInv, ManifestReady
<1>3. ManifestReady'
  BY <1>1, <1>2 DEF ManifestReady
<1>4. ASSUME NEW m \in Range(meta_packs), NEW o \in Range(m)
      PROVE  Servable(o)'
  <2>1. m \in Seq(Oids)
    BY DEF PushInv, PushTyped, Range
  <2>2. o \in Oids /\ Servable(o)
    BY <2>1 DEF PushInv, PacksServed, Range
  <2>3. QED
    BY <2>2
<1>5. QED
  BY <1>3, <1>4 DEF PacksServed

\* The invariant of a push is kept when a session opens.
LEMMA OpenKeeps ==
  ASSUME PushInv, open_session
  PROVE  PushInv'
<1>1. /\ session = "none" /\ session' = "open"
      /\ UNCHANGED <<packs, ledger, pack_of, batch, open_pack, pending, pos, acked, chunk_map,
                     manifest, meta_packs, meta_index, published>>
  BY DEF open_session, treeVars
<1>2. PushTyped'
  BY <1>1 DEF PushInv, PushTyped, Sessions
<1>3. LedgerBacks'
  BY <1>1 DEF PushInv, LedgerBacks
<1>4. QueueExact'
  <2>1. pending = <<>> /\ DOMAIN pending = {}
    BY <1>1 DEF PushInv, LedgerBacks
  <2>2. QED
    BY <1>1, <2>1 DEF PushInv, QueueExact, Exporting
<1>5. ExportOrdered' /\ AckedKept'
  BY <1>1 DEF PushInv, ExportOrdered, AckedKept
<1>6. ManifestReady' /\ PacksServed'
  BY <1>1 DEF PushInv, ManifestReady, PacksServed, Servable, whole
<1>7. OpenPackExact'
  BY <1>1 DEF PushInv, OpenPackExact
<1>8. QED
  BY <1>2, <1>3, <1>4, <1>5, <1>6, <1>7 DEF PushInv

\* The invariant is kept when an object is uploaded.
LEMMA UploadKeeps ==
  ASSUME PushInv, NEW oid \in Oids, upload(oid)
  PROVE  PushInv'
<1>1. /\ session = "open" /\ oid \notin acked /\ acked' = acked \union {oid}
      /\ batch' = batch \union ({oid} \ ledger)
      /\ UNCHANGED <<packs, ledger, pack_of, session, pos, chunk_map, manifest, meta_packs,
                     meta_index, published>>
      /\ \/ pending' = pending /\ manifest[oid] # "absent"
         \/ pending' = Append(pending, oid) /\ manifest[oid] = "absent"
  BY DEF upload, has_asset, treeVars, PushInv, LedgerBacks
<1>2. pending \in Seq(Oids)
  BY DEF PushInv, PushTyped
<1>3. OpenPackExact' /\ open_pack' \in SUBSET Chunks
  <2>0. ChunksOf[oid] \subseteq Chunks
    BY LfsTransferAssumption
  <2>1. open_pack' = open_pack \union IF has_asset(oid) THEN {} ELSE new_chunks(oid)
    BY DEF upload
  <2>2. CASE has_asset(oid)
    BY <1>1, <2>1, <2>2 DEF has_asset, PushInv, PushTyped, OpenPackExact, LedgerBacks
  <2>3. CASE ~has_asset(oid)
    BY <1>1, <2>0, <2>1, <2>3 DEF new_chunks, PushInv, PushTyped, OpenPackExact
  <2>4. QED
    BY <2>2, <2>3
<1>4. CASE pending' = pending /\ manifest[oid] # "absent"
  <2>1. PushTyped'
    BY <1>1, <1>4, <1>3 DEF PushInv, PushTyped
  <2>2. LedgerBacks' /\ QueueExact'
    BY <1>1, <1>4 DEF PushInv, LedgerBacks, QueueExact, Exporting
  <2>3. ExportOrdered' /\ AckedKept'
    BY <1>1, <1>4 DEF PushInv, ExportOrdered, AckedKept
  <2>4. ManifestReady' /\ PacksServed'
    BY <1>1 DEF PushInv, ManifestReady, PacksServed, Servable, whole
  <2>5. QED
    BY <1>3, <2>1, <2>2, <2>3, <2>4 DEF PushInv
<1>5. CASE pending' = Append(pending, oid) /\ manifest[oid] = "absent"
  <2>1. /\ Len(pending) \in Nat /\ DOMAIN pending = 1..Len(pending)
        /\ DOMAIN pending' = 1..(Len(pending) + 1)
        /\ \A i \in 1..Len(pending) : pending'[i] = pending[i]
        /\ pending'[Len(pending) + 1] = oid
        /\ pending' \in Seq(Oids)
    BY <1>2, <1>5
  <2>2. \A i \in DOMAIN pending' : i \in DOMAIN pending \/ i = Len(pending) + 1
    BY <2>1
  <2>3. PushTyped'
    BY <1>1, <1>3, <2>1 DEF PushInv, PushTyped
  <2>4. LedgerBacks'
    BY <1>1, <2>1, <2>2 DEF PushInv, LedgerBacks
  <2>5. QueueExact'
    <3>1. \A i \in DOMAIN pending : pending[i] \in acked /\ pending[i] # oid
      BY <1>1 DEF PushInv, QueueExact
    <3>2. ASSUME NEW i \in DOMAIN pending', NEW j \in DOMAIN pending', pending'[i] = pending'[j]
          PROVE  i = j
      <4>1. CASE i \in DOMAIN pending /\ j \in DOMAIN pending
        BY <2>1, <3>2, <4>1 DEF PushInv, QueueExact
      <4>2. CASE i \in DOMAIN pending /\ j = Len(pending) + 1
        BY <2>1, <3>1, <3>2, <4>2
      <4>3. CASE i = Len(pending) + 1 /\ j \in DOMAIN pending
        BY <2>1, <3>1, <3>2, <4>3
      <4>4. QED
        BY <2>2, <4>1, <4>2, <4>3
    <3>3. \A i \in DOMAIN pending' : pending'[i] \in acked' /\ manifest[pending'[i]] = "absent"
      BY <1>1, <1>5, <2>1, <2>2, <3>1 DEF PushInv, QueueExact
    <3>4. QED
      BY <1>1, <3>2, <3>3 DEF QueueExact, Exporting
  <2>6. ExportOrdered'
    BY <1>1 DEF PushInv, ExportOrdered
  <2>7. AckedKept'
    <3>1. ASSUME NEW o \in acked', manifest[o] = "absent"
          PROVE  \E i \in DOMAIN pending' : pending'[i] = o
      <4>1. CASE o = oid
        <5>1. Len(pending) + 1 \in DOMAIN pending'
          BY <2>1
        <5>2. QED
          BY <2>1, <4>1, <5>1
      <4>2. CASE o \in acked
        <5>1. PICK i \in DOMAIN pending : pending[i] = o
          BY <3>1, <4>2 DEF PushInv, AckedKept
        <5>2. i \in DOMAIN pending' /\ pending'[i] = o
          BY <2>1, <5>1
        <5>3. QED
          BY <5>2
      <4>3. QED
        BY <1>1, <3>1, <4>1, <4>2
    <3>2. QED
      BY <1>1, <3>1 DEF PushInv, AckedKept
  <2>8. ManifestReady' /\ PacksServed'
    BY <1>1 DEF PushInv, ManifestReady, PacksServed, Servable, whole
  <2>9. QED
    BY <1>3, <2>3, <2>4, <2>5, <2>6, <2>7, <2>8 DEF PushInv
<1>6. QED
  BY <1>1, <1>4, <1>5

\* And when an upload fails, which leaves chunks in the open pack.
LEMMA UploadFailsKeeps ==
  ASSUME PushInv, NEW oid \in Oids, NEW put, upload_fails(oid, put)
  PROVE  PushInv'
<1>1. /\ session = "open" /\ put \subseteq new_chunks(oid) /\ open_pack' = open_pack \union put
      /\ UNCHANGED <<packs, ledger, pack_of, session, batch, pending, pos, acked, chunk_map,
                     manifest, meta_packs, meta_index, published>>
  BY DEF upload_fails, treeVars
<1>2. put \subseteq Chunks
  BY <1>1, LfsTransferAssumption DEF new_chunks
<1>3. PushTyped'
  BY <1>1, <1>2 DEF PushInv, PushTyped
<1>4. OpenPackExact'
  BY <1>1 DEF PushInv, OpenPackExact, new_chunks
<1>5. LedgerBacks' /\ ExportOrdered' /\ AckedKept'
  BY <1>1 DEF PushInv, LedgerBacks, ExportOrdered, AckedKept
<1>6. QueueExact'
  BY <1>1 DEF PushInv, QueueExact, Exporting
<1>7. ManifestReady' /\ PacksServed'
  BY <1>1 DEF PushInv, ManifestReady, PacksServed, Servable, whole
<1>8. QED
  BY <1>3, <1>4, <1>5, <1>6, <1>7 DEF PushInv

\* The invariant is kept when the batch is committed.
LEMMA CommitKeeps ==
  ASSUME PushInv, commit_publish_batch
  PROVE  PushInv' /\ \A o \in Oids : Servable(o) => Servable(o)'
<1>1. /\ session = "open"
      /\ pack_of' = [c \in Chunks |-> IF c \in open_pack THEN open_pack ELSE pack_of[c]]
      /\ ledger' = ledger \union batch /\ batch' = {} /\ open_pack' = {} /\ pos' = 1
      /\ session' = IF pending = <<>> THEN "meta index" ELSE "packs"
      /\ UNCHANGED <<packs, pending, acked, chunk_map, manifest, meta_packs, meta_index, published>>
  BY DEF commit_publish_batch, treeVars
<1>2. /\ ledger \in SUBSET Oids /\ batch \in SUBSET Oids /\ pending \in Seq(Oids)
      /\ pack_of \in [Chunks -> SUBSET Chunks] /\ open_pack \subseteq Chunks
  BY DEF PushInv, PushTyped
<1>3. \A o \in Oids : ChunksOf[o] \subseteq Chunks
  BY <1>2, LfsTransferAssumption
<1>4. PushTyped'
  <2>1. pack_of' \in [Chunks -> SUBSET Chunks]
    BY <1>1, <1>2
  <2>2. session' \in Sessions
    BY <1>1 DEF Sessions, Exporting
  <2>3. ledger' \in SUBSET Oids /\ batch' \in SUBSET Oids
    BY <1>1, <1>2
  <2>4. pos' \in Nat \ {0}
    <3>1. pos' = 1
      BY <1>1
    <3>2. QED
      BY <3>1
  <2>5. QED
    BY <1>1, <2>1, <2>2, <2>3, <2>4 DEF PushInv, PushTyped
<1>5. \A c \in Chunks : pack_of[c] # {} => pack_of'[c] = pack_of[c]
  BY <1>1 DEF PushInv, OpenPackExact
<1>6. \A o \in Oids : Servable(o) => Servable(o)'
  <2>1. \A p : whole(p) => whole(p)'
    BY <1>1 DEF whole
  <2>2. QED
    BY <1>1, <1>5, <2>1, ServableKept DEF PushInv
<1>7. LedgerBacks'
  <2>1. ASSUME NEW o \in ledger', NEW c \in ChunksOf[o]
        PROVE  pack_of'[c] # {}
    <3>1. c \in Chunks
      BY <1>1, <1>2, <1>3, <2>1
    <3>2. CASE o \in ledger
      BY <1>5, <3>1, <3>2 DEF PushInv, LedgerBacks
    <3>3. CASE o \in batch
      <4>1. pack_of[c] = {} => c \in open_pack
        BY <3>3 DEF PushInv, OpenPackExact
      <4>2. QED
        BY <1>1, <1>5, <3>1, <4>1
    <3>4. QED
      BY <1>1, <2>1, <3>2, <3>3
  <2>2. QED
    BY <1>1, <2>1 DEF PushInv, LedgerBacks
<1>8. QueueExact'
  <2>1. DOMAIN pending = 1..Len(pending) /\ Len(pending) \in Nat
    BY <1>2
  <2>2. pending # <<>> => 1 \in DOMAIN pending
    BY <1>2, <2>1
  <2>3. pending = <<>> => DOMAIN pending = {}
    OBVIOUS
  <2>4. ~(\E i \in DOMAIN pending : i < 1)
    BY <2>1
  <2>5. \A i \in DOMAIN pending : manifest[pending[i]] = "absent"
    BY <1>1 DEF PushInv, QueueExact
  <2>6. QED
    BY <1>1, <2>2, <2>3, <2>4, <2>5 DEF PushInv, QueueExact, Exporting
<1>9. ExportOrdered' /\ AckedKept'
  BY <1>1 DEF PushInv, ExportOrdered, AckedKept
<1>10. ManifestReady' /\ PacksServed'
  BY <1>1, <1>6, ReadyKept
<1>11. OpenPackExact'
  BY <1>1 DEF OpenPackExact
<1>12. QED
  BY <1>4, <1>6, <1>7, <1>8, <1>9, <1>10, <1>11 DEF PushInv

\* The invariant is kept when the packs are exported.
LEMMA CopyPacksKeeps ==
  ASSUME PushInv, copy_packs
  PROVE  PushInv' /\ \A o \in Oids : Servable(o) => Servable(o)'
<1> DEFINE stale   == {p \in packs_of(pending[pos]) : ~whole(p)}
           copying == CHOOSE p \in stale : TRUE
<1>1. /\ session \in {"packs", "pack torn"}
      /\ UNCHANGED <<ledger, pack_of, batch, open_pack, pending, pos, acked, chunk_map, manifest,
                     meta_packs, meta_index, published>>
      /\ \/ session = "packs" /\ stale = {} /\ session' = "chunk map" /\ packs' = packs
         \/ session = "packs" /\ stale # {} /\ session' = "pack torn" /\ packs' = with(copying, "torn")
         \/ session' = "packs" /\ packs' = with(copying, "whole")
  BY DEF copy_packs, treeVars
<1>2. \A p : whole(p) => whole(p)'
  <2> SUFFICES ASSUME NEW p, whole(p)
               PROVE  whole(p)'
    OBVIOUS
  <2>1. CASE packs' = packs
    BY <2>1 DEF whole
  <2>2. CASE stale # {} /\ packs' = with(copying, "torn")
    <3>1. copying \in stale
      BY <2>2
    <3>2. p # copying
      BY <3>1
    <3> HIDE DEF copying
    <3>3. QED
      BY <2>2, <3>2 DEF whole, with
  <2>3. CASE packs' = with(copying, "whole")
    <3> HIDE DEF copying
    <3>1. QED
      BY <2>3 DEF whole, with
  <2>4. QED
    BY <1>1, <2>1, <2>2, <2>3
<1>3. \A o \in Oids : Servable(o) => Servable(o)'
  BY <1>1, <1>2, ServableKept DEF PushInv
<1>4. session' \in {"packs", "pack torn", "chunk map"}
  BY <1>1
<1>5. session' = "chunk map" => stale = {} /\ packs' = packs
  BY <1>1
<1> HIDE DEF copying
<1>6. PushTyped'
  BY <1>1, <1>4 DEF PushInv, PushTyped, Sessions, Exporting
<1>7. LedgerBacks'
  BY <1>1, <1>4 DEF PushInv, LedgerBacks
<1>8. QueueExact'
  BY <1>1, <1>4 DEF PushInv, QueueExact, Exporting
<1>9. ExportOrdered'
  <2>1. ASSUME session' = "chunk map", NEW c \in ChunksOf[pending[pos]]
        PROVE  whole(pack_of[c])'
    BY <1>1, <1>5, <2>1 DEF packs_of, whole
  <2>2. QED
    BY <1>1, <1>4, <2>1 DEF ExportOrdered, whole
<1>10. AckedKept'
  BY <1>1 DEF PushInv, AckedKept
<1>11. ManifestReady' /\ PacksServed'
  BY <1>1, <1>3, ReadyKept
<1>12. OpenPackExact'
  BY <1>1, <1>4 DEF PushInv, OpenPackExact
<1>13. QED
  BY <1>3, <1>6, <1>7, <1>8, <1>9, <1>10, <1>11, <1>12 DEF PushInv

\* The invariant is kept when the chunk map is written.
LEMMA ChunkMapKeeps ==
  ASSUME PushInv, write_chunk_map
  PROVE  PushInv' /\ \A o \in Oids : Servable(o) => Servable(o)'
<1>1. /\ session \in {"chunk map", "chunk map torn"}
      /\ chunk_map' = [chunk_map EXCEPT ![pending[pos]] = IF session = "chunk map" THEN "torn" ELSE "whole"]
      /\ session' = IF session = "chunk map" THEN "chunk map torn" ELSE "manifest"
      /\ UNCHANGED <<packs, ledger, pack_of, batch, open_pack, pending, pos, acked, manifest,
                     meta_packs, meta_index, published>>
  BY DEF write_chunk_map
<1>2. pos \in DOMAIN pending /\ pending[pos] \in Oids /\ manifest[pending[pos]] = "absent"
  BY <1>1 DEF PushInv, PushTyped, QueueExact, Exporting
<1>3. session' \in {"chunk map torn", "manifest"}
  BY <1>1
<1>4. \A o \in Oids : Servable(o) => Servable(o)'
  <2>1. \A o \in Oids : manifest[o] = "whole" => manifest'[o] = "whole" /\ chunk_map'[o] = chunk_map[o]
    BY <1>1, <1>2 DEF PushInv, PushTyped
  <2>2. \A p : whole(p) => whole(p)'
    BY <1>1 DEF whole
  <2>3. QED
    BY <1>1, <2>1, <2>2, ServableKept DEF PushInv
<1>5. PushTyped'
  <2>1. chunk_map' \in [Oids -> Files]
    BY <1>1 DEF PushInv, PushTyped, Files
  <2>2. QED
    BY <1>1, <1>3, <2>1 DEF PushInv, PushTyped, Sessions, Exporting
<1>6. LedgerBacks'
  BY <1>1, <1>3 DEF PushInv, LedgerBacks
<1>7. QueueExact'
  BY <1>1, <1>3 DEF PushInv, QueueExact, Exporting
<1>8. ExportOrdered'
  <2>1. session' = "manifest" => chunk_map'[pending[pos]] = "whole"
    BY <1>1, <1>2 DEF PushInv, PushTyped
  <2>2. QED
    BY <1>1, <1>3, <2>1 DEF PushInv, ExportOrdered, whole
<1>9. AckedKept'
  BY <1>1 DEF PushInv, AckedKept
<1>10. ManifestReady' /\ PacksServed'
  BY <1>1, <1>4, ReadyKept
<1>11. OpenPackExact'
  BY <1>1, <1>3 DEF PushInv, OpenPackExact
<1>12. QED
  BY <1>4, <1>5, <1>6, <1>7, <1>8, <1>9, <1>10, <1>11 DEF PushInv

\* The invariant is kept when a manifest is written.
LEMMA ManifestKeeps ==
  ASSUME PushInv, write_manifest
  PROVE  PushInv' /\ \A o \in Oids : Servable(o) => Servable(o)'
<1> DEFINE state == IF session = "manifest" THEN "torn" ELSE "whole"
<1>1. /\ session \in {"manifest", "manifest torn"}
      /\ manifest' = [manifest EXCEPT ![pending[pos]] = state]
      /\ UNCHANGED <<packs, ledger, pack_of, batch, open_pack, pending, acked, chunk_map,
                     meta_packs, meta_index, published>>
      /\ \/ session = "manifest" /\ session' = "manifest torn" /\ pos' = pos
         \/ session = "manifest torn" /\ pos < Len(pending) /\ session' = "packs" /\ pos' = pos + 1
         \/ session = "manifest torn" /\ ~(pos < Len(pending)) /\ session' = "meta pack" /\ pos' = pos + 1
  BY DEF write_manifest
<1>2. /\ DOMAIN pending = 1..Len(pending) /\ pos \in DOMAIN pending /\ pending[pos] \in Oids
      /\ manifest \in [Oids -> Files]
  <2>1. pending \in Seq(Oids) /\ manifest \in [Oids -> Files]
    BY DEF PushInv, PushTyped
  <2>2. Len(pending) \in Nat /\ DOMAIN pending = 1..Len(pending)
    BY <2>1
  <2>3. pos \in DOMAIN pending
    BY <1>1 DEF PushInv, QueueExact, Exporting
  <2>4. QED
    BY <2>1, <2>2, <2>3
<1>0. pos \in Nat /\ pos >= 1 /\ Len(pending) \in Nat /\ pos <= Len(pending)
  <2>1. pending \in Seq(Oids)
    BY DEF PushInv, PushTyped
  <2>2. QED
    BY <1>2, <2>1
<1>3. manifest[pending[pos]] = IF session = "manifest" THEN "absent" ELSE "torn"
  <2>1. CASE session = "manifest"
    BY <1>2, <2>1 DEF PushInv, QueueExact, Exporting
  <2>2. CASE session = "manifest torn"
    BY <2>2 DEF PushInv, QueueExact
  <2>3. QED
    BY <1>1, <2>1, <2>2
<1>4. \A o \in Oids : manifest'[o] = IF o = pending[pos] THEN state ELSE manifest[o]
  BY <1>1, <1>2
<1>5. \A p : whole(p)' = whole(p)
  BY <1>1 DEF whole
<1>6. \A o \in Oids : Servable(o) => Servable(o)'
  <2>1. \A o \in Oids : manifest[o] = "whole" => manifest'[o] = "whole" /\ chunk_map'[o] = chunk_map[o]
    BY <1>1, <1>3, <1>4
  <2>2. QED
    BY <1>1, <1>5, <2>1, ServableKept DEF PushInv
<1>7. ASSUME NEW o \in Oids, manifest'[o] = "whole", manifest[o] # "whole"
      PROVE  Servable(o)'
  <2>1. o = pending[pos]
    BY <1>4, <1>7
  <2>2. session = "manifest torn"
    <3>1. state = "whole"
      BY <1>4, <1>7, <2>1
    <3>2. session # "manifest"
      BY <3>1
    <3>3. QED
      BY <1>1, <3>2
  <2>3. o \in ledger
    BY <1>2, <1>3, <2>1 DEF PushInv, LedgerBacks
  <2>4. \A c \in ChunksOf[o] : pack_of[c] # {} /\ whole(pack_of[c])
    BY <2>1, <2>2, <2>3 DEF PushInv, LedgerBacks, ExportOrdered
  <2>5. chunk_map[o] = "whole"
    BY <2>1, <2>2 DEF PushInv, ExportOrdered
  <2>6. QED
    BY <1>1, <1>7, <2>4, <2>5 DEF Servable, whole
<1>8. PushTyped'
  <2>1. manifest' \in [Oids -> Files]
    BY <1>1, <1>2 DEF Files
  <2>2. pos' \in Nat \ {0}
    <3>1. pos' = pos \/ pos' = pos + 1
      BY <1>1
    <3>2. QED
      BY <1>0, <3>1
  <2>3. session' \in Sessions
    BY <1>1 DEF Sessions, Exporting
  <2>4. QED
    BY <1>1, <2>1, <2>2, <2>3 DEF PushInv, PushTyped
<1>9. LedgerBacks'
  <2>1. pending[pos] \in ledger
    BY <1>1, <1>2 DEF PushInv, LedgerBacks
  <2>2. QED
    BY <1>1, <1>4, <2>1 DEF PushInv, LedgerBacks
<1>10. QueueExact'
  <2>1. /\ \A i, j \in DOMAIN pending : pending[i] = pending[j] => i = j
        /\ \A i \in DOMAIN pending : pending[i] \in Oids /\ pending[i] \in acked
        /\ \A i \in DOMAIN pending : i > pos => manifest[pending[i]] = "absent"
        /\ \A i \in DOMAIN pending : i < pos => manifest[pending[i]] = "whole"
    <3>1. \A i \in DOMAIN pending : pending[i] \in Oids
      BY DEF PushInv, PushTyped
    <3>2. QED
      BY <1>1, <3>1 DEF PushInv, QueueExact, Exporting
  <2>2. \A i \in DOMAIN pending : manifest'[pending[i]] = IF i = pos THEN state ELSE manifest[pending[i]]
    BY <1>2, <1>4, <2>1
  <2>3. CASE session = "manifest" /\ session' = "manifest torn" /\ pos' = pos
    BY <1>1, <1>2, <2>1, <2>2, <2>3 DEF QueueExact, Exporting
  <2>4. CASE session = "manifest torn" /\ pos < Len(pending) /\ session' = "packs" /\ pos' = pos + 1
    <3>0. pos < Len(pending)
      BY <2>4
    <3>1. pos + 1 \in 1..Len(pending)
      BY <1>0, <3>0
    <3>2. \A i \in DOMAIN pending : /\ i > pos + 1 \/ i = pos + 1 => manifest'[pending[i]] = "absent"
                                    /\ i < pos + 1 => manifest'[pending[i]] = "whole"
      <4>1. ASSUME NEW i \in 1..Len(pending)
            PROVE  (i < pos + 1 => i < pos \/ i = pos) /\ (i > pos + 1 \/ i = pos + 1 => i > pos /\ i # pos)
        BY <1>0
      <4>2. state = "whole"
        BY <2>4
      <4>3. QED
        BY <1>2, <2>1, <2>2, <4>1, <4>2
    <3>3. QED
      BY <1>1, <1>2, <2>1, <2>4, <3>1, <3>2 DEF QueueExact, Exporting
  <2>5. CASE session = "manifest torn" /\ ~(pos < Len(pending)) /\ session' = "meta pack" /\ pos' = pos + 1
    <3>0. ~(pos < Len(pending))
      BY <2>5
    <3>1. \A i \in 1..Len(pending) : i < pos \/ i = pos
      BY <1>0, <3>0
    <3>2. \A i \in DOMAIN pending : manifest'[pending[i]] = "whole"
      BY <1>2, <2>1, <2>2, <2>5, <3>1
    <3>3. QED
      BY <1>1, <2>1, <2>5, <3>2 DEF QueueExact, Exporting
  <2>6. QED
    BY <1>1, <2>3, <2>4, <2>5
<1>11. ExportOrdered'
  BY <1>1 DEF PushInv, ExportOrdered, whole
<1>12. AckedKept'
  <2>1. \A o \in Oids : manifest[o] # "absent" => manifest'[o] # "absent"
    BY <1>4
  <2>2. QED
    BY <1>1, <2>1 DEF PushInv, PushTyped, AckedKept
<1>13. ManifestReady' /\ PacksServed'
  BY <1>1, <1>6, <1>7, ReadyKept
<1>14. OpenPackExact'
  BY <1>1 DEF PushInv, OpenPackExact
<1>15. QED
  BY <1>6, <1>8, <1>9, <1>10, <1>11, <1>12, <1>13, <1>14 DEF PushInv

\* Removing an element of a sequence leaves a sequence.
LEMMA RemoveFirstSeq ==
  ASSUME NEW S, NEW s \in Seq(S), NEW e
  PROVE  RemoveFirst(s, e) \in Seq(S)
<1> DEFINE I == {i \in 1..Len(s) : s[i] = e}
<1>1. CASE I = {}
  BY <1>1 DEF RemoveFirst
<1>2. CASE I # {}
  <2>1. RemoveFirst(s, e) = RemoveAt(s, Min(I))
    BY <1>2 DEF RemoveFirst, SelectInSeq
  <2>2. Len(s) \in Nat /\ I \subseteq Nat /\ Min(I) \in I
    <3>1. Len(s) \in Nat /\ I \subseteq Nat
      OBVIOUS
    <3> HIDE DEF I
    <3>2. QED
      BY <1>2, <3>1, MinOf
  <2> HIDE DEF I
  <2>3. PICK n \in Nat : n = Min(I)
    BY <2>2
  <2>4. n >= 1 /\ n <= Len(s)
    BY <2>2, <2>3 DEF I
  <2>5. SubSeq(s, 1, n - 1) \in Seq(S) /\ SubSeq(s, n + 1, Len(s)) \in Seq(S)
    BY <2>2, <2>4
  <2>6. QED
    BY <2>1, <2>3, <2>5 DEF RemoveAt
<1>3. QED
  BY <1>1, <1>2

\* The invariant is kept when the meta pack is exported.
LEMMA MetaPackKeeps ==
  ASSUME PushInv, export_meta_pack
  PROVE  PushInv' /\ \A o \in Oids : Servable(o) => Servable(o)'
<1>1. /\ session = "meta pack" /\ session' = "meta index"
      /\ meta_packs' = IF pending \in Range(meta_packs) THEN meta_packs ELSE Append(meta_packs, pending)
      /\ UNCHANGED <<packs, ledger, pack_of, batch, open_pack, pending, pos, acked, chunk_map,
                     manifest, meta_index, published>>
  BY DEF export_meta_pack
<1>2. \A o \in Oids : Servable(o) => Servable(o)'
  BY <1>1 DEF Servable, whole
<1>3. /\ meta_packs' \in Seq(Seq(Oids))
      /\ Range(meta_packs') = Range(meta_packs) \union {pending}
  <2>1. meta_packs \in Seq(Seq(Oids)) /\ pending \in Seq(Oids)
    BY DEF PushInv, PushTyped
  <2>2. CASE pending \in Range(meta_packs)
    BY <1>1, <2>1, <2>2
  <2>3. CASE pending \notin Range(meta_packs)
    <3>1. meta_packs' = Append(meta_packs, pending)
      BY <1>1, <2>3
    <3>2. /\ Len(meta_packs) \in Nat /\ DOMAIN meta_packs = 1..Len(meta_packs)
          /\ DOMAIN meta_packs' = 1..(Len(meta_packs) + 1)
          /\ \A i \in 1..Len(meta_packs) : meta_packs'[i] = meta_packs[i]
          /\ meta_packs'[Len(meta_packs) + 1] = pending
          /\ meta_packs' \in Seq(Seq(Oids))
      BY <2>1, <3>1
    <3>3. \A i \in 1..(Len(meta_packs) + 1) : i \in 1..Len(meta_packs) \/ i = Len(meta_packs) + 1
      BY <3>2
    <3>4. Len(meta_packs) + 1 \in DOMAIN meta_packs' /\ DOMAIN meta_packs \subseteq DOMAIN meta_packs'
      BY <3>2
    <3>5. QED
      BY <3>2, <3>3, <3>4 DEF Range
  <2>4. QED
    BY <2>2, <2>3
<1>4. \A o \in Range(pending) : Servable(o)'
  <2>1. \A i \in DOMAIN pending : pending[i] \in Oids /\ Servable(pending[i])
    BY <1>1 DEF PushInv, PushTyped, QueueExact, ManifestReady
  <2>2. QED
    BY <1>2, <2>1 DEF Range
<1>5. PushTyped'
  BY <1>1, <1>3 DEF PushInv, PushTyped, Sessions
<1>6. LedgerBacks' /\ ExportOrdered' /\ OpenPackExact'
  BY <1>1, <1>3 DEF PushInv, LedgerBacks, ExportOrdered, OpenPackExact
<1>7. QueueExact'
  BY <1>1 DEF PushInv, QueueExact, Exporting
<1>8. AckedKept'
  BY <1>1 DEF PushInv, AckedKept
<1>9. ManifestReady' /\ PacksServed'
  BY <1>1, <1>2, <1>3, <1>4, ReadyKept
<1>10. QED
  BY <1>2, <1>5, <1>6, <1>7, <1>8, <1>9 DEF PushInv

\* The invariant is kept when the meta index is exported.
LEMMA MetaIndexKeeps ==
  ASSUME PushInv, export_meta_index
  PROVE  PushInv' /\ \A o \in Oids : Servable(o) => Servable(o)'
<1>1. /\ session = "meta index" /\ session' = "none"
      /\ meta_index' = IF pending = <<>> THEN meta_index
                       ELSE Append(RemoveFirst(read_or_rebuild_meta_index, pending), pending)
      /\ published' = published \union acked /\ pending' = <<>> /\ pos' = 1 /\ acked' = {}
      /\ UNCHANGED <<packs, ledger, pack_of, batch, open_pack, chunk_map, manifest, meta_packs>>
  BY DEF export_meta_index
<1>2. \A o \in Oids : Servable(o) => Servable(o)'
  BY <1>1 DEF Servable, whole
<1>3. \A i \in DOMAIN pending : Servable(pending[i])
  BY <1>1 DEF PushInv, PushTyped, QueueExact, ManifestReady
<1> DEFINE Good == {m \in Range(meta_packs) : \A o \in Range(m) : Servable(o)}
<1>4. meta_index \in Seq(Good) /\ read_or_rebuild_meta_index \in Seq(Good)
  <2>1. meta_index \in Seq(Seq(Oids)) /\ \A i \in DOMAIN meta_index : meta_index[i] \in Good
    BY DEF PushInv, PushTyped, ManifestReady
  <2>2. meta_packs \in Seq(Seq(Oids)) /\ \A i \in DOMAIN meta_packs : meta_packs[i] \in Good
    BY DEF PushInv, PushTyped, PacksServed, Range
  <2> HIDE DEF Good
  <2>3. meta_index \in Seq(Good) /\ meta_packs \in Seq(Good)
    BY <2>1, <2>2
  <2>4. QED
    BY <2>3 DEF read_or_rebuild_meta_index
<1>5. pending # <<>> => pending \in Good
  BY <1>1, <1>3 DEF PushInv, ExportOrdered, Range
<1>6. meta_index' \in Seq(Good)
  <2> HIDE DEF Good
  <2>1. CASE pending = <<>>
    BY <1>1, <1>4, <2>1
  <2>2. CASE pending # <<>>
    <3>1. RemoveFirst(read_or_rebuild_meta_index, pending) \in Seq(Good)
      BY <1>4, RemoveFirstSeq
    <3>2. Append(RemoveFirst(read_or_rebuild_meta_index, pending), pending) \in Seq(Good)
      BY <1>5, <2>2, <3>1
    <3>3. QED
      BY <1>1, <2>2, <3>2
  <2>3. QED
    BY <2>1, <2>2
<1>7. PushTyped'
  <2>1. Good \subseteq Seq(Oids)
    BY DEF PushInv, PushTyped, Range
  <2> HIDE DEF Good
  <2>2. meta_index' \in Seq(Seq(Oids))
    BY <1>6, <2>1
  <2>3. pos' \in Nat \ {0} /\ pending' \in Seq(Oids)
    <3>1. pos' = 1 /\ pending' = <<>>
      BY <1>1
    <3>2. QED
      BY <3>1
  <2>4. QED
    BY <1>1, <2>2, <2>3 DEF PushInv, PushTyped, Sessions
<1>8. DOMAIN pending' = {}
  <2>1. pending' = <<>>
    BY <1>1
  <2>2. QED
    BY <2>1
<1>9. LedgerBacks' /\ OpenPackExact'
  BY <1>1, <1>8 DEF PushInv, LedgerBacks, OpenPackExact
<1>10. QueueExact'
  BY <1>1, <1>8 DEF QueueExact, Exporting
<1>11. ExportOrdered'
  BY <1>1 DEF ExportOrdered
<1>12. AckedKept'
  <2>1. \A o \in acked : manifest[o] # "absent"
    <3> SUFFICES ASSUME NEW o \in acked, manifest[o] = "absent"
                 PROVE  FALSE
      OBVIOUS
    <3>1. PICK i \in DOMAIN pending : pending[i] = o
      BY DEF PushInv, AckedKept
    <3>2. manifest[pending[i]] = "whole"
      BY <1>1 DEF PushInv, QueueExact
    <3>3. QED
      BY <3>1, <3>2
  <2>2. QED
    BY <1>1, <2>1 DEF PushInv, AckedKept
<1>13. ManifestReady'
  <2>1. \A o \in Oids : manifest'[o] = "whole" => Servable(o)'
    BY <1>1, <1>2 DEF PushInv, ManifestReady
  <2>2. \A i \in DOMAIN meta_index' : meta_index'[i] \in Good
    <3> HIDE DEF Good
    <3>1. QED
      BY <1>6
  <2>3. \A m \in Good : m \in Range(meta_packs') /\ \A o \in Range(m) : Servable(o)'
    <3>1. \A m \in Good : \A o \in Range(m) : o \in Oids
      BY DEF PushInv, PushTyped, Range
    <3>2. QED
      BY <1>1, <1>2, <3>1
  <2> HIDE DEF Good
  <2>4. QED
    BY <2>1, <2>2, <2>3 DEF ManifestReady
<1>14. PacksServed'
  BY <1>1 DEF PushInv, PacksServed, Servable, whole
<1>15. QED
  BY <1>2, <1>7, <1>9, <1>10, <1>11, <1>12, <1>13, <1>14 DEF PushInv

\* The invariant is kept at a crash.
LEMMA CrashKeeps ==
  ASSUME PushInv, crash
  PROVE  PushInv' /\ \A o \in Oids : Servable(o) => Servable(o)'
<1>1. /\ session' = "none" /\ batch' = {} /\ open_pack' = {} /\ pending' = <<>> /\ pos' = 1
      /\ acked' = {}
      /\ UNCHANGED <<packs, ledger, pack_of, chunk_map, manifest, meta_packs, meta_index, published>>
  BY DEF crash, treeVars
<1>2. \A o \in Oids : Servable(o) => Servable(o)'
  BY <1>1 DEF Servable, whole
<1>3. pos' \in Nat \ {0} /\ pending' \in Seq(Oids) /\ DOMAIN pending' = {}
  <2>1. pos' = 1 /\ pending' = <<>>
    BY <1>1
  <2>2. QED
    BY <2>1
<1>4. PushTyped'
  BY <1>1, <1>3 DEF PushInv, PushTyped, Sessions
<1>5. LedgerBacks' /\ AckedKept'
  BY <1>1, <1>3 DEF PushInv, LedgerBacks, AckedKept
<1>6. QueueExact' /\ ExportOrdered' /\ OpenPackExact'
  BY <1>1, <1>3 DEF QueueExact, ExportOrdered, Exporting, OpenPackExact
<1>7. ManifestReady' /\ PacksServed'
  BY <1>1, <1>2, ReadyKept
<1>8. QED
  BY <1>2, <1>4, <1>5, <1>6, <1>7 DEF PushInv

(* A torn manifest that no export is queued for stays as it is.              *)
Spoilt(o) == manifest[o] = "torn" /\ \A i \in DOMAIN pending : pending[i] # o

\* An object whose manifest a crash tore stays so.
LEMMA SpoiltKept ==
  ASSUME PushInv, Push \/ crash, NEW o \in Oids, Spoilt(o)
  PROVE  Spoilt(o)'
<1>0. pending \in Seq(Oids) /\ manifest \in [Oids -> Files]
  BY DEF PushInv, PushTyped
<1>1. CASE open_session \/ commit_publish_batch \/ copy_packs \/ write_chunk_map \/ export_meta_pack
  <2>1. UNCHANGED <<manifest, pending>>
    BY <1>1 DEF open_session, commit_publish_batch, copy_packs, write_chunk_map, export_meta_pack, treeVars
  <2>2. QED
    BY <2>1 DEF Spoilt
<1>2. CASE export_meta_index \/ crash
  <2>1. manifest' = manifest /\ pending' = <<>>
    BY <1>2 DEF export_meta_index, crash, treeVars
  <2>2. QED
    BY <2>1 DEF Spoilt
<1>3. ASSUME NEW oid \in Oids, upload(oid)
      PROVE  Spoilt(o)'
  <2>1. /\ manifest' = manifest
        /\ \/ pending' = pending
           \/ pending' = Append(pending, oid) /\ manifest[oid] = "absent"
    BY <1>3 DEF upload, has_asset, treeVars, PushInv, LedgerBacks
  <2>2. CASE pending' = pending
    BY <2>1, <2>2 DEF Spoilt
  <2>3. CASE pending' = Append(pending, oid) /\ manifest[oid] = "absent"
    <3>1. o # oid
      BY <2>3 DEF Spoilt
    <3>2. \A i \in DOMAIN Append(pending, oid) :
             \/ i \in DOMAIN pending /\ Append(pending, oid)[i] = pending[i]
             \/ Append(pending, oid)[i] = oid
      BY <1>0
    <3>3. QED
      BY <2>1, <2>3, <3>1, <3>2 DEF Spoilt
  <2>4. QED
    BY <2>1, <2>2, <2>3
<1>4. CASE write_manifest
  <2>1. /\ session \in Exporting /\ pending' = pending
        /\ \E state : manifest' = [manifest EXCEPT ![pending[pos]] = state]
    BY <1>4 DEF write_manifest, Exporting
  <2>2. pos \in DOMAIN pending
    BY <2>1 DEF PushInv, QueueExact
  <2>3. o # pending[pos]
    BY <2>2 DEF Spoilt
  <2>4. manifest'[o] = manifest[o]
    BY <1>0, <2>1, <2>3
  <2>5. QED
    BY <2>1, <2>4 DEF Spoilt
<1>5. ASSUME NEW oid \in Oids, NEW put, upload_fails(oid, put)
      PROVE  Spoilt(o)'
  BY <1>5 DEF upload_fails, treeVars, Spoilt
<1>6. QED
  BY <1>1, <1>2, <1>3, <1>4, <1>5 DEF Push

(* Every step of a push keeps the invariants; a pull waits.                  *)
LEMMA PushKeeps ==
  ASSUME Inv, Push \/ crash
  PROVE  Inv'
<1>1. PushInv' /\ \A o \in Oids : Servable(o) => Servable(o)'
  <2> DEFINE Uploads == \E oid \in Oids : upload(oid) \/ \E put \in SUBSET ChunksOf[oid] : upload_fails(oid, put)
  <2>1. CASE open_session \/ Uploads
    <3>1. PushInv'
      BY <2>1, OpenKeeps, UploadKeeps, UploadFailsKeeps DEF Inv
    <3>2. UNCHANGED <<packs, pack_of, chunk_map, manifest>>
      BY <2>1 DEF open_session, upload, upload_fails, treeVars
    <3>3. QED
      BY <3>1, <3>2 DEF Servable, whole
  <2>2. CASE ~(open_session \/ Uploads)
    BY <2>2, CommitKeeps, CopyPacksKeeps, ChunkMapKeeps, ManifestKeeps, MetaPackKeeps,
       MetaIndexKeeps, CrashKeeps DEF Inv, Push
  <2>3. QED
    BY <2>1, <2>2
<1>2. UNCHANGED <<poolVars, cache, trouble, pullVars>>
  BY DEF Push, open_session, upload, upload_fails, commit_publish_batch, copy_packs, write_chunk_map,
         write_manifest, export_meta_pack, export_meta_index, crash
<1>3. stage = "idle"
  <2>1. open_session \/ session # "none"
    BY DEF Push, upload, upload_fails, commit_publish_batch, copy_packs, write_chunk_map,
           write_manifest, export_meta_pack, export_meta_index, crash
  <2>2. QED
    BY <2>1 DEF open_session, Inv, PullInv, PullTyped
<1>4. PoolInv'
  <2>1. UNCHANGED <<missing, next, failed, first_error, cancel, pc, group, left, active, used, aimd,
                    now, pushback, cache, trouble>>
    BY <1>2 DEF poolVars
  <2>2. PoolInv
    BY DEF Inv
  <2>3. SlotsExact'
    BY <2>1, <2>2, SlotsKept, SlotsExactKept DEF PoolInv, SlotsExact
  <2>4. QED
    BY <2>1, <2>2, <2>3 DEF PoolInv, PoolTyped, StopsForReason, ClaimedInHand, UnclaimedWaited, WindowKnows
<1>5. PullInv'
  <2>0. PullInv /\ UNCHANGED <<stage, want, index, l1, l2, result, began>>
    BY <1>2 DEF Inv, pullVars
  <2>1. PullTyped'
    BY <1>3, <2>0 DEF PullInv, PullTyped
  <2>2. PoolAtRest' /\ Untroubled'
    BY <1>2, <2>0 DEF poolVars, PullInv, PoolAtRest, Untroubled
  <2>3. ResolvedServed'
    <3>1. \A i \in DOMAIN index : \A o \in Range(index[i]) : o \in Oids
      <4>1. index \in Seq(Seq(Oids))
        BY <2>0 DEF PullInv, PullTyped
      <4>2. QED
        BY <4>1 DEF Range
    <3>2. \A i \in DOMAIN index : \A o \in Range(index[i]) : Servable(o)'
      BY <1>1, <2>0, <3>1 DEF PullInv, ResolvedServed
    <3>3. \A o \in l1 : Servable(o)'
      BY <1>1, <2>0 DEF PullInv, PullTyped, ResolvedServed
    <3>4. QED
      BY <1>3, <2>0, <3>2, <3>3 DEF ResolvedServed
  <2>4. PlannedAll'
    BY <1>3, <2>0 DEF PlannedAll
  <2>5. CauseKept'
    <3>1. result = "failed" /\ ~trouble => want \in Oids /\ Spoilt(want)
      BY <2>0 DEF PullInv, PullTyped, CauseKept, Spoilt
    <3>2. ASSUME result = "failed", ~trouble
          PROVE  manifest'[want] = "torn" /\ \A i \in DOMAIN pending' : pending'[i] # want
      <4>1. PICK o \in Oids : o = want /\ Spoilt(o)
        BY <3>1, <3>2
      <4>2. Spoilt(o)'
        BY <4>1, SpoiltKept DEF Inv
      <4>3. QED
        BY <4>1, <4>2 DEF Spoilt
    <3>3. QED
      BY <1>2, <2>0, <3>2 DEF PullInv, CauseKept
  <2>6. QED
    BY <2>1, <2>2, <2>3, <2>4, <2>5 DEF PullInv
<1>6. QED
  BY <1>1, <1>4, <1>5 DEF Inv

------------------------------------------------------------------------------
(* The plan of a fetch.                                                      *)

(* A chunk is in one range only.                                             *)
LEMMA RangesApart ==
  ASSUME NEW wanted, NEW b \in wanted, NEW c \in wanted, NEW d,
         d \in range(b, wanted).chunks, d \in range(c, wanted).chunks
  PROVE  range(b, wanted) = range(c, wanted)
<1> DEFINE place(x) == Cardinality(pack_of[d] \intersect run(x, wanted)..(x - 1)) \div MaxRun
           own == [pack   |-> pack_of[d],
                   chunks |-> {x \in wanted : /\ pack_of[x] = pack_of[d]
                                              /\ run(x, wanted) = run(d, wanted)
                                              /\ place(x) = place(d)}]
<1>1. ASSUME NEW a \in wanted, d \in range(a, wanted).chunks
      PROVE  range(a, wanted) = own
  <2>1. /\ pack_of[d] = pack_of[a] /\ run(d, wanted) = run(a, wanted)
        /\ place(d) = place(a)
    BY <1>1 DEF range
  <2>2. range(a, wanted) =
          [pack   |-> pack_of[d],
           chunks |-> {x \in wanted : /\ pack_of[x] = pack_of[d]
                                      /\ run(x, wanted) = run(a, wanted)
                                      /\ place(x) = place(a)}]
    BY <2>1 DEF range
  <2> HIDE DEF place
  <2>3. QED
    BY <2>1, <2>2
<1> HIDE DEF own
<1>2. QED
  BY <1>1

\* plan_range_groups plans every wanted chunk, and nothing of another pack.
LEMMA PlanCovers ==
  ASSUME NEW wanted \in SUBSET Chunks, pack_of \in [Chunks -> SUBSET Chunks],
         \A c \in wanted : pack_of[c] # {}
  PROVE  /\ plan_range_groups(wanted) \in Seq(Groups)
         /\ \A c \in wanted : \E i \in DOMAIN plan_range_groups(wanted) :
               c \in plan_range_groups(wanted)[i].chunks
         /\ \A i \in DOMAIN plan_range_groups(wanted) : \E c \in wanted :
               plan_range_groups(wanted)[i].pack = pack_of[c]
<1> DEFINE ranges == {range(c, wanted) : c \in wanted}
           before == {p \in ranges \X ranges : precedes(p[1], p[2])}
<1>1. Chunks \subseteq Nat /\ IsFiniteSet(wanted)
  BY AdaptiveFetchAssumption, FS_Subset
<1>2. ASSUME NEW c \in wanted
      PROVE  /\ range(c, wanted) \in Groups
             /\ c \in range(c, wanted).chunks
             /\ range(c, wanted).pack = pack_of[c]
  BY DEF range, Groups
<1>3. IsFiniteSet(ranges)
  <2> DEFINE f == [c \in wanted |-> range(c, wanted)]
  <2>1. f \in Surjection(wanted, ranges)
    BY DEF Surjection
  <2>2. QED
    BY <1>1, <2>1, FS_Surjection
<1>4. ASSUME NEW g \in ranges
      PROVE  /\ Min(g.pack) \in Nat
             /\ Min(g.chunks) \in Nat /\ Min(g.chunks) \in g.chunks
  <2>1. PICK c \in wanted : g = range(c, wanted)
    BY <1>4
  <2>2. /\ g.pack \in SUBSET Nat /\ g.pack # {}
        /\ g.chunks \in SUBSET Nat /\ g.chunks # {}
    BY <1>1, <1>2, <2>1 DEF Groups
  <2>3. QED
    BY <2>2, MinOf
<1>5. ASSUME NEW g \in ranges, NEW h \in ranges
      PROVE  <<g, h>> \in before <=> precedes(g, h)
  OBVIOUS
<1>6. StrictlyOrders(before, ranges)
  <2>1. ASSUME NEW g \in ranges
        PROVE  <<g, g>> \notin before
    <3>1. ~precedes(g, g)
      BY <1>4 DEF precedes
    <3>2. QED
      BY <1>5, <3>1
  <2>2. ASSUME NEW g \in ranges, NEW h \in ranges, NEW k \in ranges,
               <<g, h>> \in before, <<h, k>> \in before
        PROVE  <<g, k>> \in before
    <3>1. precedes(g, h) /\ precedes(h, k)
      BY <1>5, <2>2
    <3>2. /\ Min(g.pack) \in Nat /\ Min(h.pack) \in Nat /\ Min(k.pack) \in Nat
          /\ Min(g.chunks) \in Nat /\ Min(h.chunks) \in Nat /\ Min(k.chunks) \in Nat
      BY <1>4
    <3>3. precedes(g, k)
      BY <3>1, <3>2 DEF precedes
    <3>4. QED
      BY <1>5, <3>3
  <2>3. ASSUME NEW g \in ranges, NEW h \in ranges
        PROVE  g = h \/ <<g, h>> \in before \/ <<h, g>> \in before
    <3>1. /\ Min(g.pack) \in Nat /\ Min(h.pack) \in Nat
          /\ Min(g.chunks) \in Nat /\ Min(h.chunks) \in Nat
      BY <1>4
    <3>2. precedes(g, h) \/ precedes(h, g) \/ Min(g.chunks) = Min(h.chunks)
      BY <3>1 DEF precedes
    <3>3. Min(g.chunks) = Min(h.chunks) => g = h
      <4>1. Min(g.chunks) \in g.chunks /\ Min(h.chunks) \in h.chunks
        BY <1>4
      <4>2. QED
        BY <4>1, RangesApart
    <3>4. QED
      BY <1>5, <3>2, <3>3
  <2> HIDE DEF ranges, before
  <2>4. QED
    BY <2>1, <2>2, <2>3 DEF StrictlyOrders
<1>7. plan_range_groups(wanted) = SortedBy(ranges, before)
  BY DEF plan_range_groups
<1>8. ranges \subseteq Groups
  BY <1>2
<1> DEFINE plan == SortedBy(ranges, before)
<1>9. /\ Cardinality(ranges) \in Nat /\ plan \in [1..Cardinality(ranges) -> ranges]
      /\ \A g \in ranges : \E k \in 1..Cardinality(ranges) : plan[k] = g
  <2> HIDE DEF ranges, before
  <2>1. QED
    BY <1>3, <1>6, SortedByLists
<1>10. \A c \in wanted : \E k \in DOMAIN plan : c \in plan[k].chunks
  <2> HIDE DEF plan
  <2> SUFFICES ASSUME NEW c \in wanted
               PROVE  \E k \in DOMAIN plan : c \in plan[k].chunks
    OBVIOUS
  <2>1. range(c, wanted) \in ranges
    OBVIOUS
  <2> HIDE DEF ranges
  <2>2. PICK k \in 1..Cardinality(ranges) : plan[k] = range(c, wanted)
    BY <1>9, <2>1
  <2>3. QED
    BY <1>2, <1>9, <2>2
<1>11. \A k \in DOMAIN plan : \E c \in wanted : plan[k].pack = pack_of[c]
  <2> HIDE DEF plan
  <2> SUFFICES ASSUME NEW k \in DOMAIN plan
               PROVE  \E c \in wanted : plan[k].pack = pack_of[c]
    OBVIOUS
  <2>1. plan[k] \in ranges
    BY <1>9
  <2>2. QED
    BY <1>2, <2>1
<1> HIDE DEF ranges, plan
<1>12. plan \in Seq(Groups)
  BY <1>8, <1>9
<1>13. plan_range_groups(wanted) = plan
  BY <1>7 DEF plan
<1>14. QED
  BY <1>10, <1>11, <1>12, <1>13

------------------------------------------------------------------------------
(* A pull keeps the invariants.                                              *)

\* The pool's invariant is kept by what leaves the pool alone.
LEMMA PoolRests ==
  ASSUME PoolInv, UNCHANGED <<poolVars, cache>>, trouble' \in BOOLEAN
  PROVE  PoolInv'
<1>1. UNCHANGED <<missing, next, failed, first_error, cancel, pc, group, left, active, used, aimd,
                  now, pushback, cache>>
  BY DEF poolVars
<1>2. SlotsExact'
  BY <1>1, SlotsKept, SlotsExactKept DEF PoolInv, SlotsExact
<1>3. PoolTyped'
  BY <1>1 DEF PoolInv, PoolTyped
<1>4. QED
  BY <1>1, <1>2, <1>3 DEF PoolInv, StopsForReason, ClaimedInHand, UnclaimedWaited, WindowKnows

\* The push's invariant is kept by what leaves the tree alone.
LEMMA PushRests ==
  ASSUME PushInv, UNCHANGED <<packs, storeVars, treeVars, published>>
  PROVE  PushInv' /\ \A o : Servable(o)' = Servable(o)
<1>1. UNCHANGED <<packs, ledger, pack_of, session, batch, open_pack, pending, pos, acked, chunk_map,
                  manifest, meta_packs, meta_index, published>>
  BY DEF storeVars, treeVars
<1>2. \A o : Servable(o)' = Servable(o)
  BY <1>1 DEF Servable, whole
<1>3. PushTyped' /\ LedgerBacks' /\ QueueExact' /\ ExportOrdered' /\ AckedKept'
  <2>1. PushTyped' /\ LedgerBacks' /\ AckedKept'
    BY <1>1 DEF PushInv, PushTyped, LedgerBacks, AckedKept
  <2>2. QueueExact' /\ ExportOrdered'
    BY <1>1 DEF PushInv, QueueExact, ExportOrdered, whole
  <2>3. QED
    BY <2>1, <2>2
<1>4. ManifestReady' /\ PacksServed'
  BY <1>1, <1>2 DEF PushInv, ManifestReady, PacksServed
<1>5. OpenPackExact'
  BY <1>1 DEF PushInv, OpenPackExact
<1>6. QED
  BY <1>2, <1>3, <1>4, <1>5 DEF PushInv

(* What an index lists can be fetched, and so can what the mapped pack has.  *)
LEMMA MappedPackServed ==
  ASSUME PullTyped, ResolvedServed
  PROVE  /\ mapped_pack \in Seq(Oids)
         /\ \A o \in Range(mapped_pack) : o \in Oids /\ Servable(o)
         /\ mapped_pack # <<>> => want \in Range(mapped_pack)
<1> DEFINE listing == {i \in DOMAIN index : want \in Range(index[i])}
<1>1. index \in Seq(Seq(Oids)) /\ Len(index) \in Nat /\ DOMAIN index = 1..Len(index)
  <2>1. index \in Seq(Seq(Oids))
    BY DEF PullTyped
  <2>2. QED
    BY <2>1
<1>2. CASE listing = {}
  <2>1. mapped_pack = <<>>
    BY <1>2 DEF mapped_pack
  <2>2. QED
    BY <2>1 DEF Range
<1>3. CASE listing # {}
  <2>1. mapped_pack = index[Max(listing)]
    BY <1>3 DEF mapped_pack
  <2>2. Max(listing) \in listing
    <3>1. listing \subseteq 0..Len(index)
      BY <1>1
    <3> HIDE DEF listing
    <3>2. QED
      BY <1>1, <1>3, <3>1, MaxOf
  <2>3. PICK i \in DOMAIN index : i = Max(listing) /\ want \in Range(index[i])
    BY <2>2
  <2>4. index[i] \in Seq(Oids) /\ mapped_pack = index[i]
    BY <1>1, <2>1, <2>3
  <2>5. \A o \in Range(index[i]) : o \in Oids /\ Servable(o)
    BY <2>4 DEF ResolvedServed, Range
  <2>6. QED
    BY <2>3, <2>4, <2>5
<1>4. QED
  BY <1>2, <1>3

(* The steps of a pull before the pool is started.                           *)
Resolving ==
    \/ init_download \/ (\E oid \in Oids : download(oid)) \/ ensure_index
    \/ use_mapped_pack \/ resolve_single

\* The invariant is kept while a download resolves its object.
LEMMA ResolvingKeeps ==
  ASSUME Inv, Resolving
  PROVE  Inv'
<1>1. /\ UNCHANGED <<poolVars, cache, packs, storeVars, treeVars, published>>
      /\ trouble' \in BOOLEAN
      /\ stage # "fetching" /\ stage' # "fetching"
  BY DEF Resolving, init_download, download, ensure_index, use_mapped_pack, resolve_single, End,
         Inv, PoolInv, PoolTyped
<1>2. PoolInv'
  BY <1>1, PoolRests DEF Inv
<1>3. PushInv' /\ \A o : Servable(o)' = Servable(o)
  BY <1>1, PushRests DEF Inv
<1>4. /\ PullTyped /\ PoolAtRest /\ ResolvedServed /\ Untroubled /\ CauseKept
      /\ UNCHANGED <<missing, failed, first_error, cancel, pc, group, session, pending, manifest,
                     chunk_map, meta_index>>
  BY <1>1 DEF Inv, PullInv, poolVars, storeVars, treeVars
<1>5. PoolAtRest' /\ PlannedAll' /\ Untroubled'
  <2>1. /\ \A w \in Workers : pc[w] = "idle"
        /\ first_error = "none" /\ ~cancel /\ ~failed
    BY <1>1, <1>4 DEF PoolAtRest
  <2>2. QED
    BY <1>1, <1>4, <2>1 DEF PoolAtRest, PlannedAll, Untroubled
<1>6. /\ manifest \in [Oids -> Files] /\ meta_index \in Seq(Seq(Oids))
      /\ session = "none" => pending = <<>>
      /\ \A o \in published : manifest[o] # "absent"
      /\ ManifestReady
  BY DEF Inv, PushInv, PushTyped, LedgerBacks, AckedKept
<1>7. CASE init_download
  <2>1. /\ stage = "idle" /\ index' = <<>> /\ l1' = {}
        /\ UNCHANGED <<stage, want, l2, result, began, trouble>>
    BY <1>7 DEF init_download
  <2>2. PullTyped'
    <3>1. index' \in Seq(Seq(Oids))
      BY <2>1
    <3>2. QED
      BY <1>4, <2>1, <3>1 DEF PullTyped
  <2>3. ResolvedServed'
    BY <1>3, <1>4, <2>1 DEF ResolvedServed
  <2>4. CauseKept'
    BY <1>4, <2>1 DEF CauseKept
  <2>5. QED
    BY <1>2, <1>3, <1>5, <2>2, <2>3, <2>4 DEF Inv, PullInv
<1>8. ASSUME NEW oid \in Oids, download(oid)
      PROVE  Inv'
  <2>1. /\ session = "none" /\ want' = oid /\ began' = published
        /\ UNCHANGED <<index, l1, l2>>
        /\ \/ manifest[oid] = "absent" /\ result' = "not found" /\ stage' = "idle"
           \/ manifest[oid] # "absent" /\ stage' = (IF oid \in l1 THEN "resolved" ELSE "index") /\ result' = "none"
    BY <1>8 DEF download, End
  <2>2. PullTyped'
    BY <1>4, <1>8, <2>1 DEF PullTyped
  <2>3. ResolvedServed'
    <3>1. oid \in l1 => Servable(oid)
      BY <1>4 DEF ResolvedServed
    <3>2. stage' = "resolved" => Servable(oid)' /\ want' = oid
      BY <1>3, <2>1, <3>1
    <3>3. stage' = "resolved" => Servable(want)'
      BY <1>1, <3>2 DEF Servable, whole
    <3>4. QED
      BY <1>1, <1>3, <1>4, <2>1, <3>3 DEF ResolvedServed
  <2>4. CauseKept'
    BY <1>6, <2>1 DEF CauseKept
  <2>5. QED
    BY <1>2, <1>3, <1>5, <2>2, <2>3, <2>4 DEF Inv, PullInv
<1>9. CASE ensure_index
  <2>1. /\ stage = "index" /\ UNCHANGED <<trouble, want, l1, l2, began>>
        /\ index' = meta_index \/ index' = index
        /\ \/ stage' = "mapped" /\ result' = result
           \/ trouble /\ result' = "failed" /\ stage' = "idle"
    BY <1>9 DEF ensure_index, End
  <2>2. want \in Oids /\ session = "none" /\ result = "none" /\ manifest[want] # "absent"
    BY <1>4, <2>1 DEF PullTyped, ResolvedServed
  <2>3. PullTyped'
    <3>1. index' \in Seq(Seq(Oids))
      BY <1>4, <1>6, <2>1 DEF PullTyped
    <3>2. QED
      BY <1>4, <2>1, <2>2, <3>1 DEF PullTyped
  <2>4. ResolvedServed'
    <3>1. \A i \in DOMAIN index' : \A o \in Range(index'[i]) : Servable(o)
      BY <1>4, <1>6, <2>1 DEF ResolvedServed, ManifestReady
    <3>2. \A o \in l1 : Servable(o)'
      BY <1>3, <1>4 DEF ResolvedServed
    <3>3. stage' \in {"mapped", "idle"}
      BY <2>1
    <3>4. QED
      BY <1>3, <1>4, <2>1, <2>2, <3>1, <3>2, <3>3 DEF ResolvedServed
  <2>5. CauseKept'
    BY <2>1, <2>2 DEF CauseKept
  <2>6. QED
    BY <1>2, <1>3, <1>5, <2>3, <2>4, <2>5 DEF Inv, PullInv
<1>10. CASE use_mapped_pack
  <2>1. /\ stage = "mapped" /\ UNCHANGED <<trouble, want, index, result, began>>
        /\ \/ mapped_pack # <<>> /\ l1' = l1 \union {want} /\ stage' = "resolved" /\ l2' = l2
           \/ /\ mapped_pack # <<>> /\ l1' = l1 \union Range(mapped_pack) /\ stage' = "resolved"
              /\ l2' = [o \in Oids |-> IF o \in Range(mapped_pack) THEN mapped_pack ELSE l2[o]]
           \/ stage' = "single" /\ UNCHANGED <<l1, l2>>
    BY <1>10 DEF use_mapped_pack
  <2>2. want \in Oids /\ session = "none" /\ result = "none" /\ manifest[want] # "absent"
    BY <1>4, <2>1 DEF PullTyped, ResolvedServed
  <2>3. /\ mapped_pack \in Seq(Oids)
        /\ \A o \in Range(mapped_pack) : o \in Oids /\ Servable(o)
        /\ mapped_pack # <<>> => want \in Range(mapped_pack)
    BY <1>4, MappedPackServed
  <2>4. PullTyped'
    <3>1. l1' \in SUBSET Oids
      BY <1>4, <2>1, <2>2, <2>3 DEF PullTyped
    <3>2. l2' \in [Oids -> Seq(Oids)]
      BY <1>4, <2>1, <2>3 DEF PullTyped
    <3>3. stage' \in {"resolved", "single"}
      BY <2>1
    <3>4. QED
      BY <1>4, <2>1, <2>2, <3>1, <3>2, <3>3 DEF PullTyped
  <2>5. ResolvedServed'
    <3>1. \A o \in l1' : Servable(o)'
      BY <1>3, <1>4, <2>1, <2>3 DEF ResolvedServed
    <3>2. stage' = "resolved" => Servable(want)
      BY <2>1, <2>3
    <3>3. stage' = "resolved" => Servable(want)'
      BY <1>1, <1>4, <2>1, <3>2 DEF Servable, whole, storeVars
    <3>4. \A i \in DOMAIN index : \A o \in Range(index[i]) : Servable(o)'
      BY <1>3, <1>4 DEF ResolvedServed
    <3>5. stage' \in {"resolved", "single"}
      BY <2>1
    <3>6. QED
      BY <1>4, <2>1, <2>2, <3>1, <3>3, <3>4, <3>5 DEF ResolvedServed
  <2>6. CauseKept'
    BY <2>1, <2>2 DEF CauseKept
  <2>7. QED
    BY <1>2, <1>3, <1>5, <2>4, <2>5, <2>6 DEF Inv, PullInv
<1>11. CASE resolve_single
  <2>1. /\ stage = "single" /\ UNCHANGED <<trouble, want, index, l2, began>>
        /\ \/ /\ manifest[want] = "whole" /\ l1' = l1 \union {want}
              /\ stage' = "resolved" /\ result' = result
           \/ /\ manifest[want] # "whole" \/ chunk_map[want] # "whole" \/ trouble
              /\ result' = "failed" /\ stage' = "idle" /\ l1' = l1
    BY <1>11 DEF resolve_single, End
  <2>2. want \in Oids /\ session = "none" /\ result = "none" /\ manifest[want] # "absent"
    BY <1>4, <2>1 DEF PullTyped, ResolvedServed
  <2>3. manifest[want] = "whole" => Servable(want)
    BY <1>6, <2>2 DEF ManifestReady
  <2>4. PullTyped'
    <3>1. l1' \in SUBSET Oids /\ stage' \in {"resolved", "idle"}
      BY <1>4, <2>1, <2>2 DEF PullTyped
    <3>2. QED
      BY <1>4, <2>1, <2>2, <3>1 DEF PullTyped
  <2>5. ResolvedServed'
    <3>1. \A o \in l1' : Servable(o)'
      BY <1>3, <1>4, <2>1, <2>3 DEF ResolvedServed
    <3>2. stage' = "resolved" => Servable(want)
      BY <2>1, <2>3
    <3>3. stage' = "resolved" => Servable(want)'
      BY <1>1, <1>4, <2>1, <3>2 DEF Servable, whole, storeVars
    <3>4. \A i \in DOMAIN index : \A o \in Range(index[i]) : Servable(o)'
      BY <1>3, <1>4 DEF ResolvedServed
    <3>5. stage' \in {"resolved", "idle"}
      BY <2>1
    <3>6. QED
      BY <1>4, <2>1, <3>1, <3>3, <3>4, <3>5 DEF ResolvedServed
  <2>6. CauseKept'
    <3>1. manifest[want] = "whole" => chunk_map[want] = "whole"
      BY <2>3 DEF Servable
    <3>2. result' = "failed" => trouble \/ manifest[want] = "torn"
      BY <1>6, <2>1, <2>2, <3>1 DEF Files
    <3>3. DOMAIN pending = {}
      BY <1>6, <2>2
    <3>4. QED
      BY <1>4, <2>1, <2>2, <3>2, <3>3 DEF CauseKept
  <2>7. QED
    BY <1>2, <1>3, <1>5, <2>4, <2>5, <2>6 DEF Inv, PullInv
<1>12. QED
  BY <1>7, <1>8, <1>9, <1>10, <1>11 DEF Resolving

(* The pool is started for what is not cached.                               *)
LEMMA FetchKeeps ==
  ASSUME Inv, fetch_missing
  PROVE  Inv'
<1> DEFINE wanted == ChunksOf[want] \ cache
           plan == plan_range_groups(wanted)
<1>1. /\ stage = "resolved" /\ stage' = "fetching" /\ spawn(plan)
      /\ UNCHANGED <<storeVars, treeVars, want, index, l1, l2, result, began, published>>
  BY DEF fetch_missing
<1>2. /\ missing' = plan /\ UNCHANGED <<packs, cache, trouble>>
      /\ first_error' = "none" /\ failed' = FALSE /\ cancel' = FALSE
      /\ \A w \in Workers : pc'[w] \in {"loop", "done"}
  BY <1>1 DEF spawn
<1>3. want \in Oids /\ Servable(want)
  BY <1>1 DEF Inv, PullInv, PullTyped, ResolvedServed
<1>4. /\ wanted \in SUBSET Chunks /\ pack_of \in [Chunks -> SUBSET Chunks]
      /\ \A c \in wanted : pack_of[c] # {} /\ whole(pack_of[c])
  BY <1>3, LfsTransferAssumption DEF Inv, PushInv, PushTyped, Servable
<1>5. /\ plan \in Seq(Groups)
      /\ \A c \in wanted : \E i \in DOMAIN plan : c \in plan[i].chunks
      /\ \A i \in DOMAIN plan : \E c \in wanted : plan[i].pack = pack_of[c]
  <2> HIDE DEF wanted
  <2>1. QED
    BY <1>4, PlanCovers
<1>6. PoolInv'
  <2>1. Joined
    BY <1>1 DEF Inv, PullInv, PoolAtRest, Joined
  <2> HIDE DEF plan
  <2>2. QED
    BY <1>1, <1>5, <2>1, SpawnStarts DEF Inv
<1>7. PushInv' /\ \A o : Servable(o)' = Servable(o)
  BY <1>1, <1>2, PushRests DEF Inv
<1>8. PullInv'
  <2>0. /\ PullInv /\ session' = session /\ manifest' = manifest /\ pending' = pending
        /\ pack_of' = pack_of /\ chunk_map' = chunk_map
    BY <1>1 DEF Inv, storeVars, treeVars
  <2>1. PullTyped' /\ PoolAtRest'
    BY <1>1, <2>0 DEF PullInv, PullTyped, PoolAtRest
  <2>2. ResolvedServed'
    <3>1. Servable(want)'
      BY <1>1, <1>2, <1>3, <2>0 DEF Servable, whole
    <3>2. QED
      BY <1>1, <1>7, <2>0, <3>1 DEF PullInv, ResolvedServed
  <2>3. PlannedAll'
    <3>1. \A c \in ChunksOf[want] : c \in cache \/ \E i \in DOMAIN plan : c \in plan[i].chunks
      BY <1>5
    <3>2. \A i \in DOMAIN plan : whole(plan[i].pack)
      BY <1>4, <1>5
    <3> HIDE DEF plan
    <3>3. (\A i \in DOMAIN missing : whole(missing[i].pack))'
      BY <1>2, <3>2 DEF whole
    <3>4. (\A c \in ChunksOf[want] : c \in cache \/ \E i \in DOMAIN missing : c \in missing[i].chunks)'
      BY <1>1, <1>2, <3>1
    <3>5. \A w \in Workers : pc'[w] \notin Working
      BY <1>2 DEF Working
    <3>6. QED
      BY <3>3, <3>4, <3>5 DEF PlannedAll
  <2>4. Untroubled' /\ CauseKept'
    BY <1>1, <1>2, <2>0 DEF PullInv, Untroubled, CauseKept
  <2>5. QED
    BY <2>1, <2>2, <2>3, <2>4 DEF PullInv
<1>9. QED
  BY <1>6, <1>7, <1>8 DEF Inv

(* A pool that has joined without an error has cached everything.            *)
LEMMA JoinedComplete ==
  ASSUME PoolInv
  PROVE  JoinComplete
<1> SUFFICES ASSUME Joined, first_error = "none", NEW i \in DOMAIN missing
             PROVE  missing[i].chunks \subseteq cache
  BY DEF JoinComplete
<1>1. /\ missing \in Seq(Groups) /\ next \in Nat
      /\ \A w \in Workers : pc[w] \in {"idle", "done"}
  BY DEF PoolInv, PoolTyped, Joined
<1>2. ~(next <= Len(missing))
  BY <1>1 DEF PoolInv, UnclaimedWaited
<1>3. i < next
  BY <1>1, <1>2
<1>4. \A w \in Workers : pc[w] \notin Working
  BY <1>1 DEF Working
<1>5. QED
  BY <1>3, <1>4 DEF PoolInv, ClaimedInHand

\* The invariant is kept when it reconstructs it.
LEMMA ReconstructKeeps ==
  ASSUME Inv, reconstruct
  PROVE  Inv'
<1>1. /\ stage = "fetching" /\ stage' = "idle" /\ Joined /\ PoolGone
      /\ result' = IF first_error = "none" /\ ChunksOf[want] \subseteq cache THEN "ok" ELSE "failed"
      /\ UNCHANGED <<storeVars, treeVars, want, index, l1, l2, began, published>>
  BY DEF reconstruct, End
<1>2. /\ UNCHANGED <<packs, cache, trouble>>
      /\ first_error' = "none" /\ failed' = FALSE /\ cancel' = FALSE
      /\ \A w \in Workers : pc'[w] = "idle"
  BY <1>1 DEF PoolGone
<1>3. PoolInv'
  BY <1>1, PoolGoneEmpty DEF Inv
<1>4. PushInv' /\ \A o : Servable(o)' = Servable(o)
  BY <1>1, <1>2, PushRests DEF Inv
<1>5. PullInv /\ want \in Oids
  BY <1>1 DEF Inv, PullInv, PullTyped
<1>6. PullTyped' /\ PoolAtRest' /\ PlannedAll' /\ Untroubled'
  BY <1>1, <1>2, <1>5 DEF PullInv, PullTyped, PoolAtRest, PlannedAll, Untroubled
<1>7. ResolvedServed'
  BY <1>1, <1>4, <1>5 DEF PullInv, ResolvedServed
<1>8. CauseKept'
  <2>1. ~trouble => first_error = "none"
    BY <1>5 DEF PullInv, Untroubled
  <2>2. first_error = "none" => ChunksOf[want] \subseteq cache
    <3>1. first_error = "none" => \A i \in DOMAIN missing : missing[i].chunks \subseteq cache
      BY <1>1, JoinedComplete DEF Inv, JoinComplete
    <3>2. QED
      BY <1>1, <1>5, <3>1 DEF PullInv, PlannedAll
  <2>3. ~trouble => result' = "ok"
    BY <1>1, <2>1, <2>2
  <2>4. result' # "not found"
    BY <1>1
  <2>5. QED
    BY <1>2, <2>3, <2>4 DEF CauseKept
<1>9. QED
  BY <1>3, <1>4, <1>6, <1>7, <1>8 DEF Inv, PullInv

(* What a step of the pool does to the fetch around it.                      *)
LEMMA WorkerFetches ==
  ASSUME PoolTyped, NEW w \in Workers, Worker(w)
  PROVE  /\ cache \subseteq cache' /\ UNCHANGED <<packs, missing, trouble, cancel>>
         /\ pc[w] \notin {"idle", "done"}
         /\ \A v \in Workers : pc'[v] \in Working =>
               \/ pc[v] \in Working /\ group'[v] = group[v]
               \/ \E i \in DOMAIN missing : group'[v] = missing[i]
<1>0. pc \in [Workers -> Places] /\ group \in [Workers -> Groups] /\ missing \in Seq(Groups)
      /\ next \in Nat \ {0}
  BY DEF PoolTyped
<1>1. CASE loop(w) \/ enter(w) \/ wake(w) \/ leave(w)
  BY <1>0, <1>1 DEF loop, enter, wake, leave, To, Working
<1>2. CASE claim(w)
  <2>1. /\ pc[w] = "claim" /\ UNCHANGED <<cache, packs, missing, trouble, cancel>>
        /\ \/ To(w, "exit") /\ group' = group
           \/ ~(next > Len(missing)) /\ To(w, "budget") /\ group' = [group EXCEPT ![w] = missing[next]]
    BY <1>2 DEF claim
  <2>2. ~(next > Len(missing)) => next \in DOMAIN missing
    BY <1>0
  <2>3. QED
    BY <1>0, <2>1, <2>2 DEF To, Working
<1>3. CASE acquire(w) \/ succeed(w) \/ fail(w)
  BY <1>0, <1>3 DEF acquire, succeed, fail, To, Working
<1>4. CASE get_group(w) \/ get_alone(w)
  BY <1>0, <1>4 DEF get_group, get_alone, get_range, To, Working
<1>5. CASE decode(w)
  BY <1>0, <1>5 DEF decode, To, Working
<1>6. CASE release(w)
  BY <1>0, <1>6 DEF release, Working
<1>7. QED
  BY <1>1, <1>2, <1>3, <1>4, <1>5, <1>6 DEF Worker

\* Where nothing fails, a worker reports no error.
LEMMA WorkerUntroubled ==
  ASSUME PoolTyped, PlannedAll, Untroubled, stage = "fetching", NEW w \in Workers, Worker(w), ~trouble
  PROVE  /\ ~failed' /\ first_error' = "none"
         /\ \A v \in Workers : pc'[v] \notin {"get again", "alone", "alone again",
                                              "decode alone", "error", "release failed"}
<1> DEFINE Bad == {"get again", "alone", "alone again", "decode alone", "error", "release failed"}
<1>0. /\ pc \in [Workers -> Places] /\ ~failed /\ ~cancel /\ first_error = "none"
      /\ \A v \in Workers : pc[v] \notin Bad
      /\ \A v \in Workers : pc[v] \in Working => whole(group[v].pack)
  BY DEF PoolTyped, Untroubled, PlannedAll
<1>1. CASE loop(w) \/ enter(w) \/ wake(w) \/ leave(w) \/ claim(w) \/ acquire(w) \/ succeed(w)
  <2>1. \E x \in Places \ Bad : To(w, x)
    <3>1. CASE loop(w) \/ enter(w) \/ wake(w)
      BY <1>0, <3>1 DEF loop, enter, wake, Places, Working
    <3>2. CASE leave(w) \/ claim(w) \/ acquire(w) \/ succeed(w)
      BY <3>2 DEF leave, claim, acquire, succeed, Places, Working
    <3>3. QED
      BY <1>1, <3>1, <3>2
  <2>2. \A v \in Workers : pc'[v] \notin Bad
    BY <1>0, <2>1 DEF To
  <2>3. ~failed' /\ first_error' = "none"
    <3>1. CASE loop(w)
      BY <1>0, <3>1 DEF loop
    <3>2. CASE enter(w) \/ wake(w) \/ leave(w) \/ claim(w) \/ acquire(w) \/ succeed(w)
      <4>1. UNCHANGED <<failed, first_error>>
        BY <3>2 DEF enter, wake, leave, claim, acquire, succeed
      <4>2. QED
        BY <1>0, <4>1
    <3>3. QED
      BY <1>1, <3>1, <3>2
  <2>4. QED
    BY <2>2, <2>3
<1>3. ~fail(w)
  BY <1>0 DEF fail
<1>4. CASE get_group(w) \/ get_alone(w)
  <2>1. pc[w] = "get" /\ whole(group[w].pack)
    BY <1>0, <1>4 DEF get_group, get_alone, get_range, Working
  <2>2. pc' = [pc EXCEPT ![w] = "decode"] /\ UNCHANGED <<failed, first_error>>
    BY <1>4, <2>1 DEF get_group, get_alone, get_range, unanswered, To
  <2>3. QED
    BY <1>0, <2>2
<1>5. CASE decode(w)
  BY <1>0, <1>5 DEF decode, To
<1>6. CASE release(w)
  BY <1>0, <1>6 DEF release
<1>7. QED
  BY <1>1, <1>3, <1>4, <1>5, <1>6 DEF Worker

\* The invariant is kept by every step of the pool of a download.
LEMMA PoolKeeps ==
  ASSUME Inv, Pool
  PROVE  Inv'
<1>1. PoolNext /\ UNCHANGED lfsVars
  BY DEF Pool
<1>2. /\ cache \subseteq cache' /\ UNCHANGED <<packs, missing, trouble>>
      /\ \E w \in Workers : pc[w] \notin {"idle", "done"}
      /\ \A v \in Workers : pc'[v] \in Working =>
            \/ pc[v] \in Working /\ group'[v] = group[v]
            \/ \E i \in DOMAIN missing : group'[v] = missing[i]
  <2>1. CASE \E w \in Workers : Worker(w)
    BY <2>1, WorkerFetches DEF Inv, PoolInv
  <2>2. CASE cancel_fetch \/ tick
    BY <2>2 DEF cancel_fetch, tick, Running
  <2>3. QED
    BY <1>1, <2>1, <2>2 DEF PoolNext
<1>3. stage = "fetching" /\ PullInv
  BY <1>2 DEF Inv, PullInv, PoolAtRest
<1>4. UNCHANGED <<storeVars, treeVars, published, stage, want, index, l1, l2, result, began, session,
                  pending, manifest>>
  BY <1>1 DEF lfsVars, pullVars, storeVars, treeVars
<1>5. PoolInv'
  BY <1>1, PoolStepKeeps DEF Inv
<1>6. PushInv' /\ \A o : Servable(o)' = Servable(o)
  BY <1>2, <1>4, PushRests DEF Inv
<1>7. PullTyped' /\ PoolAtRest' /\ CauseKept'
  BY <1>2, <1>3, <1>4 DEF PullInv, PullTyped, PoolAtRest, CauseKept
<1>8. ResolvedServed'
  <2>1. Servable(want) /\ UNCHANGED <<pack_of, chunk_map>>
    BY <1>3, <1>4 DEF PullInv, ResolvedServed, storeVars, treeVars
  <2>2. Servable(want)'
    BY <1>2, <1>4, <2>1 DEF Servable, whole
  <2>3. QED
    BY <1>3, <1>4, <1>6, <2>2 DEF PullInv, ResolvedServed
<1>9. PlannedAll'
  <2>1. \A c \in ChunksOf[want] : c \in cache' \/ \E i \in DOMAIN missing : c \in missing[i].chunks
    BY <1>2, <1>3 DEF PullInv, PlannedAll
  <2>2. \A p : whole(p)' = whole(p)
    BY <1>2 DEF whole
  <2>3. \A i \in DOMAIN missing : whole(missing[i].pack)
    BY <1>3 DEF PullInv, PlannedAll
  <2>4. \A v \in Workers : pc'[v] \in Working => whole(group'[v].pack)
    BY <1>2, <1>3, <2>3 DEF PullInv, PlannedAll
  <2>5. QED
    BY <1>2, <1>4, <2>1, <2>3, <2>4 DEF PlannedAll, whole
<1>10. Untroubled'
  <2>1. SUFFICES ASSUME ~trouble
                 PROVE  Untroubled'
    BY <1>2 DEF Untroubled
  <2>2. CASE \E w \in Workers : Worker(w)
    <3>1. PICK w \in Workers : Worker(w)
      BY <2>2
    <3>2. PoolTyped /\ PlannedAll /\ Untroubled
      BY <1>3 DEF Inv, PoolInv, PullInv
    <3>3. ~cancel /\ cancel' = cancel
      BY <2>1, <3>1, <3>2, WorkerFetches DEF Untroubled
    <3>4. QED
      BY <1>3, <2>1, <3>1, <3>2, <3>3, WorkerUntroubled DEF Untroubled
  <2>3. CASE tick
    BY <1>3, <2>3 DEF tick, PullInv, Untroubled
  <2>4. ~cancel_fetch
    BY <2>1 DEF cancel_fetch
  <2>5. QED
    BY <1>1, <2>2, <2>3, <2>4 DEF PoolNext
<1>11. QED
  BY <1>5, <1>6, <1>7, <1>8, <1>9, <1>10 DEF Inv, PullInv

------------------------------------------------------------------------------
(* The theorems.                                                             *)

\* The invariant holds at first.
LEMMA InitInv ==
  ASSUME Init
  PROVE  Inv
<1>0. /\ missing = <<>> /\ next = 1 /\ failed = FALSE /\ first_error = "none" /\ cancel = FALSE
      /\ pc = [w \in Workers |-> "idle"] /\ group = [w \in Workers |-> NoGroup]
      /\ left = [w \in Workers |-> {}] /\ active = 0 /\ used = 0 /\ aimd = AimdController
      /\ now = 0 /\ pushback = Never /\ trouble = FALSE
  BY DEF Init, PoolInit
<1>1. PoolInv
  <2>1. PoolTyped
    <3>1. pc \in [Workers -> Places]
      BY <1>0 DEF Places
    <3>2. group \in [Workers -> Groups] /\ left \in [Workers -> SUBSET Chunks]
      BY <1>0 DEF NoGroup, Groups
    <3>3. /\ missing \in Seq(Groups) /\ next \in Nat \ {0} /\ active \in Nat /\ used \in Nat
          /\ now \in Nat /\ pushback \in Nat \union {Never}
      BY <1>0
    <3>4. aimd \in Controllers
      BY <1>0, FreshController
    <3>5. QED
      BY <1>0, <3>1, <3>2, <3>3, <3>4 DEF PoolTyped
  <2>2. SlotsExact
    <3>1. Cardinality(holding) = 0 /\ Cardinality(in_flight) = 0
      BY <1>0, NobodyHolds DEF Outside
    <3>2. 0 <= MaxBytes
      BY AdaptiveFetchAssumption
    <3>3. QED
      BY <1>0, <3>1, <3>2, FreshController DEF SlotsExact
  <2>3. StopsForReason
    BY <1>0 DEF StopsForReason
  <2>4. ClaimedInHand /\ UnclaimedWaited
    <3>1. DOMAIN missing = {} /\ ~(next <= Len(missing))
      BY <1>0
    <3>2. QED
      BY <3>1 DEF ClaimedInHand, UnclaimedWaited
  <2>5. WindowKnows
    BY <1>0, FreshController DEF WindowKnows
  <2>6. QED
    BY <2>1, <2>2, <2>3, <2>4, <2>5 DEF PoolInv
<1>2. /\ session = "none" /\ ledger = {} /\ pack_of = [c \in Chunks |-> {}] /\ batch = {}
      /\ pending = <<>> /\ pos = 1 /\ acked = {} /\ published = {}
      /\ chunk_map = [o \in Oids |-> "absent"] /\ manifest = [o \in Oids |-> "absent"]
      /\ open_pack = {} /\ meta_packs = <<>> /\ meta_index = <<>>
      /\ stage = "idle" /\ result = "none" /\ index = <<>> /\ l1 = {} /\ l2 = [o \in Oids |-> <<>>]
  BY DEF Init
<1>3. /\ pending \in Seq(Oids) /\ DOMAIN pending = {} /\ pos \in Nat \ {0}
      /\ meta_index \in Seq(Seq(Oids)) /\ DOMAIN meta_index = {}
      /\ meta_packs \in Seq(Seq(Oids)) /\ DOMAIN meta_packs = {}
      /\ index \in Seq(Seq(Oids)) /\ DOMAIN index = {} /\ l2 \in [Oids -> Seq(Oids)]
  BY <1>2
<1>4. PushInv
  <2>1. PushTyped
    BY <1>2, <1>3 DEF PushTyped, Sessions, Files
  <2>2. LedgerBacks /\ QueueExact
    BY <1>2, <1>3 DEF LedgerBacks, QueueExact, Exporting
  <2>3. ExportOrdered /\ AckedKept
    BY <1>2 DEF ExportOrdered, AckedKept
  <2>4. ManifestReady /\ PacksServed /\ OpenPackExact
    BY <1>2, <1>3 DEF ManifestReady, PacksServed, OpenPackExact, Range
  <2>5. QED
    BY <2>1, <2>2, <2>3, <2>4 DEF PushInv
<1>5. PullInv
  <2>1. PullTyped /\ ResolvedServed
    BY <1>2, <1>3 DEF PullTyped, ResolvedServed
  <2>2. PoolAtRest /\ PlannedAll /\ Untroubled /\ CauseKept
    BY <1>0, <1>2 DEF PoolAtRest, PlannedAll, Untroubled, CauseKept
  <2>3. QED
    BY <2>1, <2>2 DEF PullInv
<1>6. QED
  BY <1>1, <1>4, <1>5 DEF Inv

\* It holds after every step.
LEMMA StepInv ==
  ASSUME Inv, [Next]_vars
  PROVE  Inv'
<1>1. CASE UNCHANGED vars
  <2>1. /\ UNCHANGED <<poolVars, cache, packs, trouble, storeVars, treeVars, published>>
        /\ UNCHANGED <<stage, want, index, l1, l2, result, began>>
    BY <1>1 DEF vars, lfsVars, pullVars
  <2>2. PoolInv'
    BY <2>1, PoolRests DEF Inv, PoolInv, PoolTyped
  <2>3. PushInv' /\ \A o : Servable(o)' = Servable(o)
    BY <2>1, PushRests DEF Inv
  <2>4. /\ PullInv
        /\ UNCHANGED <<missing, failed, first_error, cancel, pc, group, session, pending, manifest,
                       chunk_map, pack_of>>
    BY <2>1 DEF Inv, poolVars, storeVars, treeVars
  <2>5. PullTyped' /\ PoolAtRest' /\ Untroubled' /\ CauseKept'
    BY <2>1, <2>4 DEF PullInv, PullTyped, PoolAtRest, Untroubled, CauseKept
  <2>6. ResolvedServed' /\ PlannedAll'
    <3>1. ResolvedServed'
      BY <2>1, <2>4 DEF PullInv, ResolvedServed, Servable, whole
    <3>2. PlannedAll'
      BY <2>1, <2>4 DEF PullInv, PlannedAll, whole
    <3>3. QED
      BY <3>1, <3>2
  <2>7. QED
    BY <2>2, <2>3, <2>5, <2>6 DEF Inv, PullInv
<1>2. CASE Pull
  BY <1>2, ResolvingKeeps, FetchKeeps, ReconstructKeeps DEF Pull, Resolving
<1>3. QED
  BY <1>1, <1>2, PushKeeps, PoolKeeps DEF Next

\* It holds in every state.
LEMMA AlwaysInv == Spec => []Inv
<1>1. Init => Inv
  BY InitInv
<1>2. Inv /\ [Next]_vars => Inv'
  BY StepInv
<1>3. QED
  BY <1>1, <1>2, PTL DEF Spec

(* The gate counts exactly the workers that hold a slot and the budget the   *)
(* bytes in flight, which never exceed it, and the AIMD limit stays between  *)
(* its floor and the size of the pool: for every pool, group and schedule of *)
(* fetch_missing_parallel.                                                   *)
THEOREM SlotsAlwaysExact == Spec => []SlotsExact
<1>1. Inv => SlotsExact
  BY DEF Inv, PoolInv
<1>2. QED
  BY <1>1, AlwaysInv, PTL

(* When the workers of fetch_missing_parallel have joined without an error,  *)
(* every chunk of every planned group is in the cache.                       *)
THEOREM JoinAlwaysComplete == Spec => []JoinComplete
<1>1. Inv => JoinComplete
  BY JoinedComplete DEF Inv
<1>2. QED
  BY <1>1, AlwaysInv, PTL

(* The AIMD controller raises its limit only when the remote has not pushed  *)
(* back for a whole window.                                                  *)
THEOREM RaisesOnlyAfterQuiet == Spec => QuietBeforeRaise
<1> DEFINE Quiet == Running /\ aimd'.limit > aimd.limit =>
                       pushback = Never \/ now - pushback >= Window
<1>1. ASSUME Inv, [Next]_vars
      PROVE  Quiet
  <2> SUFFICES ASSUME Running, aimd'.limit > aimd.limit
               PROVE  pushback = Never \/ now - pushback >= Window
    OBVIOUS
  <2>0. PoolTyped /\ SlotsExact /\ WindowKnows /\ aimd.limit \in Nat
    BY <1>1 DEF Inv, PoolInv, PoolTyped, Controllers
  <2>1. ~(aimd.limit > aimd.limit)
    BY <2>0
  <2>2. aimd' # aimd
    BY <2>1
  <2>3. aimd' # on_pressure
    <3>1. on_pressure.limit <= aimd.limit /\ on_pressure.limit \in Nat
      BY <2>0, OnPressure DEF Controllers
    <3>2. QED
      BY <2>0, <3>1
  <2>4. stage = "fetching" /\ ~Joined
    BY <1>1 DEF Running, Joined, Inv, PullInv, PoolAtRest
  <2>5. PICK w \in Workers : succeed(w)
    <3>1. ~UNCHANGED vars
      BY <2>2 DEF vars, poolVars
    <3>2. ~Push /\ ~crash
      BY <2>2 DEF Push, open_session, upload, upload_fails, commit_publish_batch, copy_packs, write_chunk_map,
                  write_manifest, export_meta_pack, export_meta_index, crash, poolVars
    <3>3. ~Pull
      BY <2>2, <2>4 DEF Pull, init_download, download, ensure_index, use_mapped_pack, resolve_single,
                        fetch_missing, reconstruct
    <3>4. PoolNext
      BY <1>1, <3>1, <3>2, <3>3 DEF Next, Pool
    <3>5. PICK w \in Workers : Worker(w)
      BY <2>2, <3>4 DEF PoolNext, cancel_fetch, tick
    <3>6. succeed(w)
      BY <2>2, <2>3, <3>5 DEF Worker, loop, enter, wake, claim, acquire, get_group, get_alone,
                              get_range, decode, fail, release, leave
    <3>7. QED
      BY <3>6
  <2>6. aimd' = on_success
    BY <2>5 DEF succeed
  <2>7. ~aimd.pressure /\ now - aimd.window_start >= Window
    BY <2>0, <2>6, OnSuccess
  <2>8. pushback # Never => pushback <= aimd.window_start
    BY <2>0, <2>7 DEF WindowKnows
  <2>9. /\ now \in Nat /\ pushback \in Nat \union {Never} /\ aimd.window_start \in Nat
        /\ Window \in Nat
    BY <2>0, AdaptiveFetchAssumption DEF PoolTyped, Controllers
  <2>10. QED
    BY <2>7, <2>8, <2>9
<1>2. ASSUME Inv, [Next]_vars
      PROVE  [Quiet]_<<aimd, pushback, now>>
  BY <1>1, <1>2
<1>3. QED
  BY <1>2, AlwaysInv, PTL DEF Spec, QuietBeforeRaise

(* In every state of a push, crashes included, the tree serves every object  *)
(* whose manifest is readable, and the meta index lists nothing else.        *)
THEOREM ManifestAlwaysReady == Spec => []ManifestReady
<1>1. Inv => ManifestReady
  BY DEF Inv, PushInv
<1>2. QED
  BY <1>1, AlwaysInv, PTL

(* What a push session acknowledged is served once the session has ended     *)
(* well, unless an earlier push died inside the write of its manifest.       *)
THEOREM PushedAlwaysServed == Spec => []PushedIsServed
<1>1. Inv => PushedIsServed
  <2> SUFFICES ASSUME Inv, NEW o \in published, manifest[o] # "torn"
               PROVE  Servable(o)
    BY DEF PushedIsServed
  <2>1. o \in Oids /\ manifest[o] \in Files /\ manifest[o] # "absent"
    BY DEF Inv, PushInv, PushTyped, AckedKept
  <2>2. QED
    BY <2>1 DEF Inv, PushInv, ManifestReady, Files
<1>2. QED
  BY <1>1, AlwaysInv, PTL

(* A download fails only for a fault of its own or for a torn manifest, and  *)
(* does not find only what was not pushed when it began.                     *)
THEOREM AlwaysFailsForACause == Spec => []FailsForACause
<1>1. Inv => FailsForACause
  BY DEF Inv, PullInv, CauseKept, FailsForACause
<1>2. QED
  BY <1>1, AlwaysInv, PTL

------------------------------------------------------------------------------
(* Nobody sleeps on the budget for nothing: the safety half of Joins.        *)

(* Who sleeps in ByteBudget::acquire would not find its bytes if it looked.  *)
SleepsForBytes ==
    \A w \in Workers : pc[w] = "blocked" => used + span(group[w]) > MaxBytes

(* And somebody else has bytes to give back, who does not itself wait for    *)
(* bytes or at the gate.                                                     *)
SleeperIsAwaited ==
    \A w \in Workers : pc[w] = "blocked" =>
        /\ used + span(group[w]) > MaxBytes
        /\ \E v \in loading : v # w /\ span(group[v]) > 0

\* A worker falls asleep when it does not find its bytes; bytes come back in
\* release alone, which wakes everybody.
LEMMA WorkerSleeps ==
  ASSUME PoolTyped, SleepsForBytes, NEW w \in Workers, Worker(w)
  PROVE  SleepsForBytes'
<1>0. /\ pc \in [Workers -> Places] /\ group \in [Workers -> Groups]
      /\ \A g : span(g)' = span(g)
  BY DEF PoolTyped, span
<1>1. CASE acquire(w)
  <2>1. /\ pc[w] = "budget" /\ group' = group
        /\ \/ /\ used' = used + span(group[w]) /\ pc' = [pc EXCEPT ![w] = "get"]
           \/ /\ ~(used + span(group[w]) <= MaxBytes)
              /\ used' = used /\ pc' = [pc EXCEPT ![w] = "blocked"]
    BY <1>1 DEF acquire, To
  <2>2. /\ used \in Nat /\ MaxBytes \in Nat
        /\ \A v \in Workers : span(group[v]) \in Nat
    <3>1. used \in Nat /\ MaxBytes \in Nat
      BY AdaptiveFetchAssumption DEF PoolTyped
    <3>2. \A v \in Workers : span(group[v]) \in 0..MaxBytes
      BY <1>0, SpanRange
    <3>3. QED
      BY <3>1, <3>2
  <2>3. used <= used'
    BY <2>1, <2>2
  <2>4. \A v \in Workers : pc'[v] = "blocked" => used + span(group[v]) > MaxBytes
    BY <1>0, <2>1, <2>2 DEF SleepsForBytes
  <2>5. used' \in Nat
    BY <2>1, <2>2
  <2>6. \A v \in Workers : pc'[v] = "blocked" => used' + span(group'[v]) > MaxBytes
    BY <2>1, <2>2, <2>3, <2>4, <2>5
  <2>7. QED
    BY <1>0, <2>6 DEF SleepsForBytes
<1>2. CASE release(w)
  <2>1. \A v \in Workers : pc'[v] # "blocked"
    BY <1>0, <1>2 DEF release
  <2>2. QED
    BY <2>1 DEF SleepsForBytes
<1>3. CASE ~acquire(w) /\ ~release(w)
  <2>1. /\ used' = used
        /\ \A v \in Workers : pc'[v] = "blocked" => pc[v] = "blocked" /\ group'[v] = group[v]
    BY <1>0, <1>3 DEF Worker, loop, enter, wake, claim, get_group, get_alone, get_range, decode,
                      succeed, fail, leave, To
  <2>2. QED
    BY <1>0, <2>1 DEF SleepsForBytes
<1>4. QED
  BY <1>1, <1>2, <1>3

\* Every step keeps it: a new pool, or none, has nobody asleep.
LEMMA SleepStep ==
  ASSUME Inv, SleepsForBytes, [Next]_vars
  PROVE  SleepsForBytes'
<1>1. CASE UNCHANGED <<pc, used, group>>
  BY <1>1 DEF SleepsForBytes, span
<1>2. CASE \A w \in Workers : pc'[w] # "blocked"
  BY <1>2 DEF SleepsForBytes
<1>3. CASE Push \/ crash
  BY <1>1, <1>3 DEF Push, open_session, upload, upload_fails, commit_publish_batch, copy_packs, write_chunk_map,
                    write_manifest, export_meta_pack, export_meta_index, crash, poolVars
<1>4. CASE Pull
  BY <1>1, <1>2, <1>4 DEF Pull, init_download, download, ensure_index, use_mapped_pack,
                          resolve_single, fetch_missing, spawn, reconstruct, PoolGone, poolVars
<1>5. CASE Pool
  BY <1>1, <1>5, WorkerSleeps DEF Pool, PoolNext, cancel_fetch, tick, Inv, PoolInv
<1>6. QED
  BY <1>1, <1>3, <1>4, <1>5 DEF Next, vars, poolVars

(* A worker asleep in ByteBudget::acquire waits for bytes that another       *)
(* worker holds, is about to give back, and announces: no wake-up is lost    *)
(* and the sleepers never wait for one another, whatever the sizes of the    *)
(* groups.                                                                   *)
THEOREM SleeperIsAlwaysAwaited == Spec => []SleeperIsAwaited
<1>1. Init => SleepsForBytes
  BY DEF Init, PoolInit, SleepsForBytes
<1>2. Inv /\ SleepsForBytes /\ [Next]_vars => SleepsForBytes'
  BY SleepStep
<1>3. ASSUME Inv, SleepsForBytes
      PROVE  SleeperIsAwaited
  <2> SUFFICES ASSUME NEW w \in Workers, pc[w] = "blocked"
               PROVE  \E v \in loading : v # w /\ span(group[v]) > 0
    BY <1>3 DEF SleepsForBytes, SleeperIsAwaited
  <2>0. PoolTyped /\ SlotsExact
    BY <1>3 DEF Inv, PoolInv
  <2>1. used \in Nat /\ MaxBytes \in Nat /\ span(group[w]) \in 0..MaxBytes
    BY <2>0, AdaptiveFetchAssumption, SpanRange DEF PoolTyped
  <2>2. used # 0
    BY <1>3, <2>1 DEF SleepsForBytes
  <2>3. in_flight # {}
    <3>1. used = Cardinality(in_flight)
      BY <2>0 DEF SlotsExact
    <3>2. QED
      BY <2>2, <3>1, FS_EmptySet
  <2>4. PICK b \in loading \X (1..MaxBytes) : b[2] <= span(group[b[1]])
    BY <2>3 DEF in_flight
  <2>5. b[1] \in loading /\ b[2] \in 1..MaxBytes /\ b[1] \in Workers
    BY <2>4 DEF loading, holding
  <2>6. b[1] # w
    BY <2>5 DEF loading, holding
  <2>7. span(group[b[1]]) \in 0..MaxBytes
    BY <2>0, <2>5, SpanRange DEF PoolTyped
  <2>8. span(group[b[1]]) > 0
    BY <2>1, <2>4, <2>5, <2>7
  <2>9. QED
    BY <2>5, <2>6, <2>8
<1>4. QED
  BY <1>1, <1>2, <1>3, AlwaysInv, PTL DEF Spec

=============================================================================
