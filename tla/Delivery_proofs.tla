-------------------------- MODULE Delivery_proofs --------------------------
(***************************************************************************)
(* Proofs about Delivery, for any versions of an asset of any kind, any    *)
(* number of connections, and any faults in any order: restarts of the     *)
(* origin, lost and cut replies, rot, eviction, crashes of the client.     *)
(***************************************************************************)
EXTENDS Delivery, FiniteSetTheorems, FunctionTheorems, TLAPS

Reasons == {"network", "read", "republished", "session", "sweep", "disk", "rot"}
Ats     == {"done", "top", "get", "put", "swept"}
Busy    == {"get", "put", "swept"}

Types ==
    /\ kind \in Kinds /\ pub \in Versions /\ sess \in [open : BOOLEAN, known : SUBSET Chunks]
    /\ cache \in [Chunks -> {"none", "good", "bad"}] /\ out \in [Files -> SUBSET Chunks]
    /\ opts \in Options /\ (pc # "idle" => man \in Versions)
    /\ seg \in Nat /\ file \in Nat /\ mref \subseteq Chunks
    /\ reply \in [inline : SUBSET Chunks, refs : SUBSET Chunks]
    /\ hashes \in Seq(Chunks) /\ next \in Nat /\ failed \in BOOLEAN
    /\ wk \in [Workers -> [at : Ats, hash : Chunks \cup {NoHash}]]
    /\ met \subseteq Reasons

\* A bootstrap is for a version of one file; once installed, it is there.
Boot ==
    /\ pc \in {"boot", "download", "seed"} => man \in Single
    /\ pc = "seed" => out[1] = Segments[man][1]

\* Every file the rebuild is done with is staged or in place.
Built ==
    /\ pc \notin {"rebuild", "commit"} => file = 0 /\ staged = {}
    /\ pc \in {"rebuild", "commit"} =>
         /\ file <= Len(Segments[man]) /\ staged \subseteq 1..file
         /\ \A i \in 1..file : i \in staged \/ out[i] = Segments[man][i]
    /\ pc = "commit" => file = Len(Segments[man])

\* The fetch knows when the origin serves another version than it reads.
Republished == pc # "idle" /\ pub # man => "republished" \in met

\* A fetch by segments has its session until the origin restarts.
Session ==
    pc \in {"boot", "download", "seed", "mark", "batch", "reply"} /\ ~use_parallel =>
        sess.open \/ "session" \in met

\* The segments that came are here, or remembered for repair.
Stream ==
    /\ pc \in {"idle", "open", "boot", "download", "seed", "mark"} => seg = 0 /\ mref = {}
    /\ pc \in {"batch", "reply"} =>
         /\ ~use_parallel /\ seg <= Len(Segments[man]) /\ (pc = "reply" => seg < Len(Segments[man]))
         /\ "republished" \notin met => mref \subseteq ChunksOf(man)
         /\ "republished" \notin met /\ pc = "reply" =>
              reply.inline \cup reply.refs = Segments[man][seg + 1]
         /\ met = {} => \A i \in 1..seg : Segments[man][i] \subseteq have \cup mref

Rotten == \A c \in Chunks : cache[c] = "bad" => "rot" \in met

\* A chunk the pool was started for is here, still to be taken, or in the
\* hands of a worker, until an error is recorded.
Pool ==
    /\ pc # "pool" => failed = FALSE /\ \A w \in Workers : wk[w].at = "done"
    /\ \A w \in Workers : /\ wk[w].at \in Busy => wk[w].hash \in ChunksOf(man)
                          /\ wk[w].at = "swept" => "sweep" \in met
                          /\ pc = "pool" /\ wk[w].at = "done" /\ ~failed => next > Len(hashes)
    /\ failed => met \cap {"network", "republished", "sweep"} # {}
    /\ pc = "pool" =>
         /\ use_parallel /\ next > 0 /\ \A k \in DOMAIN hashes : hashes[k] \in ChunksOf(man)
         /\ "rot" \notin met /\ ~failed => \A c \in ChunksOf(man) :
              \/ c \in have
              \/ \E k \in DOMAIN hashes : k >= next /\ hashes[k] = c
              \/ \E w \in Workers : wk[w].at \in Busy /\ wk[w].hash = c

Route == pc = "spawn" => use_parallel

Arrived ==
    pc = "rebuild" /\ (met = {} \/ (use_parallel /\ "rot" \notin met)) => ChunksOf(man) \subseteq have

Inv ==
    /\ Types /\ Boot /\ Built /\ Republished /\ Session /\ Stream /\ Rotten /\ Pool /\ Route
    /\ Arrived /\ FailsForAReason

-----------------------------------------------------------------------------
\* What the assumption on the segments says of a version.
LEMMA SegmentsTyped ==
  ASSUME NEW v \in Versions
  PROVE  /\ Len(Segments[v]) \in Nat /\ DOMAIN Segments[v] = 1..Len(Segments[v])
         /\ FilesOf(v) \subseteq Files /\ Files \subseteq Nat
         /\ ChunksOf(v) \subseteq Chunks /\ IsFiniteSet(ChunksOf(v))
         /\ \A i \in FilesOf(v) : Segments[v][i] \subseteq ChunksOf(v)
         /\ \A c \in ChunksOf(v) : \E i \in FilesOf(v) : c \in Segments[v][i]
<1>1. Segments[v] \in Seq(SUBSET ChunksOf(v)) /\ IsFiniteSet(ChunksOf(v))
  BY DeliveryAssumption DEF ChunksOf
<1>2. Len(Segments[v]) \in Nat /\ DOMAIN Segments[v] = 1..Len(Segments[v])
  BY <1>1
<1>3. \A i \in FilesOf(v) : Segments[v][i] \subseteq ChunksOf(v)
  BY <1>1, <1>2 DEF FilesOf
<1>4. \A c \in ChunksOf(v) : \E i \in FilesOf(v) : c \in Segments[v][i]
  BY <1>2 DEF ChunksOf, Range, FilesOf
<1>5. Files \subseteq Nat
  BY DEF Files, FilesOf
<1>6. QED
  BY <1>1, <1>2, <1>3, <1>4, <1>5 DEF Files, Chunks

\* What a put leaves in the cache.
LEMMA PutTyped ==
  ASSUME NEW S, cache \in [Chunks -> {"none", "good", "bad"}]
  PROVE  /\ put(S) \in [Chunks -> {"none", "good", "bad"}]
         /\ \A c \in Chunks : /\ put(S)[c] = "bad" => cache[c] = "bad"
                              /\ cache[c] # "none" => put(S)[c] # "none"
                              /\ c \in S => put(S)[c] # "none"
  BY DEF put

\* What a read that heals leaves in the cache.
LEMMA HealsTyped ==
  ASSUME NEW c \in Chunks, cache \in [Chunks -> {"none", "good", "bad"}]
  PROVE  /\ get_heals(c) \in [Chunks -> {"none", "good", "bad"}]
         /\ \A d \in Chunks : get_heals(c)[d] = "bad" => cache[d] = "bad"
         /\ \A d \in Chunks : d # c => get_heals(c)[d] = cache[d]
         /\ [get_heals(c) EXCEPT ![c] = "good"] \in [Chunks -> {"none", "good", "bad"}]
         /\ \A d \in Chunks : [get_heals(c) EXCEPT ![c] = "good"][d] = "bad" => cache[d] = "bad"
         /\ \A d \in Chunks : cache[d] # "none" => [get_heals(c) EXCEPT ![c] = "good"][d] # "none"
<1>1. get_heals(c) = [cache EXCEPT ![c] = IF cache[c] = "bad" THEN "none" ELSE cache[c]]
  BY DEF get_heals
<1>2. QED
  BY <1>1

\* The cache holds what it held, in the same request.
Holds ==
    /\ UNCHANGED <<kind, opts, man>>
    /\ cache' \in [Chunks -> {"none", "good", "bad"}]
    /\ \A c \in Chunks : cache[c] # "none" => cache'[c] # "none"

\* While a session holds its plan, what it has only grows.
LEMMA HaveGrows ==
  ASSUME Types, pc # "idle", Holds
  PROVE  have \subseteq have' /\ prev_index' = prev_index /\ use_parallel' = use_parallel
<1>1. ChunksOf(man) \subseteq Chunks
  BY SegmentsTyped DEF Types
<1>2. prev_index' = prev_index /\ use_parallel' = use_parallel
  BY DEF Holds, prev_index, is_container, use_parallel
<1>3. QED
  BY <1>1, <1>2 DEF have, contains, Holds

\* The values of a client at rest have their types.
LEMMA RestTyped ==
  /\ NoOpts \in Options /\ NoReply \in [inline : SUBSET Chunks, refs : SUBSET Chunks]
  /\ AtRest \in [Workers -> [at : Ats, hash : Chunks \cup {NoHash}]]
  /\ \A w \in Workers : AtRest[w].at = "done"
  /\ Closed \in [open : BOOLEAN, known : SUBSET Chunks] /\ <<>> \in Seq(Chunks)
  BY DEF NoOpts, Options, NoReply, AtRest, Ats, Closed

-----------------------------------------------------------------------------
(* A fetch ends.                                                           *)

\* A client at rest satisfies the invariant.
LEMMA Resting ==
  ASSUME Rest, kind' \in Kinds, pub' \in Versions, out' \in [Files -> SUBSET Chunks],
         cache' \in [Chunks -> {"none", "good", "bad"}], Rotten', met' \subseteq Reasons,
         FailsForAReason'
  PROVE  Inv'
<1>1. /\ pc' = "idle" /\ opts' = NoOpts /\ man' = 0 /\ seg' = 0 /\ reply' = NoReply /\ mref' = {}
      /\ hashes' = <<>> /\ next' = 0 /\ failed' = FALSE /\ wk' = AtRest
      /\ file' = 0 /\ staged' = {} /\ sess' = Closed
  BY DEF Rest
<1>2. Types'
  BY <1>1, RestTyped DEF Types
<1>3. Boot' /\ Built' /\ Republished' /\ Session' /\ Stream' /\ Route' /\ Arrived'
  BY <1>1 DEF Boot, Built, Republished, Session, Stream, Route, Arrived
<1>4. Pool'
  BY <1>1, RestTyped DEF Pool, Busy
<1>5. QED
  BY <1>2, <1>3, <1>4 DEF Inv

\* An error that has an excuse.
LEMMA Failing ==
  ASSUME Inv, Fails, UNCHANGED <<kind, pub, out>>,
         cache' \in [Chunks -> {"none", "good", "bad"}],
         \A c \in Chunks : cache'[c] = "bad" => cache[c] = "bad",
         met \subseteq met', met' \subseteq Reasons,
         met' \cap ({"network", "read", "republished", "session", "sweep", "disk"}
                     \cup IF kind = "media" THEN {"rot"} ELSE {}) # {}
  PROVE  Inv'
<1>1. Rest /\ kind' \in Kinds /\ pub' \in Versions /\ out' \in [Files -> SUBSET Chunks]
  BY DEF Fails, Inv, Types
<1>2. Rotten'
  BY DEF Inv, Rotten
<1>3. FailsForAReason'
  BY DEF FailsForAReason
<1>4. QED
  BY <1>1, <1>2, <1>3, Resting

\* A fetch that returns.
LEMMA Returning ==
  ASSUME Inv, Returns, UNCHANGED <<kind, pub, met>>, out' \in [Files -> SUBSET Chunks],
         cache' \in [Chunks -> {"none", "good", "bad"}],
         \A c \in Chunks : cache'[c] = "bad" => cache[c] = "bad"
  PROVE  Inv'
<1>1. Rest /\ kind' \in Kinds /\ pub' \in Versions /\ met' \subseteq Reasons /\ res' = "ok"
  BY DEF Returns, Inv, Types
<1>2. Rotten'
  BY DEF Inv, Rotten
<1>3. FailsForAReason'
  BY <1>1 DEF FailsForAReason
<1>4. QED
  BY <1>1, <1>2, <1>3, Resting

\* A step of the fetch that is neither its end nor the pool's.
LEMMA Going ==
  ASSUME Inv, pc \notin {"pool", "idle", "open"}, pc' \notin {"pool", "idle", "open"},
         UNCHANGED <<pub, hashes, next, failed, wk, met>>,
         sess' = sess \/ (sess'.open = sess.open /\ sess' \in [open : BOOLEAN, known : SUBSET Chunks]),
         Holds, \A c \in Chunks : cache'[c] = "bad" => cache[c] = "bad",
         pc' \in {"boot", "download", "seed", "mark", "batch", "reply"} =>
            pc \in {"boot", "download", "seed", "mark", "batch", "reply"},
         out' \in [Files -> SUBSET Chunks], seg' \in Nat, file' \in Nat, mref' \subseteq Chunks,
         reply' \in [inline : SUBSET Chunks, refs : SUBSET Chunks],
         Boot', Built', Stream', Route', Arrived'
  PROVE  Inv'
<1>1. Types /\ Republished /\ Session /\ Rotten /\ Pool
  BY DEF Inv
<1>2. UNCHANGED <<kind, opts, man>> /\ cache' \in [Chunks -> {"none", "good", "bad"}]
  BY DEF Holds
<1>3. Types'
  BY <1>1, <1>2 DEF Types
<1>4. Republished' /\ Rotten'
  BY <1>1, <1>2 DEF Republished, Rotten
<1>5. Session'
  BY <1>1, <1>2 DEF Session, use_parallel, is_container
<1>6. Pool'
  BY <1>1, <1>2 DEF Pool, Busy
<1>7. FailsForAReason'
  BY DEF FailsForAReason
<1>8. QED
  BY <1>3, <1>4, <1>5, <1>6, <1>7 DEF Inv

-----------------------------------------------------------------------------
(* The beginning: the manifest, the session, the bootstrap.                *)

\* The invariant is kept when a fetch begins.
LEMMA FetchKeeps ==
  ASSUME Inv, NEW o \in Options, NEW resume, fetch(o, resume)
  PROVE  Inv'
<1>1. Types /\ Built /\ Stream /\ Pool /\ pc = "idle" /\ UNCHANGED <<kind, pub, cache>>
  BY DEF Inv, fetch
<1>2. Rotten' /\ met' \subseteq Reasons
  BY <1>1 DEF fetch, Rotten, Types, Reasons
<1>3. CASE Returns
  <2>1. out' \in [Files -> SUBSET Chunks]
    <3>1. CASE UNCHANGED out
      BY <1>1, <3>1 DEF Types
    <3>2. CASE out' = [i \in Files |-> IF i \in FilesOf(pub) THEN Segments[pub][i] ELSE out[i]]
      <4>1. \A i \in FilesOf(pub) : Segments[pub][i] \subseteq Chunks
        BY <1>1, SegmentsTyped DEF Types
      <4>2. QED
        BY <1>1, <3>2, <4>1 DEF Types
    <3>3. QED
      BY <3>1, <3>2 DEF fetch
  <2>2. FailsForAReason'
    BY <1>3 DEF Returns, FailsForAReason
  <2>3. QED
    BY <1>1, <1>2, <1>3, <2>1, <2>2, Resting DEF Returns, Types
<1>4. CASE opts' = o /\ man' = pub /\ pc' = "open" /\ UNCHANGED <<sess, out, stream, pool, build>>
  <2>1. UNCHANGED <<sess, out, seg, tries, reply, mref, hashes, next, failed, wk, file, staged>>
    BY <1>4 DEF stream, pool, build
  <2>2. Types'
    BY <1>1, <1>2, <1>4, <2>1 DEF Types
  <2>3. Boot' /\ Built' /\ Republished' /\ Session' /\ Stream' /\ Route' /\ Arrived' /\ FailsForAReason'
    BY <1>1, <1>4, <2>1
    DEF Boot, Built, Republished, Session, Stream, Route, Arrived, FailsForAReason
  <2>4. Pool'
    <3>1. failed = FALSE
      BY <1>1 DEF Pool
    <3>2. QED
      BY <1>1, <1>4, <2>1, <3>1 DEF Pool, Busy
  <2>5. QED
    BY <1>2, <2>2, <2>3, <2>4 DEF Inv
<1>5. QED
  BY <1>3, <1>4 DEF fetch, Goto

\* The invariant is kept when it opens a session.
LEMMA OpenSessionKeeps ==
  ASSUME Inv, NEW extra, NEW bootstrap \in BOOLEAN, open_session(extra, bootstrap)
  PROVE  Inv'
<1>1. Types /\ Built /\ Stream /\ Pool /\ Republished /\ Rotten
  BY DEF Inv
<1>2. /\ pc = "open" /\ sess'.open = TRUE /\ pc' \in {"boot", "mark"} /\ (pc' = "boot" => man \in Single)
      /\ UNCHANGED <<kind, pub, cache, out, opts, man, seg, reply, mref, hashes, next, failed, wk,
                     file, staged, met>>
  BY DEF open_session, disk, stream, pool, build, Goto
<1>3. Types'
  <2>1. sess' \in [open : BOOLEAN, known : SUBSET Chunks]
    <3>1. ChunksOf(pub) \subseteq Chunks
      BY <1>1, SegmentsTyped DEF Types
    <3>2. QED
      BY <3>1 DEF open_session
  <2>2. QED
    BY <1>1, <1>2, <2>1 DEF Types
<1>4. Boot' /\ Built' /\ Republished' /\ Session' /\ Stream' /\ Route' /\ Arrived' /\ FailsForAReason'
  BY <1>1, <1>2
  DEF Boot, Built, Republished, Session, Stream, Route, Arrived, FailsForAReason
<1>5. Pool' /\ Rotten'
  BY <1>1, <1>2 DEF Pool, Busy, Rotten
<1>6. QED
  BY <1>3, <1>4, <1>5 DEF Inv

\* The invariant is kept when it installs a bootstrap archive, or is cut
\* inside it.
LEMMA BootstrapKeeps ==
  ASSUME Inv, fetch_bootstrap \/ download_half \/ download_cut \/ install_bootstrap \/ mark_journal
  PROVE  Inv'
<1>1. Types /\ Boot /\ Built /\ Stream
  BY DEF Inv
<1>2. /\ pc \in {"boot", "download", "mark"}
      /\ pc' \in {"download", "mark", "seed", "spawn", "batch"}
      /\ UNCHANGED <<kind, pub, sess, cache, opts, man, seg, reply, mref, hashes, next, failed, wk,
                     file, staged, met>>
  BY DEF fetch_bootstrap, download_half, download_cut, install_bootstrap, mark_journal,
         origin, disk, request, stream, pool, build, Goto
<1>3. /\ pc' \in {"download", "seed"} => pc \in {"boot", "download"}
      /\ pc' = "spawn" => use_parallel /\ pc = "mark"
      /\ pc' = "batch" => ~use_parallel /\ pc = "mark"
  BY DEF fetch_bootstrap, download_half, download_cut, install_bootstrap, mark_journal, Goto
<1>4. use_parallel' = use_parallel
  BY <1>2 DEF use_parallel, is_container
<1>5. UNCHANGED out \/ (man \in Single /\ out' = [out EXCEPT ![1] = Segments[man][1]])
  BY <1>1 DEF fetch_bootstrap, download_half, download_cut, install_bootstrap, mark_journal, disk,
              finish_matches, Boot
<1>6. pc' = "seed" => out' = [out EXCEPT ![1] = Segments[man][1]] /\ man \in Single
  BY <1>1 DEF fetch_bootstrap, download_half, download_cut, install_bootstrap, mark_journal, Goto,
              finish_matches, Boot
<1>7. man \in Single => 1 \in Files /\ Segments[man][1] \subseteq Chunks
  <2> SUFFICES ASSUME man \in Single
               PROVE  1 \in Files /\ Segments[man][1] \subseteq Chunks
    OBVIOUS
  <2>1. man \in Versions /\ Len(Segments[man]) = 1
    BY DEF Single
  <2>2. 1 \in FilesOf(man)
    BY <2>1 DEF FilesOf
  <2>3. QED
    BY <2>1, <2>2, SegmentsTyped
<1>8. out' \in [Files -> SUBSET Chunks]
  BY <1>1, <1>5, <1>7 DEF Types
<1>9. Boot'
  <2>1. pc' = "seed" => out'[1] = Segments[man][1]
    BY <1>1, <1>6, <1>7 DEF Types
  <2>2. QED
    BY <1>1, <1>2, <1>3, <2>1 DEF Boot
<1>10. Holds
  BY <1>1, <1>2 DEF Holds, Types
<1>11. Built'
  BY <1>1, <1>2 DEF Built
<1>12. Stream'
  <2>1. seg' = 0 /\ mref' = {}
    BY <1>1, <1>2 DEF Stream
  <2>2. man \in Versions /\ Len(Segments[man]) \in Nat
    BY <1>1, <1>2, SegmentsTyped DEF Types
  <2>3. QED
    BY <1>2, <1>3, <1>4, <2>1, <2>2 DEF Stream
<1>13. Route' /\ Arrived'
  BY <1>2, <1>3, <1>4 DEF Route, Arrived
<1>14. /\ seg' \in Nat /\ file' \in Nat /\ mref' \subseteq Chunks
       /\ reply' \in [inline : SUBSET Chunks, refs : SUBSET Chunks]
  BY <1>1, <1>2 DEF Types
<1>15. QED
  BY <1>2, <1>8, <1>9, <1>10, <1>11, <1>12, <1>13, <1>14, Going

\* And when a put of its seed is swept.
LEMMA SeedSweptKeeps ==
  ASSUME Inv, NEW S, seed_swept(S)
  PROVE  Inv'
<1>1. Types /\ Boot /\ Built /\ Stream
  BY DEF Inv
<1>2. /\ pc = "seed" /\ pc' = "mark" /\ cache' = put(S)
      /\ UNCHANGED <<kind, pub, sess, out, opts, man, seg, reply, mref, hashes, next, failed, wk,
                     file, staged, met>>
  BY DEF seed_swept, origin, request, stream, pool, build, Goto
<1>3. /\ cache' \in [Chunks -> {"none", "good", "bad"}]
      /\ \A d \in Chunks : /\ cache'[d] = "bad" => cache[d] = "bad"
                           /\ cache[d] # "none" => cache'[d] # "none"
  BY <1>1, <1>2, PutTyped DEF Types
<1>4. Holds
  BY <1>2, <1>3 DEF Holds
<1>5. Boot' /\ Built' /\ Stream' /\ Route' /\ Arrived'
  BY <1>1, <1>2 DEF Boot, Built, Stream, Route, Arrived
<1>6. /\ out' \in [Files -> SUBSET Chunks] /\ seg' \in Nat /\ file' \in Nat /\ mref' \subseteq Chunks
      /\ reply' \in [inline : SUBSET Chunks, refs : SUBSET Chunks]
  BY <1>1, <1>2 DEF Types
<1>7. QED
  BY <1>2, <1>3, <1>4, <1>5, <1>6, Going

\* The invariant is kept when a seed ends.
LEMMA SeedKeeps ==
  ASSUME Inv, seed_cache
  PROVE  Inv'
<1>1. cache \in [Chunks -> {"none", "good", "bad"}] /\ out \in [Files -> SUBSET Chunks]
  BY DEF Inv, Types
<1>2. Returns /\ UNCHANGED <<kind, pub, out, met>> /\ cache' = put(ChunksOf(man))
  BY DEF seed_cache
<1>3. QED
  BY <1>1, <1>2, PutTyped, Returning

-----------------------------------------------------------------------------
(* The session's segments.                                                 *)

\* The invariant is kept when a batch is posted.
LEMMA PostBatchKeeps ==
  ASSUME Inv, post_batch
  PROVE  Inv'
<1>1. Types /\ Built /\ Stream /\ Republished
  BY DEF Inv
<1>2. /\ pc = "batch" /\ pc' = "reply" /\ seg < Len(Segments[man]) /\ seg + 1 <= Len(Segments[pub])
      /\ reply' = plan_chunks(Segments[pub][seg + 1])
      /\ sess' = [sess EXCEPT !.known = @ \cup Segments[pub][seg + 1]]
      /\ UNCHANGED <<kind, pub, cache, out, opts, man, seg, mref, hashes, next, failed, wk,
                     file, staged, met>>
  BY DEF post_batch, CanPlan, Asked, disk, request, pool, build, Goto
<1>3. seg \in Nat /\ man \in Versions /\ pub \in Versions
  BY <1>1, <1>2 DEF Types
<1>4. Len(Segments[pub]) \in Nat /\ Len(Segments[man]) \in Nat
  BY <1>3, SegmentsTyped
<1>5. seg + 1 \in FilesOf(pub)
  BY <1>2, <1>3, <1>4 DEF FilesOf
<1>6. Segments[pub][seg + 1] \subseteq Chunks
  BY <1>3, <1>5, SegmentsTyped
<1>7. /\ reply'.inline \cup reply'.refs = Segments[pub][seg + 1]
      /\ reply' \in [inline : SUBSET Chunks, refs : SUBSET Chunks]
  BY <1>2, <1>6 DEF plan_chunks
<1>8. Holds
  BY <1>1, <1>2 DEF Holds, Types
<1>9. have' = have /\ use_parallel' = use_parallel
  BY <1>2 DEF have, contains, prev_index, is_container, use_parallel
<1>10. Stream'
  <2>1. "republished" \notin met => pub = man
    BY <1>1, <1>2 DEF Republished
  <2>2. QED
    BY <1>1, <1>2, <1>7, <1>9, <2>1 DEF Stream
<1>11. Boot' /\ Built' /\ Route' /\ Arrived'
  BY <1>1, <1>2 DEF Boot, Built, Route, Arrived
<1>12. /\ out' \in [Files -> SUBSET Chunks] /\ seg' \in Nat /\ file' \in Nat /\ mref' \subseteq Chunks
  BY <1>1, <1>2 DEF Types
<1>13. sess'.open = sess.open /\ sess' \in [open : BOOLEAN, known : SUBSET Chunks]
  BY <1>1, <1>2, <1>6 DEF Types
<1>14. QED
  BY <1>13, <1>2, <1>7, <1>8, <1>10, <1>11, <1>12, Going

\* The invariant is kept when the server refuses a batch.
LEMMA BatchRefusedKeeps ==
  ASSUME Inv, batch_refused
  PROVE  Inv'
<1>1. Types /\ Republished /\ Session /\ Stream
  BY DEF Inv
<1>2. /\ pc = "batch" /\ seg < Len(Segments[man]) /\ Fails /\ UNCHANGED <<kind, pub, cache, out>>
  BY DEF batch_refused, disk
<1>3. CASE met' = met \cup {"read"}
  BY <1>1, <1>2, <1>3, Failing DEF Types, Reasons
<1>4. CASE ~CanPlan /\ met' = met
  <2>1. CASE ~sess.open
    <3>1. "session" \in met
      BY <1>1, <1>2, <2>1 DEF Stream, Session
    <3>2. QED
      BY <1>1, <1>2, <1>4, <3>1, Failing DEF Types
  <2>2. CASE ~(seg + 1 <= Len(Segments[pub]))
    <3>1. seg \in Nat /\ man \in Versions /\ Len(Segments[man]) \in Nat
      BY <1>1, <1>2, SegmentsTyped DEF Types
    <3>2. pub # man
      BY <1>2, <2>2, <3>1
    <3>3. "republished" \in met
      BY <1>1, <1>2, <3>2 DEF Republished
    <3>4. QED
      BY <1>1, <1>2, <1>4, <3>3, Failing DEF Types
  <2>3. QED
    BY <1>4, <2>1, <2>2 DEF CanPlan, Asked
<1>5. QED
  BY <1>3, <1>4 DEF batch_refused, Excuse

\* The invariant is kept when a reply arrives.
LEMMA ReceiveKeeps ==
  ASSUME Inv, receive_batch
  PROVE  Inv'
<1>1. Types /\ Built /\ Stream
  BY DEF Inv
<1>2. /\ pc = "reply" /\ pc' = "batch" /\ cache' = put(reply.inline) /\ seg' = seg + 1 /\ reply' = NoReply
      /\ mref' = mref \cup {c \in reply.refs \ reply.inline : ~contains(c) /\ c \notin prev_index}
      /\ UNCHANGED <<kind, pub, sess, out, opts, man, hashes, next, failed, wk, file, staged, met>>
  BY DEF receive_batch, Asked, origin, request, pool, build, Goto
<1>3. /\ cache' \in [Chunks -> {"none", "good", "bad"}]
      /\ \A c \in Chunks : /\ cache'[c] = "bad" => cache[c] = "bad"
                           /\ cache[c] # "none" => cache'[c] # "none"
                           /\ c \in reply.inline => cache'[c] # "none"
  BY <1>1, <1>2, PutTyped DEF Types
<1>4. Holds
  BY <1>2, <1>3 DEF Holds
<1>5. have \subseteq have' /\ prev_index' = prev_index /\ use_parallel' = use_parallel
  BY <1>1, <1>2, <1>4, HaveGrows
<1>6. reply.inline \subseteq Chunks /\ reply.refs \subseteq Chunks /\ man \in Versions /\ seg \in Nat
  BY <1>1, <1>2 DEF Types
<1>7. /\ ~use_parallel /\ seg < Len(Segments[man])
      /\ "republished" \notin met => mref \subseteq ChunksOf(man)
      /\ "republished" \notin met => reply.inline \cup reply.refs = Segments[man][seg + 1]
      /\ met = {} => \A i \in 1..seg : Segments[man][i] \subseteq have \cup mref
  BY <1>1, <1>2 DEF Stream
<1>8. /\ Len(Segments[man]) \in Nat /\ seg + 1 \in FilesOf(man)
      /\ Segments[man][seg + 1] \subseteq ChunksOf(man) /\ ChunksOf(man) \subseteq Chunks
  <2>1. Len(Segments[man]) \in Nat
    BY <1>6, SegmentsTyped
  <2>2. seg + 1 \in FilesOf(man)
    BY <1>6, <1>7, <2>1 DEF FilesOf
  <2>3. QED
    BY <1>6, <2>1, <2>2, SegmentsTyped
<1>9. "republished" \notin met => mref' \subseteq ChunksOf(man)
  BY <1>2, <1>7, <1>8
<1>10. ASSUME met = {}, NEW i \in 1..(seg + 1)
       PROVE  Segments[man][i] \subseteq have' \cup mref'
  <2>1. CASE i \in 1..seg
    BY <1>2, <1>5, <1>7, <1>10, <2>1
  <2>2. CASE i = seg + 1
    <3> SUFFICES ASSUME NEW c \in Segments[man][seg + 1]
                 PROVE  c \in have' \cup mref'
      BY <2>2
    <3>1. c \in reply.inline \cup reply.refs /\ c \in ChunksOf(man) /\ c \in Chunks
      BY <1>7, <1>8, <1>10
    <3>2. CASE c \in reply.inline
      <4>1. cache'[c] # "none"
        BY <1>3, <3>1, <3>2
      <4>2. QED
        BY <1>2, <3>1, <4>1 DEF have, contains
    <3>3. CASE c \notin reply.inline
      <4>1. contains(c) \/ c \in prev_index \/ c \in mref'
        BY <1>2, <3>1, <3>3
      <4>2. c \in have \/ c \in mref'
        BY <3>1, <4>1 DEF have
      <4>3. QED
        BY <1>5, <4>2
    <3>4. QED
      BY <3>2, <3>3
  <2>3. QED
    BY <1>6, <2>1, <2>2
<1>11. Stream'
  <2>1. seg' <= Len(Segments[man'])
    BY <1>2, <1>6, <1>7, <1>8
  <2>2. QED
    BY <1>2, <1>5, <1>7, <1>9, <1>10, <2>1 DEF Stream
<1>12. Boot' /\ Built' /\ Route' /\ Arrived'
  BY <1>1, <1>2 DEF Boot, Built, Route, Arrived
<1>13. /\ out' \in [Files -> SUBSET Chunks] /\ seg' \in Nat /\ file' \in Nat /\ mref' \subseteq Chunks
       /\ reply' \in [inline : SUBSET Chunks, refs : SUBSET Chunks]
  BY <1>1, <1>2, <1>6, RestTyped DEF Types
<1>14. QED
  BY <1>2, <1>3, <1>4, <1>11, <1>12, <1>13, Going

\* The invariant is kept when a reply is lost.
LEMMA LoseReplyKeeps ==
  ASSUME Inv, lose_reply
  PROVE  Inv'
<1>1. Types /\ Built /\ Stream
  BY DEF Inv
<1>2. CASE Fails /\ met' = met \cup {"network"}
  BY <1>1, <1>2, Failing DEF lose_reply, disk, Types, Reasons
<1>3. CASE pc' = "batch" /\ reply' = NoReply /\ UNCHANGED <<sess, request, seg, mref, pool, build, met>>
  <2>1. /\ pc = "reply"
        /\ UNCHANGED <<kind, pub, sess, cache, out, opts, man, seg, mref, hashes, next, failed, wk,
                       file, staged, met>>
    BY <1>3 DEF lose_reply, disk, request, pool, build
  <2>2. Holds
    BY <1>1, <2>1 DEF Holds, Types
  <2>3. have' = have /\ use_parallel' = use_parallel
    BY <2>1 DEF have, contains, prev_index, is_container, use_parallel
  <2>4. Stream'
    BY <1>1, <1>3, <2>1, <2>3 DEF Stream
  <2>5. Boot' /\ Built' /\ Route' /\ Arrived'
    BY <1>1, <1>3, <2>1 DEF Boot, Built, Route, Arrived
  <2>6. /\ out' \in [Files -> SUBSET Chunks] /\ seg' \in Nat /\ file' \in Nat /\ mref' \subseteq Chunks
        /\ reply' \in [inline : SUBSET Chunks, refs : SUBSET Chunks]
    BY <1>1, <1>3, <2>1, RestTyped DEF Types
  <2>7. QED
    BY <1>3, <2>1, <2>2, <2>4, <2>5, <2>6, Going
<1>4. QED
  BY <1>2, <1>3 DEF lose_reply, Excuse, Goto

\* The invariant is kept when a reply is cut.
LEMMA CutReplyKeeps ==
  ASSUME Inv, NEW S, cut_reply(S)
  PROVE  Inv'
<1>1. /\ Types /\ Fails /\ UNCHANGED <<kind, pub, out>> /\ cache' = put(S)
      /\ met' = met \cup {"network"} \/ met' = met \cup {"sweep"}
  BY DEF Inv, cut_reply, Excuse
<1>2. QED
  BY <1>1, PutTyped, Failing DEF Types, Reasons

\* The invariant is kept when a reference is repaired.
LEMMA RepairKeeps ==
  ASSUME Inv, NEW c \in Chunks, repair_ref(c)
  PROVE  Inv'
<1>1. Types /\ Built /\ Stream /\ Republished
  BY DEF Inv
<1>2. pc = "batch" /\ c \in mref /\ UNCHANGED <<kind, pub, out>>
  BY DEF repair_ref
<1>3. CASE /\ served(c) /\ cache' = put({c}) /\ mref' = mref \ {c}
           /\ UNCHANGED <<sess, pc, request, seg, tries, reply, pool, build, res, met, faults>>
  <2>1. UNCHANGED <<kind, pub, sess, out, pc, opts, man, seg, reply, hashes, next, failed, wk,
                    file, staged, met>>
    BY <1>2, <1>3 DEF request, pool, build
  <2>2. /\ cache' \in [Chunks -> {"none", "good", "bad"}]
        /\ \A d \in Chunks : /\ cache'[d] = "bad" => cache[d] = "bad"
                             /\ cache[d] # "none" => cache'[d] # "none"
                             /\ d \in {c} => cache'[d] # "none"
    BY <1>1, <1>3, PutTyped DEF Types
  <2>3. Holds
    BY <2>1, <2>2 DEF Holds
  <2>4. have \subseteq have' /\ prev_index' = prev_index /\ use_parallel' = use_parallel
    BY <1>1, <1>2, <2>3, HaveGrows
  <2>5. c \in ChunksOf(man) => c \in have'
    BY <2>1, <2>2 DEF have, contains
  <2>6. Stream'
    <3>1. man \in Versions /\ Len(Segments[man]) \in Nat
      BY <1>1, <1>2, SegmentsTyped DEF Types
    <3>2. ASSUME met = {}, NEW i \in 1..seg
          PROVE  Segments[man][i] \subseteq have' \cup mref'
      <4>1. seg \in Nat /\ seg <= Len(Segments[man]) /\ Segments[man][i] \subseteq have \cup mref
        BY <1>1, <1>2, <3>2 DEF Stream, Types
      <4>2. i \in FilesOf(man)
        BY <3>1, <4>1 DEF FilesOf
      <4>3. Segments[man][i] \subseteq ChunksOf(man)
        BY <3>1, <4>2, SegmentsTyped
      <4>4. QED
        BY <1>3, <2>4, <2>5, <4>1, <4>3
    <3>3. mref' \subseteq mref
      BY <1>3
    <3>4. QED
      BY <1>1, <1>2, <2>1, <2>4, <3>2, <3>3 DEF Stream
  <2>7. Boot' /\ Built' /\ Route' /\ Arrived'
    BY <1>1, <1>2, <2>1 DEF Boot, Built, Route, Arrived
  <2>8. /\ out' \in [Files -> SUBSET Chunks] /\ seg' \in Nat /\ file' \in Nat /\ mref' \subseteq Chunks
        /\ reply' \in [inline : SUBSET Chunks, refs : SUBSET Chunks]
    BY <1>1, <1>3, <2>1 DEF Types
  <2>9. QED
    BY <1>2, <2>1, <2>2, <2>3, <2>6, <2>7, <2>8, Going
<1>4. CASE ~served(c) /\ Fails /\ UNCHANGED <<cache, met, faults>>
  <2>1. "republished" \in met
    <3>1. CASE "republished" \notin met
      <4>1. c \in ChunksOf(man) /\ pub = man
        BY <1>1, <1>2, <3>1 DEF Stream, Republished
      <4>2. QED
        BY <1>4, <4>1 DEF served
    <3>2. QED
      BY <3>1
  <2>2. QED
    BY <1>1, <1>2, <1>4, <2>1, Failing DEF Types
<1>5. CASE (met' = met \cup {"network"} \/ met' = met \cup {"sweep"}) /\ Fails /\ UNCHANGED cache
  BY <1>1, <1>2, <1>5, Failing DEF Types, Reasons
<1>6. QED
  BY <1>3, <1>4, <1>5 DEF repair_ref, Excuse

\* The invariant is kept when every batch has been answered.
LEMMA BatchesDoneKeeps ==
  ASSUME Inv, batches_done
  PROVE  Inv'
<1>1. Types /\ Built /\ Stream
  BY DEF Inv
<1>2. /\ pc = "batch" /\ pc' = "rebuild" /\ seg = Len(Segments[man]) /\ mref = {}
      /\ UNCHANGED <<kind, pub, sess, cache, out, opts, man, seg, mref, reply, hashes, next, failed, wk,
                     file, staged, met>>
  BY DEF batches_done, origin, disk, request, stream, pool, build, Goto
<1>3. have' = have /\ use_parallel' = use_parallel
  BY <1>2 DEF have, contains, prev_index, is_container, use_parallel
<1>4. man \in Versions /\ Len(Segments[man]) \in Nat
  BY <1>1, <1>2, SegmentsTyped DEF Types
<1>5. Arrived'
  <2>1. ~use_parallel
    BY <1>1, <1>2 DEF Stream
  <2>2. ASSUME met = {}, NEW c \in ChunksOf(man)
        PROVE  c \in have
    <3>1. PICK i \in FilesOf(man) : c \in Segments[man][i]
      BY <1>4, SegmentsTyped
    <3>2. QED
      BY <1>1, <1>2, <2>2, <3>1 DEF Stream, FilesOf
  <2>3. QED
    BY <1>2, <1>3, <2>1, <2>2 DEF Arrived
<1>6. Built'
  BY <1>1, <1>2, <1>4 DEF Built
<1>7. Boot' /\ Stream' /\ Route'
  BY <1>2 DEF Boot, Stream, Route
<1>8. Holds
  BY <1>1, <1>2 DEF Holds, Types
<1>9. /\ out' \in [Files -> SUBSET Chunks] /\ seg' \in Nat /\ file' \in Nat /\ mref' \subseteq Chunks
      /\ reply' \in [inline : SUBSET Chunks, refs : SUBSET Chunks]
  BY <1>1, <1>2 DEF Types
<1>10. QED
  BY <1>2, <1>5, <1>6, <1>7, <1>8, <1>9, Going

-----------------------------------------------------------------------------
(* The workers of a parallel download.                                     *)

\* A list without repetition, as long as a finite set is large, names all of it.
LEMMA ListsAll ==
  ASSUME NEW S, IsFiniteSet(S), NEW s \in [1..Cardinality(S) -> S], IsInjective(s)
  PROVE  \A c \in S : \E k \in 1..Cardinality(S) : s[k] = c
<1>1. Cardinality(S) \in Nat
  BY FS_CardinalityType
<1>2. IsFiniteSet(1..Cardinality(S)) /\ Cardinality(1..Cardinality(S)) = Cardinality(S)
  <2>1. 1 \in Int /\ Cardinality(S) \in Int
    BY <1>1
  <2>2. Cardinality(1..Cardinality(S)) = IF 1 > Cardinality(S) THEN 0 ELSE Cardinality(S) - 1 + 1
    BY <2>1, FS_Interval
  <2>3. QED
    BY <1>1, <2>1, <2>2, FS_Interval
<1>3. s \in Injection(1..Cardinality(S), S)
  BY DEF Injection
<1>4. s \in Surjection(1..Cardinality(S), S)
  BY <1>2, <1>3, FS_Injection
<1>5. QED
  BY <1>4 DEF Surjection

\* The invariant is kept when the parallel workers are spawned.
LEMMA SpawnKeeps ==
  ASSUME Inv, NEW s, spawn(s)
  PROVE  Inv'
<1>1. Types /\ Built /\ Republished /\ Rotten /\ Pool /\ Route
  BY DEF Inv
<1>2. /\ pc = "spawn" /\ pc' = "pool" /\ s \in [1..Cardinality(missing) -> missing] /\ IsInjective(s)
      /\ hashes' = s /\ next' = 1 /\ failed' = FALSE
      /\ wk' = [w \in Workers |-> [at |-> IF s = <<>> THEN "done" ELSE "top", hash |-> NoHash]]
      /\ UNCHANGED <<kind, pub, sess, cache, out, opts, man, seg, mref, reply, file, staged, met>>
  BY DEF spawn, origin, disk, request, stream, build, Goto
<1>3. /\ man \in Versions /\ missing \subseteq ChunksOf(man) /\ ChunksOf(man) \subseteq Chunks
      /\ IsFiniteSet(missing) /\ Cardinality(missing) \in Nat
  <2>1. man \in Versions /\ missing \subseteq ChunksOf(man)
    BY <1>1, <1>2 DEF Types, missing
  <2>2. QED
    BY <2>1, SegmentsTyped, FS_Subset, FS_CardinalityType
<1>4. s \in Seq(missing) /\ s \in Seq(Chunks) /\ Len(s) = Cardinality(missing)
      /\ DOMAIN s = 1..Cardinality(missing)
  BY <1>2, <1>3
<1>5. have' = have /\ use_parallel' = use_parallel
  BY <1>2 DEF have, contains, prev_index, is_container, use_parallel
<1>6. Types'
  <2>1. wk' \in [Workers -> [at : Ats, hash : Chunks \cup {NoHash}]]
    BY <1>2 DEF Ats
  <2>2. QED
    BY <1>1, <1>2, <1>4, <2>1 DEF Types
<1>7. Boot' /\ Built' /\ Republished' /\ Session' /\ Stream' /\ Rotten' /\ Route' /\ Arrived' /\ FailsForAReason'
  BY <1>1, <1>2
  DEF Boot, Built, Republished, Session, Stream, Rotten, Route, Arrived, FailsForAReason
<1>8. Pool'
  <2>1. \A w \in Workers : /\ wk'[w].at \in {"done", "top"} /\ wk'[w].at \notin Busy
                           /\ wk'[w].at = "done" => next' > Len(hashes')
    <3>1. s = <<>> => Len(s) = 0
      OBVIOUS
    <3>2. QED
      BY <1>2, <3>1 DEF Busy
  <2>2. use_parallel' /\ next' > 0
    BY <1>1, <1>2, <1>5 DEF Route
  <2>3. \A k \in DOMAIN hashes' : hashes'[k] \in ChunksOf(man')
    BY <1>2, <1>3, <1>4
  <2>4. ASSUME NEW c \in ChunksOf(man')
        PROVE  c \in have' \/ \E k \in DOMAIN hashes' : k >= next' /\ hashes'[k] = c
    <3>1. CASE c \in have
      BY <1>5, <3>1
    <3>2. CASE c \notin have
      <4>1. c \in missing
        BY <1>2, <3>2 DEF missing
      <4>2. PICK k \in 1..Cardinality(missing) : s[k] = c
        BY <1>2, <1>3, <4>1, ListsAll
      <4>3. k >= 1
        BY <1>3
      <4>4. QED
        BY <1>2, <1>4, <4>2, <4>3
    <3>3. QED
      BY <3>1, <3>2
  <2>5. QED
    BY <1>2, <2>1, <2>2, <2>3, <2>4 DEF Pool
<1>9. QED
  BY <1>6, <1>7, <1>8 DEF Inv

\* What a step of a worker leaves alone; met only grows.
Working ==
    /\ UNCHANGED <<kind, pub, sess, out, pc, opts, man, seg, mref, reply, hashes, file, staged, res>>
    /\ met \subseteq met' /\ met' \subseteq Reasons

\* The invariant is kept by any step of the pool that keeps the pool's part of
\* it.
LEMMA WorkingKeeps ==
  ASSUME Inv, pc = "pool", Working, Holds, \A c \in Chunks : cache'[c] = "bad" => cache[c] = "bad",
         next' \in Nat, failed' \in BOOLEAN, wk' \in [Workers -> [at : Ats, hash : Chunks \cup {NoHash}]],
         Pool'
  PROVE  Inv'
<1>1. Types /\ Built /\ Republished /\ Rotten
  BY DEF Inv
<1>2. Types'
  BY <1>1 DEF Types, Working, Holds
<1>3. Rotten' /\ Republished' /\ Built'
  BY <1>1 DEF Rotten, Republished, Built, Working
<1>4. Boot' /\ Session' /\ Stream' /\ Route' /\ Arrived' /\ FailsForAReason'
  BY DEF Boot, Session, Stream, Route, Arrived, FailsForAReason, Working
<1>5. QED
  BY <1>2, <1>3, <1>4 DEF Inv

\* The invariant is kept by every step of a worker.
LEMMA WorkerKeeps ==
  ASSUME Inv, NEW w \in Workers, Worker(w)
  PROVE  Inv'
<1>1. Types /\ Pool /\ Republished
  BY DEF Inv
<1>2. wk[w].at \in {"top", "get", "put", "swept"}
  BY DEF Worker, take, fetch_one, put_one, fetch_one_fails, put_one_fails
<1>3. pc = "pool"
  BY <1>1, <1>2 DEF Pool
<1>4. /\ wk \in [Workers -> [at : Ats, hash : Chunks \cup {NoHash}]]
      /\ hashes \in Seq(Chunks) /\ Len(hashes) \in Nat /\ DOMAIN hashes = 1..Len(hashes)
      /\ next \in Nat /\ next > 0 /\ failed \in BOOLEAN /\ man \in Versions
      /\ cache \in [Chunks -> {"none", "good", "bad"}] /\ met \subseteq Reasons
  BY <1>1, <1>3 DEF Types, Pool
<1>5. ChunksOf(man) \subseteq Chunks
  BY <1>4, SegmentsTyped
<1>6. use_parallel /\ \A k \in DOMAIN hashes : hashes[k] \in ChunksOf(man)
  BY <1>1, <1>3 DEF Pool
<1>7. \A v \in Workers : /\ wk[v].at \in Busy => wk[v].hash \in ChunksOf(man)
                         /\ wk[v].at = "swept" => "sweep" \in met
                         /\ wk[v].at = "done" /\ ~failed => next > Len(hashes)
  BY <1>1, <1>3 DEF Pool
<1>8. failed => met \cap {"network", "republished", "sweep"} # {}
  BY <1>1 DEF Pool
<1>9. "rot" \notin met /\ ~failed => \A c \in ChunksOf(man) :
              \/ c \in have
              \/ \E k \in DOMAIN hashes : k >= next /\ hashes[k] = c
              \/ \E v \in Workers : wk[v].at \in Busy /\ wk[v].hash = c
  BY <1>1, <1>3 DEF Pool
<1>10. CASE take(w)
  <2>1. UNCHANGED <<cache, failed>> /\ Working /\ Holds
    BY <1>4, <1>10 DEF take, origin, disk, request, stream, build, Working, Holds
  <2>2. have' = have /\ use_parallel' = use_parallel
    BY <2>1 DEF have, contains, prev_index, is_container, use_parallel, Working
  <2>3. CASE failed
    <3>1. wk' = [wk EXCEPT ![w].at = "done"] /\ next' = next
      BY <1>10, <2>3 DEF take
    <3>2. \A v \in Workers : v # w => wk'[v] = wk[v]
      BY <1>4, <3>1
    <3>3. wk'[w].at = "done" /\ wk' \in [Workers -> [at : Ats, hash : Chunks \cup {NoHash}]]
      BY <1>4, <3>1 DEF Ats
    <3>4. Pool'
      BY <1>3, <1>4, <1>6, <1>7, <1>8, <2>1, <2>2, <2>3, <3>1, <3>2, <3>3 DEF Pool, Working, Busy
    <3>5. QED
      BY <1>3, <1>4, <2>1, <3>1, <3>3, <3>4, WorkingKeeps
  <2>4. CASE ~failed /\ next > Len(hashes)
    <3>1. wk' = [wk EXCEPT ![w] = [at |-> "done", hash |-> NoHash]] /\ next' = next + 1
      BY <1>10, <2>4 DEF take
    <3>2. \A v \in Workers : v # w => wk'[v] = wk[v]
      BY <1>4, <3>1
    <3>3. wk'[w].at = "done" /\ wk' \in [Workers -> [at : Ats, hash : Chunks \cup {NoHash}]]
      BY <1>4, <3>1 DEF Ats
    <3>4. wk[w].at = "top"
      BY <1>10 DEF take
    <3>5. next' \in Nat /\ next' > 0 /\ next' > Len(hashes)
      BY <1>4, <2>4, <3>1
    <3>6. ASSUME "rot" \notin met, NEW c \in ChunksOf(man)
          PROVE  c \in have \/ \E v \in Workers : wk'[v].at \in Busy /\ wk'[v].hash = c
      <4>1. ~\E k \in DOMAIN hashes : k >= next
        BY <1>4, <2>4
      <4>2. c \in have \/ \E v \in Workers : wk[v].at \in Busy /\ wk[v].hash = c
        BY <1>9, <2>4, <3>6, <4>1
      <4>3. QED
        BY <3>2, <3>4, <4>2 DEF Busy
    <3>7. Pool'
      <4>1. \A v \in Workers : /\ wk'[v].at \in Busy => wk'[v].hash \in ChunksOf(man)
                               /\ wk'[v].at = "swept" => "sweep" \in met'
        BY <1>7, <2>1, <3>2, <3>3 DEF Busy, Working
      <4>2. "rot" \notin met' => "rot" \notin met
        BY <2>1 DEF Working
      <4>3. QED
        BY <1>3, <1>6, <2>1, <2>2, <2>4, <3>5, <3>6, <4>1, <4>2 DEF Pool, Working
    <3>8. QED
      BY <1>3, <1>4, <2>1, <3>3, <3>5, <3>7, WorkingKeeps
  <2>5. CASE ~failed /\ ~(next > Len(hashes))
    <3>1. wk' = [wk EXCEPT ![w] = [at |-> "get", hash |-> hashes[next]]] /\ next' = next + 1
      BY <1>10, <2>5 DEF take
    <3>2. next \in DOMAIN hashes
      BY <1>4, <2>5
    <3>3. \A v \in Workers : v # w => wk'[v] = wk[v]
      BY <1>4, <3>1
    <3>4. /\ wk'[w].at = "get" /\ wk'[w].hash = hashes[next] /\ hashes[next] \in ChunksOf(man)
          /\ wk' \in [Workers -> [at : Ats, hash : Chunks \cup {NoHash}]]
      BY <1>4, <1>5, <1>6, <3>1, <3>2 DEF Ats
    <3>5. wk[w].at = "top"
      BY <1>10 DEF take
    <3>6. next' \in Nat /\ next' > 0
      BY <1>4, <3>1
    <3>7. ASSUME "rot" \notin met, NEW c \in ChunksOf(man)
          PROVE  \/ c \in have
                 \/ \E k \in DOMAIN hashes : k >= next' /\ hashes[k] = c
                 \/ \E v \in Workers : wk'[v].at \in Busy /\ wk'[v].hash = c
      <4>1. CASE c \in have
        BY <4>1
      <4>2. CASE \E v \in Workers : wk[v].at \in Busy /\ wk[v].hash = c
        BY <3>3, <3>5, <4>2 DEF Busy
      <4>3. CASE \E k \in DOMAIN hashes : k >= next /\ hashes[k] = c
        <5>1. PICK k \in DOMAIN hashes : k >= next /\ hashes[k] = c
          BY <4>3
        <5>2. CASE k = next
          BY <3>4, <5>1, <5>2 DEF Busy
        <5>3. CASE k # next
          <6>1. k >= next'
            BY <1>4, <3>1, <5>1, <5>3
          <6>2. QED
            BY <5>1, <6>1
        <5>4. QED
          BY <5>2, <5>3
      <4>4. QED
        BY <1>9, <2>5, <3>7, <4>1, <4>2, <4>3
    <3>8. Pool'
      <4>1. \A v \in Workers : /\ wk'[v].at \in Busy => wk'[v].hash \in ChunksOf(man)
                               /\ wk'[v].at = "swept" => "sweep" \in met'
        BY <1>7, <2>1, <3>3, <3>4 DEF Busy, Working
      <4>2. \A v \in Workers : wk'[v].at # "done"
        BY <1>4, <1>7, <2>5, <3>3, <3>4
      <4>3. "rot" \notin met' => "rot" \notin met
        BY <2>1 DEF Working
      <4>4. QED
        BY <1>3, <1>6, <2>1, <2>2, <2>5, <3>6, <3>7, <4>1, <4>2, <4>3 DEF Pool, Working
    <3>9. QED
      BY <1>3, <1>4, <2>1, <3>4, <3>6, <3>8, WorkingKeeps
  <2>6. QED
    BY <2>3, <2>4, <2>5
<1>11. CASE fetch_one(w)
  <2>1. UNCHANGED <<cache, failed, next>> /\ Working /\ Holds /\ wk' = [wk EXCEPT ![w].at = "put"]
    BY <1>4, <1>11 DEF fetch_one, origin, disk, request, stream, build, Working, Holds
  <2>2. have' = have /\ use_parallel' = use_parallel
    BY <2>1 DEF have, contains, prev_index, is_container, use_parallel, Working
  <2>3. wk[w].at = "get"
    BY <1>11 DEF fetch_one
  <2>4. /\ \A v \in Workers : v # w => wk'[v] = wk[v]
        /\ wk'[w].at = "put" /\ wk'[w].hash = wk[w].hash
        /\ wk' \in [Workers -> [at : Ats, hash : Chunks \cup {NoHash}]]
    BY <1>4, <2>1 DEF Ats
  <2>5. /\ \A v \in Workers : wk'[v].at \in Busy <=> wk[v].at \in Busy
        /\ \A v \in Workers : wk'[v].hash = wk[v].hash
        /\ \A v \in Workers : wk'[v].at = "swept" => wk[v].at = "swept"
        /\ \A v \in Workers : wk'[v].at = "done" => wk[v].at = "done"
    BY <2>3, <2>4 DEF Busy
  <2>6. Pool'
    BY <1>3, <1>4, <1>6, <1>7, <1>8, <1>9, <2>1, <2>2, <2>5 DEF Pool, Working
  <2>7. QED
    BY <1>3, <1>4, <2>1, <2>4, <2>6, WorkingKeeps
<1>12. CASE put_one(w)
  <2>1. /\ UNCHANGED <<failed, next, met>> /\ Working /\ cache' = put({wk[w].hash})
        /\ wk' = [wk EXCEPT ![w] = [at |-> "top", hash |-> NoHash]] /\ wk[w].at = "put"
    BY <1>4, <1>12 DEF put_one, origin, request, stream, build, Working
  <2>2. wk[w].hash \in ChunksOf(man)
    BY <1>7, <2>1 DEF Busy
  <2>3. /\ cache' \in [Chunks -> {"none", "good", "bad"}]
        /\ \A c \in Chunks : /\ cache'[c] = "bad" => cache[c] = "bad"
                             /\ cache[c] # "none" => cache'[c] # "none"
                             /\ c \in {wk[w].hash} => cache'[c] # "none"
    BY <1>4, <2>1, PutTyped
  <2>4. Holds
    BY <2>1, <2>3 DEF Holds, Working
  <2>5. have \subseteq have' /\ use_parallel' = use_parallel
    BY <1>1, <1>3, <2>4, HaveGrows
  <2>6. wk[w].hash \in have'
    BY <1>5, <2>1, <2>2, <2>3 DEF have, contains, Working
  <2>7. /\ \A v \in Workers : v # w => wk'[v] = wk[v]
        /\ wk'[w].at = "top" /\ wk' \in [Workers -> [at : Ats, hash : Chunks \cup {NoHash}]]
    BY <1>4, <2>1 DEF Ats
  <2>8. ASSUME "rot" \notin met, ~failed, NEW c \in ChunksOf(man)
        PROVE  \/ c \in have'
               \/ \E k \in DOMAIN hashes : k >= next /\ hashes[k] = c
               \/ \E v \in Workers : wk'[v].at \in Busy /\ wk'[v].hash = c
    BY <1>9, <2>5, <2>6, <2>7, <2>8
  <2>9. Pool'
    <3>1. \A v \in Workers : /\ wk'[v].at \in Busy => wk'[v].hash \in ChunksOf(man)
                             /\ wk'[v].at = "swept" => "sweep" \in met'
                             /\ wk'[v].at = "done" => wk[v].at = "done"
      BY <1>7, <2>1, <2>7 DEF Busy
    <3>2. QED
      BY <1>3, <1>4, <1>6, <1>7, <1>8, <2>1, <2>5, <2>8, <3>1 DEF Pool, Working
  <2>10. QED
    BY <1>3, <1>4, <2>1, <2>3, <2>4, <2>7, <2>9, WorkingKeeps
<1>13. CASE fetch_one_fails(w) \/ put_one_fails(w)
  <2>1. /\ UNCHANGED <<cache, next>> /\ failed' = TRUE
        /\ wk' = [wk EXCEPT ![w] = [at |-> "done", hash |-> NoHash]]
    BY <1>13 DEF fetch_one_fails, put_one_fails, record_error, disk
  <2>2. Working /\ met' \cap {"network", "republished", "sweep"} # {}
    <3>1. CASE put_one_fails(w)
      BY <1>4, <1>7, <3>1 DEF put_one_fails, origin, disk, request, stream, build, Working
    <3>2. CASE fetch_one_fails(w)
      <4>1. UNCHANGED <<kind, pub, sess, out, pc, opts, man, seg, mref, reply, hashes, file, staged, res>>
        BY <3>2 DEF fetch_one_fails, origin, disk, request, stream, build
      <4>2. wk[w].at = "get" /\ (met' = met \cup {"network"} \/ (~served(wk[w].hash) /\ met' = met))
        BY <3>2 DEF fetch_one_fails, Excuse
      <4>3. CASE met' = met \cup {"network"}
        BY <1>4, <4>1, <4>3 DEF Working, Reasons
      <4>4. CASE ~served(wk[w].hash) /\ met' = met
        <5>1. wk[w].hash \in ChunksOf(man)
          BY <1>7, <4>2 DEF Busy
        <5>2. pub # man
          BY <4>4, <5>1 DEF served
        <5>3. "republished" \in met
          BY <1>1, <1>3, <5>2 DEF Republished
        <5>4. QED
          BY <1>4, <4>1, <4>4, <5>3 DEF Working
      <4>5. QED
        BY <4>2, <4>3, <4>4
    <3>3. QED
      BY <1>13, <3>1, <3>2
  <2>3. Holds /\ use_parallel' = use_parallel
    BY <1>4, <2>1, <2>2 DEF Holds, Working, use_parallel, is_container
  <2>4. /\ \A v \in Workers : v # w => wk'[v] = wk[v]
        /\ wk'[w].at = "done" /\ wk' \in [Workers -> [at : Ats, hash : Chunks \cup {NoHash}]]
    BY <1>4, <2>1 DEF Ats
  <2>5. Pool'
    <3>1. \A v \in Workers : /\ wk'[v].at \in Busy => wk'[v].hash \in ChunksOf(man)
                             /\ wk'[v].at = "swept" => "sweep" \in met'
      BY <1>7, <2>2, <2>4 DEF Busy, Working
    <3>2. QED
      BY <1>3, <1>4, <1>6, <2>1, <2>2, <2>3, <3>1 DEF Pool, Working
  <2>6. QED
    BY <1>3, <1>4, <2>1, <2>2, <2>3, <2>4, <2>5, WorkingKeeps
<1>14. QED
  BY <1>10, <1>11, <1>12, <1>13 DEF Worker

\* The invariant is kept when the workers are joined.
LEMMA JoinKeeps ==
  ASSUME Inv, join
  PROVE  Inv'
<1>1. Types /\ Built /\ Pool
  BY DEF Inv
<1>2. /\ pc = "pool" /\ \A w \in Workers : wk[w].at = "done"
      /\ UNCHANGED <<kind, pub, cache, out, met>>
  BY DEF join, disk
<1>3. CASE failed /\ Fails
  BY <1>1, <1>2, <1>3, Failing DEF Types, Pool
<1>4. CASE ~failed /\ pc' = "rebuild" /\ UNCHANGED <<sess, request, stream, pool, build, res>>
  <2>1. UNCHANGED <<sess, opts, man, seg, mref, reply, hashes, next, failed, wk, file, staged>>
    BY <1>4 DEF request, stream, pool, build
  <2>2. have' = have /\ use_parallel' = use_parallel
    BY <1>2, <2>1 DEF have, contains, prev_index, is_container, use_parallel
  <2>3. man \in Versions /\ Len(Segments[man]) \in Nat
    BY <1>1, <1>2, SegmentsTyped DEF Types
  <2>4. Arrived'
    <3>1. PICK w \in Workers : TRUE
      BY DeliveryAssumption
    <3>2. next > Len(hashes)
      BY <1>1, <1>2, <1>4, <3>1 DEF Pool
    <3>3. ~\E k \in DOMAIN hashes : k >= next
      <4>1. Len(hashes) \in Nat /\ DOMAIN hashes = 1..Len(hashes) /\ next \in Nat
        BY <1>1 DEF Types
      <4>2. QED
        BY <3>2, <4>1
    <3>4. \A v \in Workers : wk[v].at \notin Busy
      BY <1>2 DEF Busy
    <3>5. "rot" \notin met => ChunksOf(man) \subseteq have
      BY <1>1, <1>2, <1>4, <3>3, <3>4 DEF Pool
    <3>6. QED
      BY <1>2, <2>1, <2>2, <3>5 DEF Arrived
  <2>5. Built'
    BY <1>1, <1>2, <1>4, <2>1, <2>3 DEF Built
  <2>6. Boot' /\ Stream' /\ Route' /\ Session' /\ FailsForAReason'
    BY <1>4 DEF Boot, Stream, Route, Session, FailsForAReason
  <2>7. Types' /\ Republished' /\ Rotten'
    BY <1>1, <1>2, <1>4, <2>1 DEF Inv, Types, Republished, Rotten
  <2>8. Pool'
    BY <1>1, <1>2, <1>4, <2>1 DEF Pool, Busy, Types
  <2>9. QED
    BY <2>4, <2>5, <2>6, <2>7, <2>8 DEF Inv
<1>5. QED
  BY <1>3, <1>4 DEF join, Goto

-----------------------------------------------------------------------------
(* Reconstruction.                                                         *)

\* A chunk is asked for again while its file is rebuilt.
LEMMA FallbackKeeps ==
  ASSUME Inv, NEW c \in Chunks, chunk_via_fallback(c)
  PROVE  Inv'
<1>1. Types /\ Built /\ Republished /\ Arrived
  BY DEF Inv
<1>2. /\ pc = "rebuild" /\ file + 1 \in FilesOf(man) /\ c \in Segments[man][file + 1]
      /\ UNCHANGED <<kind, pub, out>>
  BY DEF chunk_via_fallback, ToBuild, Building, unresolved, Target
<1>3. CASE /\ cache' = [get_heals(c) EXCEPT ![c] = "good"]
           /\ UNCHANGED <<sess, pc, request, stream, pool, build, res, met, faults>>
  <2>1. UNCHANGED <<kind, pub, sess, out, pc, opts, man, seg, mref, reply, hashes, next, failed, wk,
                    file, staged, met>>
    BY <1>2, <1>3 DEF request, stream, pool, build
  <2>2. /\ cache' \in [Chunks -> {"none", "good", "bad"}]
        /\ \A d \in Chunks : /\ cache'[d] = "bad" => cache[d] = "bad"
                             /\ cache[d] # "none" => cache'[d] # "none"
    BY <1>1, <1>3, HealsTyped DEF Types
  <2>3. Holds
    BY <2>1, <2>2 DEF Holds
  <2>4. have \subseteq have' /\ use_parallel' = use_parallel
    BY <1>1, <1>2, <2>3, HaveGrows
  <2>5. Boot' /\ Built' /\ Stream' /\ Route' /\ Arrived'
    BY <1>1, <1>2, <2>1, <2>4 DEF Boot, Built, Stream, Route, Arrived
  <2>6. /\ out' \in [Files -> SUBSET Chunks] /\ seg' \in Nat /\ file' \in Nat /\ mref' \subseteq Chunks
        /\ reply' \in [inline : SUBSET Chunks, refs : SUBSET Chunks]
    BY <1>1, <2>1 DEF Types
  <2>7. QED
    BY <1>2, <2>1, <2>2, <2>3, <2>5, <2>6, Going
<1>4. /\ get_heals(c) \in [Chunks -> {"none", "good", "bad"}]
      /\ \A d \in Chunks : get_heals(c)[d] = "bad" => cache[d] = "bad"
  BY <1>1, HealsTyped DEF Types
<1>5. CASE ~served(c) /\ cache' = get_heals(c) /\ Fails /\ met' = met
  <2>1. man \in Versions
    BY <1>1, <1>2 DEF Types
  <2>2. c \in ChunksOf(man)
    BY <1>2, <2>1, SegmentsTyped
  <2>3. pub # man
    BY <1>5, <2>2 DEF served
  <2>4. "republished" \in met
    BY <1>1, <1>2, <2>3 DEF Republished
  <2>5. QED
    BY <1>1, <1>2, <1>4, <1>5, <2>4, Failing DEF Types
<1>6. CASE (met' = met \cup {"network"} \/ met' = met \cup {"sweep"}) /\ Fails /\ cache' = get_heals(c)
  BY <1>1, <1>2, <1>4, <1>6, Failing DEF Types, Reasons
<1>7. QED
  BY <1>3, <1>5, <1>6 DEF chunk_via_fallback, Excuse

\* Media has no other source: a chunk that came and is not there was lost.
LEMMA MissingKeeps ==
  ASSUME Inv, NEW c \in Chunks, missing_after_fetch(c)
  PROVE  Inv'
<1>1. Types /\ Arrived /\ Rotten
  BY DEF Inv
<1>2. /\ pc = "rebuild" /\ file + 1 \in FilesOf(man) /\ c \in Segments[man][file + 1]
      /\ cache[c] # "good" /\ kind = "media" /\ Fails /\ cache' = get_heals(c)
      /\ UNCHANGED <<kind, pub, out, met>>
  BY DEF missing_after_fetch, ToBuild, Building, unresolved, Target
<1>3. c \in ChunksOf(man)
  <2>1. man \in Versions
    BY <1>1, <1>2 DEF Types
  <2>2. QED
    BY <1>2, <2>1, SegmentsTyped
<1>4. met # {}
  <2> SUFFICES ASSUME met = {}
               PROVE  FALSE
    OBVIOUS
  <2>1. c \in have
    BY <1>1, <1>2, <1>3 DEF Arrived
  <2>2. prev_index = {}
    BY <1>2 DEF prev_index, is_container
  <2>3. cache[c] # "none"
    BY <2>1, <2>2 DEF have, contains
  <2>4. cache[c] # "bad"
    BY <1>1 DEF Rotten
  <2>5. QED
    BY <1>1, <1>2, <2>3, <2>4 DEF Types
<1>5. /\ get_heals(c) \in [Chunks -> {"none", "good", "bad"}]
      /\ \A d \in Chunks : get_heals(c)[d] = "bad" => cache[d] = "bad"
  BY <1>1, HealsTyped DEF Types
<1>6. met \subseteq {"network", "read", "republished", "session", "sweep", "disk"} \cup {"rot"}
  BY <1>1 DEF Types, Reasons
<1>7. met' \cap ({"network", "read", "republished", "session", "sweep", "disk"}
                     \cup IF kind = "media" THEN {"rot"} ELSE {}) # {}
  BY <1>2, <1>4, <1>6
<1>8. met \subseteq met' /\ met' \subseteq Reasons
  BY <1>1, <1>2 DEF Types
<1>9. QED
  BY <1>2, <1>5, <1>7, <1>8, Failing

\* The invariant is kept when the files are staged.
LEMMA RebuildKeeps ==
  ASSUME Inv, write_file \/ skip_file \/ files_written
  PROVE  Inv'
<1>1. Types /\ Built /\ Arrived
  BY DEF Inv
<1>2. /\ pc = "rebuild"
      /\ UNCHANGED <<kind, pub, sess, cache, opts, man, seg, mref, reply, hashes, next, failed, wk, met>>
  BY DEF write_file, skip_file, files_written, ToBuild, origin, disk, request, stream, pool
<1>3. /\ man \in Versions /\ Len(Segments[man]) \in Nat /\ file \in Nat
      /\ out \in [Files -> SUBSET Chunks] /\ FilesOf(man) \subseteq Files
      /\ \A i \in FilesOf(man) : Segments[man][i] \subseteq Chunks
  BY <1>1, <1>2, SegmentsTyped DEF Types
<1>4. /\ file <= Len(Segments[man]) /\ staged \subseteq 1..file
      /\ \A i \in 1..file : i \in staged \/ out[i] = Segments[man][i]
  BY <1>1, <1>2 DEF Built
<1>5. have' = have /\ use_parallel' = use_parallel
  BY <1>2 DEF have, contains, prev_index, is_container, use_parallel
<1>6. /\ file' \in Nat /\ out' \in [Files -> SUBSET Chunks] /\ Built' /\ pc' \in {"rebuild", "commit"}
  <2>1. CASE files_written
    <3>1. /\ file + 1 \notin 1..Len(Segments[man]) /\ pc' = "commit" /\ UNCHANGED <<out, file, staged>>
      BY <2>1 DEF files_written, Building, FilesOf, disk, build, Goto
    <3>2. file = Len(Segments[man])
      BY <1>3, <1>4, <3>1
    <3>3. QED
      BY <1>2, <1>3, <1>4, <3>1, <3>2 DEF Built
  <2>2. CASE write_file \/ skip_file
    <3>1. /\ file + 1 \in FilesOf(man) /\ file' = file + 1 /\ pc' = pc
      BY <2>2 DEF write_file, skip_file, ToBuild, Building
    <3>2. \/ staged' = staged \cup {file + 1} /\ out' = out
          \/ staged' = staged /\ out' = [out EXCEPT ![file + 1] = Segments[man][file + 1]]
          \/ staged' = staged /\ out' = out /\ out[file + 1] = Segments[man][file + 1]
      BY <2>2 DEF write_file, skip_file, skipped, Building, Target, disk
    <3>3. file + 1 \in Files /\ Segments[man][file + 1] \subseteq Chunks
      BY <1>3, <3>1
    <3>4. out' \in [Files -> SUBSET Chunks]
      BY <1>3, <3>2, <3>3
    <3>5. file + 1 \in Nat /\ file + 1 <= Len(Segments[man])
      BY <1>3, <3>1 DEF FilesOf
    <3>6. \A i \in 1..(file + 1) : i \in 1..file \/ i = file + 1
      BY <1>3
    <3>7. 1..file \subseteq 1..(file + 1) /\ file + 1 \in 1..(file + 1) /\ file + 1 \notin 1..file
      BY <1>3
    <3>8. file + 1 \in staged' \/ out'[file + 1] = Segments[man][file + 1]
      BY <1>3, <3>2, <3>3
    <3>9. staged \subseteq staged' /\ \A i \in 1..file : out'[i] = out[i]
      BY <1>3, <3>2, <3>7
    <3>10. staged' \subseteq 1..file'
      BY <1>4, <3>1, <3>2, <3>7
    <3>11. \A i \in 1..file' : i \in staged' \/ out'[i] = Segments[man][i]
      BY <1>4, <3>1, <3>6, <3>8, <3>9
    <3>12. QED
      BY <1>2, <3>1, <3>4, <3>5, <3>10, <3>11 DEF Built
  <2>3. QED
    BY <2>1, <2>2
<1>7. Boot' /\ Stream' /\ Route' /\ Arrived'
  BY <1>1, <1>2, <1>5, <1>6 DEF Boot, Stream, Route, Arrived
<1>8. Holds
  BY <1>1, <1>2 DEF Holds, Types
<1>9. seg' \in Nat /\ mref' \subseteq Chunks /\ reply' \in [inline : SUBSET Chunks, refs : SUBSET Chunks]
  BY <1>1, <1>2 DEF Types
<1>10. QED
  BY <1>2, <1>6, <1>7, <1>8, <1>9, Going

\* The invariant is kept when a staged file is moved into place.
LEMMA CommitKeeps ==
  ASSUME Inv, NEW i \in Files, commit_file(i)
  PROVE  Inv'
<1>1. Types /\ Built
  BY DEF Inv
<1>2. pc = "commit" /\ i \in staged /\ UNCHANGED <<kind, pub, cache>>
  BY DEF commit_file
<1>3. CASE met' = met \cup {"disk"} /\ Fails /\ UNCHANGED out
  BY <1>1, <1>2, <1>3, Failing DEF Types, Reasons
<1>4. CASE /\ out' = [out EXCEPT ![i] = Segments[man][i]] /\ staged' = staged \ {i}
           /\ UNCHANGED <<sess, pc, request, stream, pool, file, res, met, faults>>
  <2>1. UNCHANGED <<kind, pub, sess, cache, pc, opts, man, seg, mref, reply, hashes, next, failed, wk,
                    file, met>>
    BY <1>2, <1>4 DEF request, stream, pool
  <2>2. man \in Versions /\ Len(Segments[man]) \in Nat /\ out \in [Files -> SUBSET Chunks]
    BY <1>1, <1>2, SegmentsTyped DEF Types
  <2>3. /\ file = Len(Segments[man]) /\ staged \subseteq 1..file
        /\ \A j \in 1..file : j \in staged \/ out[j] = Segments[man][j]
    BY <1>1, <1>2 DEF Built
  <2>4. i \in FilesOf(man)
    BY <1>2, <2>3 DEF FilesOf
  <2>5. out' \in [Files -> SUBSET Chunks] /\ out'[i] = Segments[man][i] /\ \A j \in Files : j # i => out'[j] = out[j]
    <3>1. Segments[man][i] \subseteq Chunks
      BY <2>2, <2>4, SegmentsTyped
    <3>2. QED
      BY <1>4, <2>2, <3>1
  <2>6. \A j \in 1..file : j \in staged' \/ out'[j] = Segments[man][j]
    <3>1. 1..file \subseteq Files
      BY <2>2, <2>3, SegmentsTyped DEF FilesOf
    <3>2. QED
      BY <1>4, <2>3, <2>5, <3>1
  <2>7. Built'
    BY <1>2, <1>4, <2>1, <2>2, <2>3, <2>6 DEF Built
  <2>8. Boot' /\ Stream' /\ Route' /\ Arrived'
    BY <1>2, <2>1 DEF Boot, Stream, Route, Arrived
  <2>9. Holds
    BY <1>1, <2>1 DEF Holds, Types
  <2>10. /\ seg' \in Nat /\ file' \in Nat /\ mref' \subseteq Chunks
         /\ reply' \in [inline : SUBSET Chunks, refs : SUBSET Chunks]
    BY <1>1, <2>1 DEF Types
  <2>11. QED
    BY <1>2, <2>1, <2>5, <2>7, <2>8, <2>9, <2>10, Going
<1>5. QED
  BY <1>3, <1>4 DEF commit_file, Excuse

\* The invariant is kept when the fetch ends.
LEMMA FinishKeeps ==
  ASSUME Inv, NEW prune, finish(prune)
  PROVE  Inv'
<1>1. Types /\ Returns /\ UNCHANGED <<kind, pub, cache, met>> /\ out' \in {prune_extraneous, out}
  BY DEF Inv, finish
<1>2. prune_extraneous \in [Files -> SUBSET Chunks]
  BY <1>1 DEF prune_extraneous, Types
<1>3. QED
  BY <1>1, <1>2, Returning DEF Types

-----------------------------------------------------------------------------
(* What goes wrong around the fetch.                                       *)

\* The invariant is kept by any step that leaves the fetch alone.
LEMMA AroundKeeps ==
  ASSUME Inv, UNCHANGED <<kind, out, pc, opts, man, seg, mref, reply, hashes, next, failed,
                          file, staged, res>>,
         met \subseteq met', met' \subseteq Reasons,
         pub' \in Versions, sess' \in [open : BOOLEAN, known : SUBSET Chunks],
         cache' \in [Chunks -> {"none", "good", "bad"}],
         "rot" \notin met' => cache' = cache,
         wk' \in [Workers -> [at : Ats, hash : Chunks \cup {NoHash}]],
         \A w \in Workers : /\ wk'[w].hash = wk[w].hash
                            /\ \/ wk'[w].at = wk[w].at
                               \/ wk[w].at = "put" /\ wk'[w].at = "swept" /\ "sweep" \in met',
         Republished', Session', Rotten'
  PROVE  Inv'
<1>1. Types /\ Boot /\ Built /\ Stream /\ Pool /\ Route /\ Arrived /\ FailsForAReason
  BY DEF Inv
<1>2. use_parallel' = use_parallel
  BY DEF use_parallel, is_container
<1>3. "rot" \notin met' => have' = have
  BY DEF have, contains, prev_index, is_container
<1>4. Types'
  BY <1>1 DEF Types
<1>5. Boot' /\ Built' /\ Route'
  BY <1>1, <1>2 DEF Boot, Built, Route
<1>6. Stream'
  <2>1. met' = {} => met = {} /\ have' = have
    BY <1>3
  <2>2. "republished" \notin met' => "republished" \notin met
    OBVIOUS
  <2>3. QED
    BY <1>1, <1>2, <2>1, <2>2 DEF Stream
<1>7. Arrived' /\ FailsForAReason'
  BY <1>1, <1>2, <1>3 DEF Arrived, FailsForAReason
<1>8. Pool'
  <2>1. \A w \in Workers : /\ wk'[w].at \in Busy <=> wk[w].at \in Busy
                           /\ wk'[w].at = "done" <=> wk[w].at = "done"
                           /\ wk'[w].at = "swept" => wk[w].at = "swept" \/ "sweep" \in met'
    BY DEF Busy
  <2>2. "rot" \notin met' => "rot" \notin met
    OBVIOUS
  <2>3. QED
    BY <1>1, <1>2, <1>3, <2>1, <2>2 DEF Pool
<1>9. QED
  BY <1>4, <1>5, <1>6, <1>7, <1>8 DEF Inv

\* The invariant is kept by every fault.
LEMMA FaultsKeep ==
  ASSUME Inv, Faults
  PROVE  Inv'
<1>1. Types /\ Republished /\ Session /\ Rotten
  BY DEF Inv
<1>2. CASE request_fails
  BY <1>1, <1>2, Failing DEF request_fails, Excuse, disk, Types, Reasons
<1>3. CASE crash
  <2>1. Rest /\ res' = "none" /\ UNCHANGED <<kind, pub, cache, out, met>>
    BY <1>3 DEF crash, disk
  <2>2. Rotten' /\ FailsForAReason'
    BY <1>1, <2>1 DEF Rotten, FailsForAReason
  <2>3. QED
    BY <1>1, <2>1, <2>2, Resting DEF Types
<1>4. ASSUME NEW v \in Versions, restart(v)
      PROVE  Inv'
  <2>1. /\ pub' = v /\ sess' = Closed
        /\ met' = met \cup (IF v # pub THEN {"republished"} ELSE {})
                      \cup (IF sess.open /\ ~use_parallel THEN {"session"} ELSE {})
        /\ UNCHANGED <<kind, cache, out, pc, opts, man, seg, mref, reply, hashes, next, failed, wk,
                       file, staged, res>>
    BY <1>4 DEF restart, disk, request, stream, pool, build
  <2>2. met \subseteq met' /\ met' \subseteq Reasons
    BY <1>1, <2>1 DEF Types, Reasons
  <2>3. Republished'
    BY <1>1, <2>1 DEF Republished
  <2>4. Session'
    <3>1. use_parallel' = use_parallel
      BY <2>1 DEF use_parallel, is_container
    <3>2. QED
      BY <1>1, <2>1, <3>1 DEF Session
  <2>5. Rotten'
    BY <1>1, <2>1, <2>2 DEF Rotten
  <2>6. QED
    BY <1>1, <2>1, <2>2, <2>3, <2>4, <2>5, RestTyped, AroundKeeps DEF Types
<1>5. ASSUME UNCHANGED <<kind, pub, sess, out, pc, opts, man, seg, mref, reply, hashes, next, failed,
                         file, staged, res>>,
             met \subseteq met', met' \subseteq Reasons, cache' \in [Chunks -> {"none", "good", "bad"}],
             "rot" \notin met' => cache' = cache, Rotten',
             wk' \in [Workers -> [at : Ats, hash : Chunks \cup {NoHash}]],
             \A w \in Workers : /\ wk'[w].hash = wk[w].hash
                                /\ \/ wk'[w].at = wk[w].at
                                   \/ wk[w].at = "put" /\ wk'[w].at = "swept" /\ "sweep" \in met'
      PROVE  Inv'
  <2>1. Republished'
    BY <1>1, <1>5 DEF Republished
  <2>2. Session'
    BY <1>1, <1>5 DEF Session, use_parallel, is_container
  <2>3. QED
    BY <1>1, <1>5, <2>1, <2>2, AroundKeeps DEF Types
<1>6. ASSUME NEW c \in Chunks, rot(c)
      PROVE  Inv'
  <2>1. /\ met' = met \cup {"rot"} /\ cache' = [cache EXCEPT ![c] = "bad"]
        /\ UNCHANGED <<kind, pub, sess, out, pc, opts, man, seg, mref, reply, hashes, next, failed, wk,
                       file, staged, res>>
    BY <1>6 DEF rot, Excuse, origin, request, stream, pool, build
  <2>2. cache' \in [Chunks -> {"none", "good", "bad"}] /\ met' \subseteq Reasons
    BY <1>1, <2>1 DEF Types, Reasons
  <2>3. Rotten'
    BY <2>1 DEF Rotten
  <2>4. QED
    BY <1>1, <1>5, <2>1, <2>2, <2>3 DEF Types
<1>7. ASSUME cache' \in [Chunks -> {"none", "good", "bad"}],
             \A c \in Chunks : cache'[c] = "bad" => cache[c] = "bad", entries,
             UNCHANGED <<kind, pub, sess, out, pc, opts, man, seg, mref, reply, hashes, next, failed,
                         file, staged, res>>
      PROVE  Inv'
  <2>1. /\ wk' = [w \in Workers |-> [wk[w] EXCEPT !.at = IF @ = "put" THEN "swept" ELSE @]]
        /\ met' = met \cup (IF \E w \in Workers : wk[w].at = "put" THEN {"sweep"} ELSE {})
                      \cup (IF cache' # cache THEN {"rot"} ELSE {})
    BY <1>7 DEF entries
  <2>2. wk \in [Workers -> [at : Ats, hash : Chunks \cup {NoHash}]]
    BY <1>1 DEF Types
  <2>3. \A w \in Workers : /\ wk'[w].hash = wk[w].hash
                           /\ wk'[w].at = IF wk[w].at = "put" THEN "swept" ELSE wk[w].at
    BY <2>1, <2>2
  <2>4. wk' \in [Workers -> [at : Ats, hash : Chunks \cup {NoHash}]]
    BY <2>1, <2>2 DEF Ats
  <2>5. /\ met \subseteq met' /\ met' \subseteq Reasons /\ ("rot" \notin met' => cache' = cache)
        /\ \A w \in Workers : wk[w].at = "put" => "sweep" \in met'
    BY <1>1, <2>1 DEF Types, Reasons
  <2>6. Rotten'
    BY <1>1, <1>7, <2>5 DEF Rotten
  <2>7. QED
    BY <1>5, <1>7, <2>3, <2>4, <2>5, <2>6
<1>8. ASSUME NEW c \in Chunks, evict(c)
      PROVE  Inv'
  <2>1. /\ cache' = [cache EXCEPT ![c] = "none"] /\ entries
        /\ UNCHANGED <<kind, pub, sess, out, pc, opts, man, seg, mref, reply, hashes, next, failed,
                       file, staged, res>>
    BY <1>8 DEF evict, origin, request, stream, build
  <2>2. QED
    BY <1>1, <1>7, <2>1 DEF Types
<1>9. CASE cache_verify
  <2>1. /\ cache' = [c \in Chunks |-> IF cache[c] = "bad" THEN "none" ELSE cache[c]] /\ entries
        /\ UNCHANGED <<kind, pub, sess, out, pc, opts, man, seg, mref, reply, hashes, next, failed,
                       file, staged, res>>
    BY <1>9 DEF cache_verify, origin, request, stream, build
  <2>2. QED
    BY <1>1, <1>7, <2>1 DEF Types
<1>10. QED
  BY <1>2, <1>3, <1>4, <1>6, <1>8, <1>9, BootstrapKeeps, SeedSweptKeeps, LoseReplyKeeps, CutReplyKeeps
     DEF Faults

-----------------------------------------------------------------------------
\* The invariant holds at first.
LEMMA InvInit ==
  ASSUME Init
  PROVE  Inv
<1>1. Types
  BY RestTyped DEF Init, Types
<1>2. Boot /\ Built /\ Republished /\ Session /\ Stream /\ Rotten /\ Route /\ Arrived /\ FailsForAReason
  BY DEF Init, Boot, Built, Republished, Session, Stream, Rotten, Route, Arrived, FailsForAReason
<1>3. Pool
  BY RestTyped DEF Init, Pool, Busy
<1>4. QED
  BY <1>1, <1>2, <1>3 DEF Inv

\* It holds after every step.
LEMMA InvStep ==
  ASSUME Inv, [Next]_vars
  PROVE  Inv'
<1>1. CASE Client
  BY <1>1, FetchKeeps, OpenSessionKeeps, BootstrapKeeps, SeedKeeps, PostBatchKeeps, BatchRefusedKeeps,
     ReceiveKeeps, BatchesDoneKeeps, RepairKeeps, FallbackKeeps, MissingKeeps, SpawnKeeps, JoinKeeps,
     RebuildKeeps, FinishKeeps, CommitKeeps DEF Client
<1>2. CASE UNCHANGED vars
  <2>1. UNCHANGED <<kind, pub, sess, cache, out, pc, opts, man, seg, mref, reply, hashes, next, failed,
                    wk, file, staged, res, met>>
    BY <1>2 DEF vars, origin, disk, request, stream, pool, build
  <2>2. Types /\ Republished /\ Session /\ Rotten
    BY DEF Inv
  <2>3. Republished' /\ Session' /\ Rotten'
    BY <2>1, <2>2 DEF Republished, Session, Rotten, use_parallel, is_container
  <2>4. QED
    BY <2>1, <2>2, <2>3, AroundKeeps DEF Types
<1>3. QED
  BY <1>1, <1>2, WorkerKeeps, FaultsKeep DEF Next

\* It holds in every state.
LEMMA AlwaysInv == Spec => []Inv
<1>1. Init => Inv
  BY InvInit
<1>2. Inv /\ [Next]_vars => Inv'
  BY InvStep
<1>3. QED
  BY <1>1, <1>2, PTL DEF Spec

\* By the session or by the shared counter of the workers: when either is over
\* without an error, every chunk of the manifest is in the cache or in the
\* previous artifact, also if replies were lost after the origin had counted
\* them as delivered (decode_stream, fetch_chunks_parallel).
THEOREM EveryChunkAlwaysArrives == Spec => []EveryChunkArrives
<1>1. Inv => EveryChunkArrives
  BY DEF Inv, Arrived, EveryChunkArrives
<1>2. QED
  BY <1>1, AlwaysInv, PTL

\* A fetch fails only if the network, the origin's disk or the output's gave
\* up, the version moved, its session was lost with the origin, its temporary
\* file was swept, or, for media, its cache lost an entry.
THEOREM AlwaysFailsForAReason == Spec => []FailsForAReason
<1>1. Inv => FailsForAReason
  BY DEF Inv
<1>2. QED
  BY <1>1, AlwaysInv, PTL

-----------------------------------------------------------------------------
(* Which steps return, and which change the output.                        *)

\* A run that ends well ends in a seed or in a finish.
LEMMA Endings ==
  ASSUME [Next]_vars, pc # "idle", pc' = "idle", res' = "ok"
  PROVE  seed_cache \/ \E prune \in BOOLEAN : finish(prune)
<1>1. ~Fails
  BY DEF Fails
<1>2. ASSUME NEW o, NEW resume, fetch(o, resume)
      PROVE  FALSE
  BY <1>2 DEF fetch
<1>3. ASSUME NEW extra, NEW b, open_session(extra, b)
      PROVE  FALSE
  BY <1>3 DEF open_session, Goto
<1>4. ~(fetch_bootstrap \/ download_half \/ install_bootstrap \/ mark_journal \/ download_cut)
  BY DEF fetch_bootstrap, download_half, install_bootstrap, mark_journal, download_cut, Goto
<1>5. ~(post_batch \/ batch_refused \/ receive_batch \/ batches_done \/ lose_reply)
  BY <1>1 DEF post_batch, batch_refused, receive_batch, batches_done, lose_reply, Goto
<1>6. ASSUME NEW c, repair_ref(c) \/ chunk_via_fallback(c) \/ missing_after_fetch(c)
      PROVE  FALSE
  BY <1>1, <1>6 DEF repair_ref, chunk_via_fallback, missing_after_fetch
<1>7. ASSUME NEW s, spawn(s) \/ cut_reply(s) \/ seed_swept(s)
      PROVE  FALSE
  BY <1>1, <1>7 DEF spawn, cut_reply, seed_swept, Goto
<1>8. ~(join \/ write_file \/ skip_file \/ files_written \/ request_fails)
  BY <1>1 DEF join, write_file, skip_file, files_written, request_fails, Goto
<1>9. ASSUME NEW i, commit_file(i)
      PROVE  FALSE
  BY <1>1, <1>9 DEF commit_file
<1>10. ASSUME NEW w, Worker(w)
       PROVE  FALSE
  BY <1>10 DEF Worker, take, fetch_one, put_one, fetch_one_fails, put_one_fails
<1>11. ~(crash \/ cache_verify)
  BY DEF crash, cache_verify
<1>12. ASSUME NEW c, restart(c) \/ rot(c) \/ evict(c)
       PROVE  FALSE
  BY <1>12 DEF restart, rot, evict
<1>13. ~UNCHANGED vars
  BY DEF vars
<1>14. ~Faults
  BY <1>4, <1>5, <1>7, <1>8, <1>11, <1>12 DEF Faults
<1>15. Client
  BY <1>10, <1>13, <1>14 DEF Next
<1>16. QED
  BY <1>2, <1>3, <1>4, <1>5, <1>6, <1>7, <1>8, <1>9, <1>15 DEF Client

\* What a fetch that is about to return has installed.
LEMMA Installed ==
  ASSUME Inv, seed_cache \/ \E prune \in BOOLEAN : finish(prune)
  PROVE  \A i \in FilesOf(man) : out'[i] = Segments[man][i]
<1>1. Types /\ Boot /\ Built
  BY DEF Inv
<1>2. CASE seed_cache
  <2>1. pc = "seed" /\ out' = out
    BY <1>2 DEF seed_cache
  <2>2. man \in Single /\ out[1] = Segments[man][1]
    BY <1>1, <2>1 DEF Boot
  <2>3. FilesOf(man) = {1}
    <3>1. Len(Segments[man]) = 1
      BY <2>2 DEF Single
    <3>2. 1..1 = {1}
      OBVIOUS
    <3>3. QED
      BY <3>1, <3>2 DEF FilesOf
  <2>4. QED
    BY <2>1, <2>2, <2>3
<1>3. CASE \E prune \in BOOLEAN : finish(prune)
  <2>1. pc = "commit" /\ staged = {} /\ out' \in {out, prune_extraneous}
    BY <1>3 DEF finish
  <2>2. \A i \in FilesOf(man) : out[i] = Segments[man][i]
    BY <1>1, <2>1 DEF Built, FilesOf
  <2>3. FilesOf(man) \subseteq Files
    BY <1>1, <2>1, SegmentsTyped DEF Types
  <2>4. QED
    BY <2>1, <2>2, <2>3 DEF prune_extraneous
<1>4. QED
  BY <1>2, <1>3

\* fetch returns Ok only when every file of the manifest it read is installed,
\* whether it came by bootstrap, by segments or by hash.
THEOREM AlwaysInstalled == Spec => InstalledIsManifest
<1>1. Inv /\ [Next]_vars =>
        [(res' = "ok" /\ pc # "idle" /\ pc' = "idle") =>
            \A i \in FilesOf(man) : out'[i] = Segments[man][i]]_vars
  BY Endings, Installed
<1>2. QED
  BY <1>1, AlwaysInv, PTL DEF Spec, InstalledIsManifest

\* While files are rebuilt or committed, few steps touch the output.
LEMMA OutputSteps ==
  ASSUME [Next]_vars, out' # out, pc \in {"rebuild", "commit"}
  PROVE  (write_file /\ kind # "directory") \/ pc = "commit"
<1>1. ASSUME NEW o, NEW resume, fetch(o, resume)
      PROVE  FALSE
  BY <1>1 DEF fetch
<1>2. ASSUME NEW extra, NEW b, open_session(extra, b)
      PROVE  FALSE
  BY <1>2 DEF open_session
<1>3. ~(fetch_bootstrap \/ download_half \/ install_bootstrap \/ seed_cache \/ mark_journal)
  BY DEF fetch_bootstrap, download_half, install_bootstrap, seed_cache, mark_journal
<1>4. ~(post_batch \/ batch_refused \/ receive_batch \/ batches_done)
  BY DEF post_batch, batch_refused, receive_batch, batches_done
<1>5. ASSUME NEW c, repair_ref(c) \/ chunk_via_fallback(c) \/ missing_after_fetch(c)
      PROVE  FALSE
  BY <1>5 DEF repair_ref, chunk_via_fallback, missing_after_fetch
<1>6. ASSUME NEW s, spawn(s)
      PROVE  FALSE
  BY <1>6 DEF spawn
<1>7. ~(join \/ skip_file \/ files_written)
  BY DEF join, skip_file, files_written, disk
<1>8. ASSUME NEW i, commit_file(i) \/ finish(i)
      PROVE  pc = "commit"
  BY <1>8 DEF commit_file, finish
<1>9. ASSUME NEW w, Worker(w)
      PROVE  FALSE
  BY <1>9 DEF Worker, take, fetch_one, put_one, fetch_one_fails, put_one_fails, disk
<1>10. ~Faults
  BY DEF Faults, request_fails, download_cut, lose_reply, crash, cache_verify, cut_reply, seed_swept,
         restart, rot, evict, disk
<1>11. ~UNCHANGED vars
  BY DEF vars, disk
<1>12. write_file => kind # "directory"
  BY DEF write_file
<1>13. Client
  BY <1>9, <1>10, <1>11 DEF Next
<1>14. QED
  BY <1>1, <1>2, <1>3, <1>4, <1>5, <1>6, <1>7, <1>8, <1>12, <1>13 DEF Client

\* The tree of a directory is left alone until every file of the new version
\* is staged or already there: a fetch that fails or dies before
\* commit_directory has changed nothing.
THEOREM AlwaysStagedFirst == Spec => CommitAfterStaging
<1>1. Inv /\ [Next]_vars =>
        [(kind = "directory" /\ out' # out /\ pc \in {"rebuild", "commit"}) =>
            \A i \in FilesOf(man) : i \in staged \/ out[i] = Segments[man][i]]_vars
  <2> SUFFICES ASSUME Inv, [Next]_vars, kind = "directory", out' # out, pc \in {"rebuild", "commit"},
                      NEW i \in FilesOf(man)
               PROVE  i \in staged \/ out[i] = Segments[man][i]
    OBVIOUS
  <2>1. pc = "commit"
    BY OutputSteps
  <2>2. QED
    BY <2>1 DEF Inv, Built, FilesOf
<1>2. QED
  BY <1>1, AlwaysInv, PTL DEF Spec, CommitAfterStaging

=============================================================================
