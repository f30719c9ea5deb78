------------------------------ MODULE Delivery ------------------------------
(***************************************************************************)
(* One asset, the origin that serves it (cavs-server) and the client that  *)
(* fetches it (cavs-client): sessions, inline and reference delivery, the  *)
(* bootstrap download and its resume journal, parallel download by hash,   *)
(* the chunk cache, reconstruction, and the re-run of a failed fetch.      *)
(*                                                                         *)
(* What goes wrong: the origin restarts, perhaps with another version; a   *)
(* reply is lost before the client sees it, a body is cut; a chunk cannot  *)
(* be read at the origin; the client dies; a cache entry rots or is        *)
(* evicted; `cache verify` or `cache gc` runs beside a fetch and sweeps    *)
(* the temporary file of a put.  MaxFaults bounds them.                    *)
(*                                                                         *)
(* What is abstracted.  A version is a number, its manifest's digest and   *)
(* its sidecar's digest are that number.  A segment is a batch of its own, *)
(* and initialisation chunks are part of the first.  The bootstrap arrives *)
(* in two halves.  A segment's chunks are also the content of one output   *)
(* file: a file of a directory or of a raw asset, a segment file of media. *)
(***************************************************************************)
EXTENDS Integers, Sequences, FiniteSets, SequencesExt, FiniteSetsExt

CONSTANTS
    Versions,     \* versions of the asset, positive numbers
    Segments,     \* version -> the sequence of its segments' chunks
    Kinds,        \* what the asset can be: "raw", "directory", "media"
    Workers,      \* the connections of a parallel download
    MaxCold,      \* --max-cold of the origin; 0: no collapse
    MaxAttempts,  \* MAX_ATTEMPTS
    MaxFaults     \* bound: what goes wrong

ASSUME DeliveryAssumption ==
    /\ Versions \subseteq Nat \ {0}
    /\ DOMAIN Segments = Versions
    /\ \A v \in Versions :
         LET chunks == UNION Range(Segments[v])
         IN  Segments[v] \in Seq(SUBSET chunks) /\ IsFiniteSet(chunks)
    /\ Workers # {}                    \* `--connections` is 1 or more
    /\ Kinds \subseteq {"raw", "directory", "media"}
    /\ MaxAttempts \in Nat \ {0}
    /\ {MaxCold, MaxFaults} \subseteq Nat

VARIABLES
    kind,         \* payload_kind of the asset
    \* the origin
    pub,          \* the version it loaded when it started
    sess,         \* the session of the running fetch
    \* the client's disk
    cache,        \* each chunk's cache entry: "none", "good" or "bad"
    journal,      \* the resume journal of the asset
    zst,          \* halves of the bootstrap's .part file, by their version
    out,          \* the chunks each output file holds; {}: no file
    \* the running fetch
    pc,           \* where it stands; "idle": none runs
    opts,         \* its options
    man,          \* the version of the manifest it read
    prior,        \* the journal it continues
    offer,        \* the sidecar the session announced; 0: none
    seg,          \* segments it has asked for
    tries,        \* attempts of the request in flight
    reply,        \* the batch response on its way
    mref,         \* missing_refs
    hashes,       \* the chunks the workers share
    next,         \* the workers' shared counter
    failed,       \* the workers' shared flag
    wk,           \* the workers
    file,         \* output files it is done with
    staged,       \* files staged for the tree of a directory
    \* what the last fetch returned, and what it met
    res,          \* "none", "ok" or "failed"
    met,          \* what excuses a failure of this fetch
    faults        \* what went wrong so far

origin  == <<pub, sess>>
disk    == <<cache, journal, zst, out>>
request == <<opts, man, prior, offer>>
stream  == <<seg, tries, reply, mref>>
pool    == <<hashes, next, failed, wk>>
build   == <<file, staged>>
vars    == <<kind, origin, disk, pc, request, stream, pool, build, res, met, faults>>

ChunksOf(v) == UNION Range(Segments[v])
Chunks      == UNION {ChunksOf(v) : v \in Versions}
FilesOf(v)  == 1..Len(Segments[v])
Files       == UNION {FilesOf(v) : v \in Versions}
Single      == {v \in Versions : Len(Segments[v]) = 1}

NoJournal == [state |-> "none", man |-> 0, b3 |-> 0]
NoReply   == [inline |-> {}, refs |-> {}]
NoOpts    == [parallel |-> FALSE, prev |-> 0]
Options   == [parallel : BOOLEAN, prev : Single \cup {0}]
Closed    == [open |-> FALSE, known |-> {}]
NoHash    == "-"
AtRest    == [w \in Workers |-> [at |-> "done", hash |-> NoHash]]

(***************************************************************************)
(* The client's disk.                                                      *)
(***************************************************************************)
contains(c) == cache[c] # "none"

\* ChunkCache::put for a set of chunks; an entry that exists is left as it is
put(S) == [c \in Chunks |-> IF c \in S /\ cache[c] = "none" THEN "good" ELSE cache[c]]

\* mutant: a corrupt entry is left in place
get_heals_not(c) == cache

\* ChunkCache::get drops a corrupt entry and reports it absent
get_heals(c) == [cache EXCEPT ![c] = IF @ = "bad" THEN "none" ELSE @]

\* ResumeJournal::discard: the journal and the part file it names
discard ==
    /\ journal' = NoJournal
    /\ zst' = IF journal.state = "boot" THEN <<>> ELSE zst

\* The chunks the previous artifact offers to a container
is_container == kind # "media"

prev_index == IF is_container /\ opts.prev # 0
              THEN ChunksOf(opts.prev) \cap ChunksOf(man) ELSE {}

have == {c \in ChunksOf(man) : contains(c)} \cup prev_index

(***************************************************************************)
(* How a fetch ends.                                                       *)
(***************************************************************************)
Rest ==
    /\ pc' = "idle"
    /\ opts' = NoOpts /\ man' = 0 /\ prior' = NoJournal /\ offer' = 0
    /\ seg' = 0 /\ tries' = 0 /\ reply' = NoReply /\ mref' = {}
    /\ hashes' = <<>> /\ next' = 0 /\ failed' = FALSE /\ wk' = AtRest
    /\ file' = 0 /\ staged' = {}
    /\ sess' = Closed

Fails  == Rest /\ res' = "failed"
Returns == Rest /\ res' = "ok"

\* what goes wrong takes one of the bounded faults
Fault == faults < MaxFaults /\ faults' = faults + 1
Excuse(e) == met' = met \cup {e}

Goto(l) == pc' = l

(***************************************************************************)
(* fetch: read the manifest, settle the journal, and stop when the output  *)
(* or the previous artifact is the version already.                        *)
(***************************************************************************)
journal_is_stale(resume) == ~resume \/ journal.man # pub

\* every file of the version is there, with its digest
all_match(v) == \A i \in FilesOf(v) : out[i] = Segments[v][i]

\* the previous artifact is the one file of the version
previous_matches(o) == pub \in Single /\ o.prev # 0 /\ Segments[o.prev] = Segments[pub]

no_op(o) == is_container /\ (all_match(pub) \/ previous_matches(o))

\* an option the kind of the asset ignores is left at its default
sensible(o) == o.parallel \/ o.prev # 0 => is_container

fetch(o, resume) ==
    /\ pc = "idle"
    /\ sensible(o)
    /\ met' = IF \E c \in Chunks : cache[c] = "bad" THEN {"rot"} ELSE {}
    /\ \/ /\ no_op(o)
          /\ out' = [i \in Files |-> IF i \in FilesOf(pub) THEN Segments[pub][i] ELSE out[i]]
          /\ discard /\ Returns
       \/ /\ ~no_op(o)
          /\ IF journal # NoJournal /\ journal_is_stale(resume)
             THEN discard /\ prior' = NoJournal
             ELSE prior' = journal /\ UNCHANGED <<journal, zst>>
          /\ opts' = o /\ man' = pub /\ res' = "none"
          /\ Goto("open")
          /\ UNCHANGED <<sess, out, offer, stream, pool, build>>
    /\ UNCHANGED <<kind, pub, cache, faults>>

(***************************************************************************)
(* The session.  The origin intersects what the client has with what the   *)
(* asset holds; a Bloom filter can name more.  A cold client may be        *)
(* offered the bootstrap, which a previous artifact may make it decline.   *)
(***************************************************************************)
open_session(extra, bootstrap) ==
    /\ pc = "open"
    /\ LET known == (have \cup extra) \cap ChunksOf(pub)
       IN  /\ bootstrap => is_container /\ pub \in Single /\ known # ChunksOf(pub)
           /\ sess' = [open |-> TRUE, known |-> known]
    /\ offer' = IF bootstrap THEN pub ELSE 0
    /\ IF bootstrap /\ man \in Single THEN Goto("boot") ELSE Goto("mark")
    /\ UNCHANGED <<kind, pub, disk, opts, man, prior, stream, pool, build, res, met, faults>>

\* the manifest or the session cannot be had
request_fails ==
    /\ pc = "open"
    /\ Fault /\ Excuse("network") /\ Fails
    /\ UNCHANGED <<kind, pub, disk>>

(***************************************************************************)
(* fetch_bootstrap.  A matching journal continues its part file; a range   *)
(* that starts at the end of the sidecar is refused (416).  Every failure  *)
(* here falls back to the chunks.                                          *)
(***************************************************************************)
resumable == prior.state = "boot" /\ prior.b3 = offer

fetch_bootstrap ==
    /\ pc = "boot"
    /\ journal' = [state |-> "boot", man |-> man, b3 |-> offer]
    /\ IF resumable /\ Len(zst) = 2
       THEN Goto("mark") /\ UNCHANGED zst
       ELSE /\ Goto("download")
            /\ zst' = IF resumable THEN zst ELSE <<>>
    /\ UNCHANGED <<kind, origin, cache, out, request, stream, pool, build, res, met, faults>>

download_half ==
    /\ pc = "download"
    /\ Len(zst) < 2
    /\ zst' = Append(zst, pub)
    /\ UNCHANGED <<kind, origin, cache, journal, out, pc, request, stream, pool, build, res, met, faults>>

download_cut ==
    /\ pc = "download"
    /\ Len(zst) < 2
    /\ Fault
    /\ Goto("mark")
    /\ UNCHANGED <<kind, origin, disk, request, stream, pool, build, res, met>>

\* the BLAKE3 of the whole part file against the one the session announced
verified == zst = <<offer, offer>>

\* mutant: no SHA-256
finish_unchecked(v) == TRUE

\* PartFile::finish: the SHA-256 of the decompressed artifact
finish_matches(v) == v = man

install_bootstrap ==
    /\ pc = "download"
    /\ Len(zst) = 2
    /\ \/ /\ ~verified
          /\ zst' = <<>> /\ journal' = NoJournal
          /\ Goto("mark")
          /\ UNCHANGED <<origin, cache, out, request, stream, pool, build, res>>
       \/ /\ verified /\ ~finish_matches(offer)
          /\ Goto("mark")
          /\ UNCHANGED <<origin, disk, request, stream, pool, build, res>>
       \/ /\ verified /\ finish_matches(offer)
          /\ out' = [out EXCEPT ![1] = Segments[offer][1]]
          /\ Goto("seed")
          /\ UNCHANGED <<origin, cache, journal, zst, request, stream, pool, build, res>>
    /\ UNCHANGED <<kind, met, faults>>

seed_cache ==
    /\ pc = "seed"
    /\ zst' = <<>> /\ journal' = NoJournal
    /\ cache' = put(ChunksOf(man))
    /\ Returns
    /\ UNCHANGED <<kind, pub, out, met, faults>>

\* a put of the seed is swept: the artifact is installed, the chunks are fetched all the same
seed_swept(S) ==
    /\ pc = "seed"
    /\ Fault
    /\ S \subseteq ChunksOf(man) /\ put(S) # put(ChunksOf(man))
    /\ zst' = <<>> /\ journal' = NoJournal
    /\ cache' = put(S)
    /\ Goto("mark")
    /\ UNCHANGED <<kind, origin, out, request, stream, pool, build, res, met>>

(***************************************************************************)
(* The chunk route: mark the journal, unless it keeps a bootstrap; then a  *)
(* container that has connections downloads by hash, and anything else     *)
(* asks the session for its segments.                                      *)
(***************************************************************************)
use_parallel == opts.parallel /\ is_container

mark_journal ==
    /\ pc = "mark"
    /\ journal' = IF journal.state = "boot" THEN journal
                  ELSE [state |-> "chunks", man |-> man, b3 |-> 0]
    /\ IF use_parallel THEN Goto("spawn") ELSE Goto("batch")
    /\ UNCHANGED <<kind, origin, cache, zst, out, request, stream, pool, build, res, met, faults>>

(***************************************************************************)
(* plan_batch and plan_chunks: what the session is not known to hold goes  *)
(* inline, and is marked known before it is read.                          *)
(***************************************************************************)
collapse(S) == MaxCold > 0 /\ Cardinality(S \ sess.known) > MaxCold

plan_chunks(S) == IF collapse(S) THEN [inline |-> S, refs |-> {}]
                  ELSE [inline |-> S \ sess.known, refs |-> S \cap sess.known]

Asked == seg + 1
CanPlan == sess.open /\ Asked <= Len(Segments[pub])

post_batch ==
    /\ pc = "batch"
    /\ seg < Len(Segments[man])
    /\ CanPlan
    /\ reply' = plan_chunks(Segments[pub][Asked])
    /\ sess' = [sess EXCEPT !.known = @ \cup Segments[pub][Asked]]
    /\ Goto("reply")
    /\ UNCHANGED <<kind, pub, disk, request, seg, tries, mref, pool, build, res, met, faults>>

\* 400: the session or the segment is unknown, or a chunk cannot be read
batch_refused ==
    /\ pc = "batch"
    /\ seg < Len(Segments[man])
    /\ \/ ~CanPlan /\ UNCHANGED <<met, faults>>
       \/ CanPlan /\ Fault /\ Excuse("read")
    /\ Fails
    /\ UNCHANGED <<kind, pub, disk>>

\* mutant: every reference is believed
receive_batch_trusting_refs ==
    /\ pc = "reply"
    /\ cache' = put(reply.inline)
    /\ UNCHANGED mref
    /\ seg' = Asked /\ tries' = 0 /\ reply' = NoReply
    /\ Goto("batch")
    /\ UNCHANGED <<kind, origin, journal, zst, out, request, pool, build, res, met, faults>>

\* decode_stream: land the inline chunks, remember references to repair
receive_batch ==
    /\ pc = "reply"
    /\ cache' = put(reply.inline)
    /\ mref' = mref \cup {c \in reply.refs \ reply.inline : ~contains(c) /\ c \notin prev_index}
    /\ seg' = Asked /\ tries' = 0 /\ reply' = NoReply
    /\ Goto("batch")
    /\ UNCHANGED <<kind, origin, journal, zst, out, request, pool, build, res, met, faults>>

\* with_retry: a reply that never comes is asked for again
lose_reply ==
    /\ pc = "reply"
    /\ Fault
    /\ IF tries + 1 < MaxAttempts
       THEN /\ tries' = tries + 1 /\ reply' = NoReply
            /\ Goto("batch")
            /\ UNCHANGED <<sess, request, seg, mref, pool, build, res, met>>
       ELSE Fails /\ Excuse("network")
    /\ UNCHANGED <<kind, pub, disk>>

\* a body that stops, or a put that is swept, is an error of the stream; what arrived stays cached
cut_reply(S) ==
    /\ pc = "reply"
    /\ S \subseteq reply.inline
    /\ Fault
    /\ Excuse("network") \/ (put(S) # put(reply.inline) /\ Excuse("sweep"))
    /\ cache' = put(S)
    /\ Fails
    /\ UNCHANGED <<kind, pub, journal, zst, out>>

\* chunk_by_hash: the origin answers for the version it serves, else 404
served(c) == c \in ChunksOf(pub)

repair_ref(c) ==
    /\ pc = "batch"
    /\ seg = Len(Segments[man])
    /\ c \in mref
    /\ \/ /\ served(c)
          /\ cache' = put({c}) /\ mref' = mref \ {c}
          /\ UNCHANGED <<sess, pc, request, seg, tries, reply, pool, build, res, met, faults>>
       \/ /\ ~served(c)
          /\ Fails
          /\ UNCHANGED <<cache, met, faults>>
       \/ /\ Fault
          /\ Excuse("network") \/ (served(c) /\ ~contains(c) /\ Excuse("sweep"))
          /\ Fails
          /\ UNCHANGED cache
    /\ UNCHANGED <<kind, pub, journal, zst, out>>

batches_done ==
    /\ pc = "batch"
    /\ seg = Len(Segments[man]) /\ mref = {}
    /\ Goto("rebuild")
    /\ UNCHANGED <<kind, origin, disk, request, stream, pool, build, res, met, faults>>

(***************************************************************************)
(* fetch_chunks_parallel: workers share a counter over the missing chunks  *)
(* and stop at the first error.                                            *)
(***************************************************************************)
missing == ChunksOf(man) \ have

spawn(s) ==
    /\ pc = "spawn"
    /\ s \in [1..Cardinality(missing) -> missing] /\ IsInjective(s)
    /\ hashes' = s /\ next' = 1 /\ failed' = FALSE
    /\ wk' = [w \in Workers |-> [at |-> IF s = <<>> THEN "done" ELSE "top", hash |-> NoHash]]
    /\ Goto("pool")
    /\ UNCHANGED <<kind, origin, disk, request, stream, build, res, met, faults>>

take(w) ==
    /\ wk[w].at = "top"
    /\ IF failed
       THEN wk' = [wk EXCEPT ![w].at = "done"] /\ UNCHANGED next
       ELSE /\ next' = next + 1
            /\ wk' = [wk EXCEPT ![w] = IF next > Len(hashes)
                                       THEN [at |-> "done", hash |-> NoHash]
                                       ELSE [at |-> "get", hash |-> hashes[next]]]
    /\ UNCHANGED <<kind, origin, disk, pc, request, stream, hashes, failed, build, res, met, faults>>

fetch_one(w) ==
    /\ wk[w].at = "get"
    /\ served(wk[w].hash)
    /\ wk' = [wk EXCEPT ![w].at = "put"]
    /\ UNCHANGED <<kind, origin, disk, pc, request, stream, hashes, next, failed, build, res, met, faults>>

\* put writes a temporary file and renames it
put_one(w) ==
    /\ wk[w].at = "put"
    /\ cache' = put({wk[w].hash})
    /\ wk' = [wk EXCEPT ![w] = [at |-> "top", hash |-> NoHash]]
    /\ UNCHANGED <<kind, origin, journal, zst, out, pc, request, stream, hashes, next, failed, build, res, met, faults>>

record_error(w) ==
    /\ failed' = TRUE
    /\ wk' = [wk EXCEPT ![w] = [at |-> "done", hash |-> NoHash]]

fetch_one_fails(w) ==
    /\ wk[w].at = "get"
    /\ record_error(w)
    /\ \/ ~served(wk[w].hash) /\ UNCHANGED <<met, faults>>
       \/ Fault /\ Excuse("network")
    /\ UNCHANGED <<kind, origin, disk, pc, request, stream, hashes, next, build, res>>

\* the rename of put finds no temporary file
put_one_fails(w) ==
    /\ wk[w].at = "swept"
    /\ record_error(w)
    /\ UNCHANGED <<kind, origin, disk, pc, request, stream, hashes, next, build, res, met, faults>>

join ==
    /\ pc = "pool"
    /\ \A w \in Workers : wk[w].at = "done"
    /\ \/ failed /\ Fails
       \/ ~failed /\ Goto("rebuild") /\ UNCHANGED <<sess, request, stream, pool, build, res>>
    /\ UNCHANGED <<kind, pub, disk, met, faults>>

(***************************************************************************)
(* Reconstruction, file by file.  A container resolves each chunk from the *)
(* previous artifact, the cache, or the origin by hash; media reads the    *)
(* cache only.  A directory skips the files that match, stages the others, *)
(* and moves them into the tree when all of them are staged.               *)
(***************************************************************************)
Building == file + 1
Target   == Segments[man][Building]
skipped  == kind = "directory" /\ out[Building] = Target
unresolved == {c \in Target : cache[c] # "good" /\ c \notin prev_index}

ToBuild == pc = "rebuild" /\ Building \in FilesOf(man) /\ ~skipped

\* mutant: the origin is not asked
chunk_from_cache_only(c) ==
    /\ ToBuild /\ is_container
    /\ c \in unresolved
    /\ cache' = get_heals(c)
    /\ Fails
    /\ UNCHANGED <<kind, pub, journal, zst, out, met, faults>>

chunk_via_fallback(c) ==
    /\ ToBuild /\ is_container
    /\ c \in unresolved
    /\ \/ /\ served(c)
          /\ cache' = [get_heals(c) EXCEPT ![c] = "good"]
          /\ UNCHANGED <<sess, pc, request, stream, pool, build, res, met, faults>>
       \/ /\ ~served(c)
          /\ cache' = get_heals(c)
          /\ Fails
          /\ UNCHANGED <<met, faults>>
       \/ /\ Fault
          /\ Excuse("network") \/ (served(c) /\ Excuse("sweep"))
          /\ Fails
          /\ cache' = get_heals(c)
    /\ UNCHANGED <<kind, pub, journal, zst, out>>

missing_after_fetch(c) ==
    /\ ToBuild /\ kind = "media"
    /\ c \in unresolved
    /\ cache' = get_heals(c)
    /\ Fails
    /\ UNCHANGED <<kind, pub, journal, zst, out, met, faults>>

\* mutant: a directory is written in place
write_file_in_place ==
    /\ ToBuild
    /\ unresolved = {}
    /\ out' = [out EXCEPT ![Building] = Target] /\ UNCHANGED staged
    /\ file' = Building
    /\ UNCHANGED <<kind, origin, cache, journal, zst, pc, request, stream, pool, res, met, faults>>

write_file ==
    /\ ToBuild
    /\ unresolved = {}
    /\ IF kind = "directory"
       THEN staged' = staged \cup {Building} /\ UNCHANGED out
       ELSE out' = [out EXCEPT ![Building] = Target] /\ UNCHANGED staged
    /\ file' = Building
    /\ UNCHANGED <<kind, origin, cache, journal, zst, pc, request, stream, pool, res, met, faults>>

skip_file ==
    /\ pc = "rebuild" /\ Building \in FilesOf(man) /\ skipped
    /\ file' = Building
    /\ UNCHANGED <<kind, origin, disk, pc, request, stream, pool, staged, res, met, faults>>

files_written ==
    /\ pc = "rebuild"
    /\ Building \notin FilesOf(man)
    /\ Goto("commit")
    /\ UNCHANGED <<kind, origin, disk, request, stream, pool, build, res, met, faults>>

\* commit_directory renames one staged file
commit_file(i) ==
    /\ pc = "commit"
    /\ i \in staged /\ \A j \in staged : i <= j
    /\ \/ /\ out' = [out EXCEPT ![i] = Segments[man][i]]
          /\ staged' = staged \ {i}
          /\ UNCHANGED <<sess, pc, request, stream, pool, file, res, met, faults>>
       \/ /\ Fault /\ Excuse("disk") /\ Fails
          /\ UNCHANGED out
    /\ UNCHANGED <<kind, pub, cache, journal, zst>>

prune_extraneous == [i \in Files |-> IF i \in FilesOf(man) THEN out[i] ELSE {}]

\* the end of fetch: prune a directory if asked to, drop the journal
finish(prune) ==
    /\ pc = "commit"
    /\ staged = {}
    /\ prune => kind = "directory"
    /\ out' = IF prune THEN prune_extraneous ELSE out
    /\ discard
    /\ Returns
    /\ UNCHANGED <<kind, pub, cache, met, faults>>

(***************************************************************************)
(* What happens around the fetch.                                          *)
(***************************************************************************)
\* The origin restarts: it loads what is published now and knows no session
restart(v) ==
    /\ Fault
    /\ pub' = v
    /\ sess' = Closed
    /\ met' = met \cup (IF v # pub THEN {"republished"} ELSE {})
                  \cup (IF sess.open /\ ~use_parallel THEN {"session"} ELSE {})
    /\ UNCHANGED <<kind, disk, pc, request, stream, pool, build, res>>

\* The client dies: what is on its disk stays
crash ==
    /\ pc # "idle"
    /\ Fault
    /\ Rest /\ res' = "none"
    /\ UNCHANGED <<kind, pub, disk, met>>

rot(c) ==
    /\ Fault
    /\ cache[c] = "good"
    /\ cache' = [cache EXCEPT ![c] = "bad"]
    /\ Excuse("rot")
    /\ UNCHANGED <<kind, origin, journal, zst, out, pc, request, stream, pool, build, res>>

\* ChunkCache::entries lists the cache and removes every temporary file; the puts of the workers
\* are swept here, those of the stream, the repairs, the fallback and the seed in their actions
entries ==
    /\ wk' = [w \in Workers |-> [wk[w] EXCEPT !.at = IF @ = "put" THEN "swept" ELSE @]]
    /\ met' = met \cup (IF \E w \in Workers : wk[w].at = "put" THEN {"sweep"} ELSE {})
                  \cup (IF cache' # cache THEN {"rot"} ELSE {})

\* `cache gc` evicts an entry
evict(c) ==
    /\ Fault
    /\ contains(c)
    /\ cache' = [cache EXCEPT ![c] = "none"]
    /\ entries
    /\ UNCHANGED <<kind, origin, journal, zst, out, pc, request, stream, hashes, next, failed, build, res>>

\* `cache verify` drops the corrupt entries
cache_verify ==
    /\ Fault
    /\ cache' = [c \in Chunks |-> IF cache[c] = "bad" THEN "none" ELSE cache[c]]
    /\ entries
    /\ UNCHANGED <<kind, origin, journal, zst, out, pc, request, stream, hashes, next, failed, build, res>>

Init ==
    /\ kind \in Kinds
    /\ pub \in Versions /\ sess = Closed
    /\ cache = [c \in Chunks |-> "none"]
    /\ journal = NoJournal /\ zst = <<>> /\ out = [i \in Files |-> {}]
    /\ pc = "idle" /\ opts = NoOpts /\ man = 0 /\ prior = NoJournal /\ offer = 0
    /\ seg = 0 /\ tries = 0 /\ reply = NoReply /\ mref = {}
    /\ hashes = <<>> /\ next = 0 /\ failed = FALSE /\ wk = AtRest
    /\ file = 0 /\ staged = {}
    /\ res = "none" /\ met = {} /\ faults = 0

Client ==
    \/ \E o \in Options, resume \in BOOLEAN : fetch(o, resume)
    \/ \E extra \in SUBSET Chunks, b \in BOOLEAN : open_session(extra, b)
    \/ fetch_bootstrap \/ download_half \/ install_bootstrap \/ seed_cache
    \/ mark_journal \/ post_batch \/ batch_refused \/ receive_batch \/ batches_done
    \/ \E c \in Chunks : repair_ref(c) \/ chunk_via_fallback(c) \/ missing_after_fetch(c)
    \/ \E n \in 0..Cardinality(Chunks) : \E s \in [1..n -> Chunks] : spawn(s)
    \/ join \/ write_file \/ skip_file \/ files_written
    \/ \E prune \in BOOLEAN : finish(prune)
    \/ \E i \in Files : commit_file(i)

Worker(w) == take(w) \/ fetch_one(w) \/ put_one(w) \/ fetch_one_fails(w) \/ put_one_fails(w)

Faults ==
    \/ request_fails \/ download_cut \/ lose_reply \/ crash \/ cache_verify
    \/ \E S \in SUBSET Chunks : cut_reply(S) \/ seed_swept(S)
    \/ \E v \in Versions : restart(v)
    \/ \E c \in Chunks : rot(c) \/ evict(c)

Next == Client \/ (\E w \in Workers : Worker(w)) \/ Faults

\* The user runs a failed fetch again; what runs goes on
Fairness == WF_vars(Client) /\ \A w \in Workers : WF_vars(Worker(w))

Spec == Init /\ [][Next]_vars /\ Fairness

(***************************************************************************)
(* Properties.                                                             *)
(***************************************************************************)

\* A fetch that returns Ok leaves every file of the manifest it read installed, whatever the
\* session, the bootstrap and the chunks came from.
InstalledIsManifest ==
    [][(res' = "ok" /\ pc # "idle" /\ pc' = "idle") =>
          \A i \in FilesOf(man) : out'[i] = Segments[man][i]]_vars

\* A directory changes only once every file of the new version is staged or there already; then
\* it only gains the version's files, until the fetch prunes it.
CommitAfterStaging ==
    [][(kind = "directory" /\ out' # out /\ pc \in {"rebuild", "commit"}) =>
          \A i \in FilesOf(man) : i \in staged \/ out[i] = Segments[man][i]]_vars

\* Whichever way chunks are delivered, nothing is left hanging: when the stream of batches is over,
\* or the workers have joined without an error, every chunk of the manifest is in the cache or in
\* the previous artifact - though the session may have taken a lost chunk for delivered and the
\* workers share one counter and one flag.  (What rots or is evicted meanwhile is left to the
\* rebuild; so are, in the stream, the faults that reach it.)
EveryChunkArrives ==
    (pc = "rebuild" /\ file = 0 /\ (met = {} \/ (use_parallel /\ "rot" \notin met))) =>
        ChunksOf(man) \subseteq have

\* A fetch fails only for a reason the protocol cannot hide: the network or the origin's disk gave
\* up, the version moved, the session it streams from was lost, a temporary file of its cache was
\* swept, or, for media only, its cache lost an entry.  A lost reply, a Bloom false positive, a
\* stale journal, a bootstrap that fails, or for a container a corrupt cache, are no reasons.
FailsForAReason ==
    (pc = "idle" /\ res = "failed") =>
        met \cap ({"network", "read", "republished", "session", "sweep", "disk"}
                   \cup IF kind = "media" THEN {"rot"} ELSE {}) # {}

\* Fetching again converges: once nothing goes wrong any more, what is published gets installed.
Converges == <>[]all_match(pub)
=============================================================================
