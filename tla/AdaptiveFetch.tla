--------------------------- MODULE AdaptiveFetch ---------------------------
(***************************************************************************)
(* The payload half of cavs-fetch: a pool of workers takes range groups    *)
(* from a shared counter, under a limit that an AIMD controller moves and  *)
(* under a process-wide budget of bytes in flight.                         *)
(*                                                                         *)
(* A worker holds a slot of the gate before it claims a group, and the     *)
(* bytes of the group while it downloads and decodes it.  A GET is tried   *)
(* twice; a chunk that does not verify is asked for again alone.           *)
(*                                                                         *)
(* Abstracted: offsets and codecs (a group is its pack and its chunks, and *)
(* it spans one byte per chunk), counters and progress.  Time is a clock   *)
(* that starts with the fetch.  What the source of the bytes is, and what  *)
(* a fetch asks for, is left to the module that composes this one.         *)
(***************************************************************************)
EXTENDS Integers, Sequences, FiniteSets, SequencesExt, FiniteSetsExt

CONSTANTS
    Chunks,       \* all chunks, numbers in the order they are stored
    Workers,      \* the pool at its ceiling, MAX_CONCURRENCY of them
    MinLimit,     \* MIN_CONCURRENCY
    InitialLimit, \* INITIAL_CONCURRENCY
    Window,       \* WINDOW and DECREASE_COOLDOWN, in ticks
    MaxBytes,     \* the budget's max, in chunks
    MaxTime       \* bound: ticks of one fetch

ASSUME AdaptiveFetchAssumption ==
    /\ Chunks \subseteq Nat /\ IsFiniteSet(Chunks)
    /\ {MinLimit, InitialLimit, Window, MaxBytes} \subseteq Nat \ {0}
    /\ MaxTime \in Nat
    /\ IsFiniteSet(Workers)
    /\ MinLimit <= InitialLimit /\ InitialLimit <= Cardinality(Workers)

VARIABLES
    packs,        \* the packs in the static tree: pack -> "torn" or "whole"
    cache,        \* the chunks of the client's cache
    missing,      \* the range groups of the fetch
    next,         \* the next group to claim
    failed,       \* a worker has failed
    first_error,  \* what the pool reports
    cancel,       \* the caller's cancellation token
    pc,           \* what each worker is doing
    group,        \* the group a worker has claimed
    left,         \* the chunks of its group that are not cached yet
    active,       \* slots of the gate that are taken
    used,         \* bytes of the budget that are taken
    aimd,         \* the controller: limit, window, last decrease
    now,          \* ticks since the fetch began
    pushback,     \* history: when the remote last pushed back, or -1
    trouble       \* the remote may answer badly, and the caller may cancel

poolVars == <<missing, next, failed, first_error, cancel, pc, group, left,
              active, used, aimd, now, pushback>>

Never == -1

NoGroup == [pack |-> {}, chunks |-> {}]

span(g) == Min({Cardinality(g.chunks), MaxBytes})

------------------------------------------------------------------------------
(* The controller.                                                           *)

AimdController == [limit         |-> InitialLimit,
                   window_start  |-> 0,
                   pressure      |-> FALSE,
                   last_decrease |-> Never]

on_success_ignoring_pressure ==
    IF now - aimd.window_start < Window
    THEN aimd
    ELSE [aimd EXCEPT !.limit = Min({@ + 1, Cardinality(Workers)}),
                      !.window_start = now,
                      !.pressure = FALSE]

(* A window that closes clean earns one more connection.                     *)
on_success ==
    IF now - aimd.window_start < Window
    THEN aimd
    ELSE [aimd EXCEPT !.limit = IF ~aimd.pressure
                                THEN Min({@ + 1, Cardinality(Workers)}) ELSE @,
                      !.window_start = now,
                      !.pressure = FALSE]

(* Every push-back spoils the window; one per cooldown halves the limit.     *)
on_pressure ==
    LET counted == [aimd EXCEPT !.pressure = TRUE]
        cooled  == \/ aimd.last_decrease = Never
                   \/ now - aimd.last_decrease >= Window
        lower   == Max({aimd.limit \div 2, MinLimit})
    IN  IF cooled /\ lower < aimd.limit
        THEN [counted EXCEPT !.limit = lower, !.last_decrease = now]
        ELSE counted

------------------------------------------------------------------------------
(* The workers.                                                              *)

To(w, place) == pc' = [pc EXCEPT ![w] = place]

loop_cancelling_silently(w) ==
    /\ pc[w] = "loop"
    /\ failed' = (failed \/ cancel)
    /\ To(w, IF failed \/ cancel THEN "done" ELSE "gate")
    /\ UNCHANGED <<packs, cache, missing, next, first_error, cancel, group,
                   left, active, used, aimd, now, pushback, trouble>>

(* The head of the loop: stop after a failure, or report a cancellation.     *)
loop(w) ==
    /\ pc[w] = "loop"
    /\ failed' = (failed \/ cancel)
    /\ first_error' = IF ~failed /\ cancel /\ first_error = "none"
                      THEN "cancelled" ELSE first_error
    /\ To(w, IF failed \/ cancel THEN "done" ELSE "gate")
    /\ UNCHANGED <<packs, cache, missing, next, cancel, group, left, active,
                   used, aimd, now, pushback, trouble>>

(* Gate::enter: take a slot below the limit, or park; give up if failed.     *)
enter(w) ==
    /\ pc[w] = "gate"
    /\ IF active < Max({aimd.limit, 1})
       THEN active' = active + 1 /\ To(w, "claim")
       ELSE active' = active /\ To(w, IF failed THEN "done" ELSE "parked")
    /\ UNCHANGED <<packs, cache, missing, next, failed, first_error, cancel,
                   group, left, used, aimd, now, pushback, trouble>>

(* A parked worker looks again after GATE_POLL, or when a slot is freed.     *)
wake(w) ==
    /\ pc[w] = "parked"
    /\ To(w, "gate")
    /\ UNCHANGED <<packs, cache, missing, next, failed, first_error, cancel,
                   group, left, active, used, aimd, now, pushback, trouble>>

(* Claim the next group; past the last one the worker leaves.                *)
claim(w) ==
    /\ pc[w] = "claim"
    /\ next' = next + 1
    /\ IF next > Len(missing)
       THEN To(w, "exit") /\ UNCHANGED <<group, left>>
       ELSE /\ To(w, "budget")
            /\ group' = [group EXCEPT ![w] = missing[next]]
            /\ left' = [left EXCEPT ![w] = missing[next].chunks]
    /\ UNCHANGED <<packs, cache, missing, failed, first_error, cancel, active,
                   used, aimd, now, pushback, trouble>>

(* ByteBudget::acquire: take the bytes, or sleep until some are given back.  *)
acquire(w) ==
    /\ pc[w] = "budget"
    /\ IF used + span(group[w]) <= MaxBytes
       THEN used' = used + span(group[w]) /\ To(w, "get")
       ELSE used' = used /\ To(w, "blocked")
    /\ UNCHANGED <<packs, cache, missing, next, failed, first_error, cancel,
                   group, left, active, aimd, now, pushback, trouble>>

(* The remote answers a range of the worker's pack, or does not: the pack is *)
(* cut short or gone, or this one answer is bad.                             *)
whole(p) == p \in DOMAIN packs /\ packs[p] = "whole"

answered(w) == group[w].pack \in DOMAIN packs

unanswered(w) == trouble \/ ~whole(group[w].pack)

(* get_range_retrying: the first bad answer is push-back and one more try,   *)
(* the second is an error.                                                   *)
get_range(w, first, second, then) ==
    /\ UNCHANGED <<packs, cache, missing, next, failed, first_error, cancel,
                   group, left, active, used, now, trouble>>
    /\ \/ /\ pc[w] \in {first, second}
          /\ answered(w)
          /\ To(w, then)
          /\ UNCHANGED <<aimd, pushback>>
       \/ /\ pc[w] = first
          /\ unanswered(w)
          /\ aimd' = on_pressure
          /\ pushback' = now
          /\ To(w, second)
       \/ /\ pc[w] = second
          /\ unanswered(w)
          /\ To(w, "error")
          /\ UNCHANGED <<aimd, pushback>>

get_group(w) == get_range(w, "get", "get again", "decode")

get_alone(w) == get_range(w, "alone", "alone again", "decode alone")

(* Verify and cache the next chunk.  One that does not verify is fetched     *)
(* alone, and a second time that is an error.                                *)
decode(w) ==
    /\ pc[w] \in {"decode", "decode alone"}
    /\ left[w] # {}
    /\ \/ /\ cache' = cache \union {Min(left[w])}
          /\ left' = [left EXCEPT ![w] = @ \ {Min(left[w])}]
          /\ To(w, "decode")
       \/ /\ trouble
          /\ To(w, IF pc[w] = "decode" THEN "alone" ELSE "error")
          /\ UNCHANGED <<cache, left>>
    /\ UNCHANGED <<packs, missing, next, failed, first_error, cancel, group,
                   active, used, aimd, now, pushback, trouble>>

(* The whole group is in the cache.                                          *)
succeed(w) ==
    /\ pc[w] = "decode"
    /\ left[w] = {}
    /\ aimd' = on_success
    /\ To(w, "release")
    /\ UNCHANGED <<packs, cache, missing, next, failed, first_error, cancel,
                   group, left, active, used, now, pushback, trouble>>

(* The group could not be fetched: push-back, and the pool fails.            *)
fail(w) ==
    /\ pc[w] = "error"
    /\ aimd' = on_pressure
    /\ pushback' = now
    /\ first_error' = IF first_error = "none" THEN "transfer" ELSE first_error
    /\ failed' = TRUE
    /\ To(w, "release failed")
    /\ UNCHANGED <<packs, cache, missing, next, cancel, group, left, active,
                   used, now, trouble>>

release_waking_nobody(w) ==
    /\ pc[w] \in {"release", "release failed"}
    /\ used' = used - span(group[w])
    /\ To(w, IF pc[w] = "release" THEN "leave" ELSE "exit")
    /\ group' = [group EXCEPT ![w] = NoGroup]
    /\ left' = [left EXCEPT ![w] = {}]
    /\ UNCHANGED <<packs, cache, missing, next, failed, first_error, cancel,
                   active, aimd, now, pushback, trouble>>

(* The permit is dropped: the bytes go back and every sleeper looks again.   *)
release(w) ==
    /\ pc[w] \in {"release", "release failed"}
    /\ used' = used - span(group[w])
    /\ LET awake == [v \in Workers |-> IF pc[v] = "blocked" THEN "budget" ELSE pc[v]]
       IN  pc' = [awake EXCEPT ![w] = IF pc[w] = "release" THEN "leave" ELSE "exit"]
    /\ group' = [group EXCEPT ![w] = NoGroup]
    /\ left' = [left EXCEPT ![w] = {}]
    /\ UNCHANGED <<packs, cache, missing, next, failed, first_error, cancel,
                   active, aimd, now, pushback, trouble>>

leave_without_slot(w) ==
    /\ pc[w] \in {"leave", "exit"}
    /\ active' = IF pc[w] = "leave" THEN active - 1 ELSE active
    /\ To(w, IF pc[w] = "leave" THEN "loop" ELSE "done")
    /\ UNCHANGED <<packs, cache, missing, next, failed, first_error, cancel,
                   group, left, used, aimd, now, pushback, trouble>>

(* The slot is dropped, after the bytes; the worker loops or returns.        *)
leave(w) ==
    /\ pc[w] \in {"leave", "exit"}
    /\ active' = active - 1
    /\ To(w, IF pc[w] = "leave" THEN "loop" ELSE "done")
    /\ UNCHANGED <<packs, cache, missing, next, failed, first_error, cancel,
                   group, left, used, aimd, now, pushback, trouble>>

Worker(w) ==
    \/ loop(w) \/ enter(w) \/ wake(w) \/ claim(w) \/ acquire(w)
    \/ get_group(w) \/ get_alone(w) \/ decode(w) \/ succeed(w) \/ fail(w)
    \/ release(w) \/ leave(w)

------------------------------------------------------------------------------
(* The pool.                                                                 *)

Joined == \A w \in Workers : pc[w] \in {"idle", "done"}

Running == \E w \in Workers : pc[w] \notin {"idle", "done"}

(* fetch_missing_parallel up to the spawn: as many workers as groups.        *)
spawn(groups) ==
    /\ missing' = groups
    /\ next' = 1
    /\ failed' = FALSE
    /\ first_error' = "none"
    /\ cancel' = FALSE
    /\ LET size == Min({Cardinality(Workers), Len(groups)})
           crew == {SetToSeq(Workers)[i] : i \in 1..size}
       IN  pc' = [w \in Workers |-> IF w \in crew THEN "loop" ELSE "done"]
    /\ group' = [w \in Workers |-> NoGroup]
    /\ left' = [w \in Workers |-> {}]
    /\ active' = 0
    /\ aimd' = AimdController
    /\ now' = 0
    /\ pushback' = Never
    /\ UNCHANGED <<used, packs, cache, trouble>>

(* The call returns and the pool is gone with its scope.                     *)
PoolGone ==
    /\ missing' = <<>> /\ next' = 1
    /\ failed' = FALSE /\ first_error' = "none" /\ cancel' = FALSE
    /\ pc' = [w \in Workers |-> "idle"]
    /\ group' = [w \in Workers |-> NoGroup]
    /\ left' = [w \in Workers |-> {}]
    /\ active' = 0 /\ aimd' = AimdController
    /\ now' = 0 /\ pushback' = Never
    /\ UNCHANGED <<used, packs, cache, trouble>>

(* The caller gives up.                                                      *)
cancel_fetch ==
    /\ Running
    /\ trouble /\ ~cancel
    /\ cancel' = TRUE
    /\ UNCHANGED <<packs, cache, missing, next, failed, first_error, pc,
                   group, left, active, used, aimd, now, pushback, trouble>>

tick ==
    /\ Running
    /\ now < MaxTime
    /\ now' = now + 1
    /\ UNCHANGED <<packs, cache, missing, next, failed, first_error, cancel,
                   pc, group, left, active, used, aimd, pushback, trouble>>

PoolInit ==
    /\ cache = {} /\ missing = <<>> /\ next = 1
    /\ failed = FALSE /\ first_error = "none" /\ cancel = FALSE
    /\ pc = [w \in Workers |-> "idle"]
    /\ group = [w \in Workers |-> NoGroup]
    /\ left = [w \in Workers |-> {}]
    /\ active = 0 /\ used = 0 /\ aimd = AimdController
    /\ now = 0 /\ pushback = Never /\ trouble = FALSE

PoolNext == (\E w \in Workers : Worker(w)) \/ cancel_fetch \/ tick

------------------------------------------------------------------------------
(* What the pool promises.                                                   *)

(* Who is between enter and the drop of its slot, who of them has a permit   *)
(* of the budget, and the bytes that are in flight for it.                   *)
holding == {w \in Workers : pc[w] \notin {"idle", "loop", "gate", "parked", "done"}}

loading == {w \in holding : pc[w] \notin {"claim", "budget", "blocked", "leave", "exit"}}

in_flight == {b \in loading \X (1..MaxBytes) : b[2] <= span(group[b[1]])}

(* The gate counts exactly the workers that hold a slot, and the budget      *)
(* exactly the bytes in flight; these never exceed the budget, however large *)
(* a group is.  The limit the workers share stays between its floor and the  *)
(* size of the pool.                                                         *)
SlotsExact ==
    /\ active = Cardinality(holding)
    /\ used = Cardinality(in_flight)
    /\ used <= MaxBytes
    /\ aimd.limit \in MinLimit..Cardinality(Workers)

(* A pool that joins without an error has cached every chunk it was started  *)
(* for: a worker that stops early always leaves a reason behind.             *)
JoinComplete ==
    Joined /\ first_error = "none" =>
        \A i \in DOMAIN missing : missing[i].chunks \subseteq cache

(* The limit is raised only when the remote has not pushed back for a whole  *)
(* window, also when the push-back came while the limit could not be halved. *)
QuietBeforeRaise ==
    [][Running /\ aimd'.limit > aimd.limit =>
           pushback = Never \/ now - pushback >= Window]_<<aimd, pushback, now>>

(* Every fetch comes to an end: no worker stays parked at the gate or asleep *)
(* on the budget once the others are done.                                   *)
Joins == Running ~> Joined
=============================================================================
