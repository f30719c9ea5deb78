---------------------------- MODULE ObjectGraph ----------------------------
(***************************************************************************)
(* The object graph of cavs-object: a store of content-addressed objects   *)
(* that name the objects they depend on, a writer that stores a graph and  *)
(* then publishes its root, a transfer that plans what the receiver lacks  *)
(* and imports it, and the collector that deletes what no root reaches.    *)
(* The three run side by side and any of them may die between two objects. *)
(*                                                                         *)
(* The library leaves to its caller who publishes roots, which leases a    *)
(* collection is given and who carries a transfer; those actions are       *)
(* marked external.  Time is counted in ticks, and an object's modification*)
(* time is the tick it was written in.  An id stands for its content, so   *)
(* that a hash mismatch is not a state of this model, and a cycle cannot   *)
(* be built.  Object lists come in id order, which is the order of hashes: *)
(* the collector takes them in any order.                                  *)
(***************************************************************************)
EXTENDS Integers, Sequences, FiniteSets, SequencesExt, FiniteSetsExt, Orders

CONSTANTS
    Objects,     \* the objects there are
    Deps,        \* object -> the sequence of its dependencies
    Payload,     \* the objects of kind Chunk
    Roots,       \* the objects a reference may name
    Sources,     \* what the sender of a transfer may hold
    Grace,       \* GcOptions.grace
    MaxTime,     \* bound: ticks
    MaxCrashes,  \* bound: writers, imports and collections that die
    MaxMoves     \* bound: transactions, transfers and dropped roots

ASSUME ObjectAssumption ==
    /\ IsFiniteSet(Objects)
    /\ Deps \in [Objects -> Seq(Objects)]
    /\ Payload \subseteq Objects /\ \A o \in Payload : Deps[o] = <<>>
    /\ Roots \subseteq Objects \ Payload /\ Roots # {}
    /\ \A s \in Sources : s \subseteq Objects
    /\ {Grace, MaxTime, MaxCrashes, MaxMoves} \subseteq Nat

VARIABLES
    store,    \* the loose objects
    mtime,    \* when each was last written
    now,      \* the time
    roots,    \* what the references name
    txn,      \* the writer
    gc,       \* the collection
    xf,       \* the transfer
    kept,     \* ghost: roots whose graph nothing had condemned when they were published
    crashes,  \* processes that died
    moves     \* transactions, transfers and dropped roots so far

vars == <<store, mtime, now, roots, txn, gc, xf, kept, crashes, moves>>

-----------------------------------------------------------------------------
(* The walk.                                                               *)

\* Every object's dependencies are there: what a have-set claims.
Closed(s) == \A o \in s : Range(Deps[o]) \subseteq s

\* The objects reachable from o, the least closed set it is in: the definition
\* the walk is held against.
Closures ==
    [o \in Objects |->
        {x \in Objects : \A s \in SUBSET Objects : o \in s /\ Closed(s) => x \in s}]

Closure(o) == Closures[o]

\* prune_last: drop what the last visit queued, the top of the stack.
prune_last_everything(pending, pushed) ==
    <<>>

prune_last(pending, pushed) ==
    SubSeq(pending, pushed + 1, Len(pending))

is_definite(form) ==
    form = "exact"

\* The dependencies of id that are not in `seen`, in their order.
Fresh(id, seen) ==
    AtPlaces(Deps[id], {i \in DOMAIN Deps[id] : Deps[id][i] \notin seen})

\* A walk between two visits; its stack is written top first.
Walk(rs) ==
    [pending |-> rs, visited |-> {}, missing |-> <<>>, uncertain |-> <<>>,
     absent |-> {}, failed |-> FALSE]

\* One turn of next_visit, with what compute_missing makes of the visit.  The
\* options q: what the source holds, the have-set and its form, whether an
\* absent object is an error, and whether payload is left out.
Visit(s, q) ==
    LET id     == Head(s.pending)
        seen   == [s EXCEPT !.pending = Tail(@), !.visited = @ \cup {id}]
        fresh  == Fresh(id, seen.visited)
        pushed == fresh \o seen.pending
        held   == id \in q.have
    IN  IF id \in s.visited
        THEN [s EXCEPT !.pending = Tail(@)]
        ELSE IF id \notin q.source
        THEN IF q.strict THEN [seen EXCEPT !.pending = <<>>, !.failed = TRUE]
             ELSE IF held /\ is_definite(q.form) THEN seen
             ELSE [seen EXCEPT !.absent = @ \cup {id}]
        ELSE IF q.meta /\ id \in Payload
        THEN seen
        ELSE IF held /\ is_definite(q.form)
        THEN [seen EXCEPT !.pending = prune_last(pushed, Len(fresh))]
        ELSE IF held
        THEN [seen EXCEPT !.pending = pushed, !.uncertain = Append(@, id)]
        ELSE [seen EXCEPT !.pending = pushed, !.missing = Append(@, id)]

-----------------------------------------------------------------------------
(* State.                                                                  *)

AnyRoot == CHOOSE r \in Roots : TRUE

NoTxn == [pc |-> "idle", root |-> AnyRoot, todo |-> {}, reused |-> {}]
NoGc  == [pc |-> "idle", frozen |-> {}, walk |-> Walk(<<>>), cutoff |-> 0, leases |-> {},
          cand |-> {}]
NoXf  == [pc |-> "idle", root |-> AnyRoot, form |-> "exact", meta |-> FALSE, source |-> {},
          claimed |-> {}, walk |-> Walk(<<>>), table |-> <<>>, uncertain |-> <<>>, pre |-> {},
          complete |-> FALSE, sound |-> FALSE]

Init ==
    /\ store = {}
    /\ mtime = [o \in Objects |-> 0]
    /\ now = 0
    /\ roots = {}
    /\ txn = NoTxn
    /\ gc = NoGc
    /\ xf = NoXf
    /\ kept = {}
    /\ crashes = 0
    /\ moves = 0

Move ==
    /\ moves < MaxMoves
    /\ moves' = moves + 1

-----------------------------------------------------------------------------
(* Storing and publishing.                                                 *)

\* put_object: an object that is there is left as it is, its time included.
put_object(o) ==
    IF o \in store THEN UNCHANGED <<store, mtime>>
    ELSE /\ store' = store \cup {o}
         /\ mtime' = [mtime EXCEPT ![o] = now]

\* written_since: an object that cannot be dated is kept.
written_since_epoch(o, cutoff) ==
    o \notin store

written_since(o, cutoff) ==
    o \in store => mtime[o] > cutoff

\* The objects a sweep is about to delete: it has looked at the roots for the
\* last time.
Doomed ==
    {o \in gc.cand : gc.pc = "sweep" /\ ~written_since(o, gc.cutoff)}

\* External: the caller's reference store takes a new root.
publish(r) ==
    /\ roots' = roots \cup {r}
    /\ kept' = IF r \notin roots \cup gc.frozen /\ Closure(r) \subseteq store \ Doomed
               THEN kept \cup {r} ELSE kept

\* External: a branch is deleted.
drop_root(r) ==
    /\ r \in roots
    /\ Move
    /\ roots' = roots \ {r}
    /\ kept' = kept \ {r}
    /\ UNCHANGED <<store, mtime, now, txn, gc, xf, crashes>>

\* External: a writer sets out to store a graph.
begin(r) ==
    /\ txn.pc = "idle"
    /\ Move
    /\ txn' = [pc |-> "putting", root |-> r, todo |-> Closure(r), reused |-> {}]
    /\ UNCHANGED <<store, mtime, now, roots, gc, xf, kept, crashes>>

\* It stores one object, whose id it can only know once its dependencies are
\* stored.
txn_put(o) ==
    /\ txn.pc = "putting"
    /\ o \in txn.todo
    /\ Range(Deps[o]) \cap txn.todo = {}
    /\ put_object(o)
    /\ txn' = [txn EXCEPT !.todo = @ \ {o},
                          !.reused = IF o \in store THEN @ \cup {o} ELSE @]
    /\ UNCHANGED <<now, roots, gc, xf, kept, crashes, moves>>

\* External: it flushes the store and names the root.
txn_publish ==
    /\ txn.pc = "putting"
    /\ txn.todo = {}
    /\ publish(txn.root)
    /\ txn' = NoTxn
    /\ UNCHANGED <<store, mtime, now, gc, xf, crashes, moves>>

-----------------------------------------------------------------------------
(* Collecting.                                                             *)

\* collect reads the roots.  Its caller hands it the ids the running
\* transaction works with, or none.
gc_freeze ==
    /\ gc.pc = "idle"
    /\ \E leases \in {{}, IF txn.pc = "idle" THEN {} ELSE Closure(txn.root)} :
          gc' = [NoGc EXCEPT !.pc = "mark", !.frozen = roots, !.leases = leases,
                             !.walk = Walk(SetToSeq(roots))]
    /\ UNCHANGED <<store, mtime, now, roots, txn, xf, kept, crashes, moves>>

\* walk_reachable over the store, one object at a time; an absent object is
\* reported and not an error.
gc_mark ==
    /\ gc.pc = "mark" /\ gc.walk.pending # <<>>
    /\ gc' = [gc EXCEPT !.walk = Visit(@, [source |-> store, have |-> {}, form |-> "exact",
                                          strict |-> FALSE, meta |-> FALSE])]
    /\ UNCHANGED <<store, mtime, now, roots, txn, xf, kept, crashes, moves>>

\* It fixes the cutoff and lists what is unreachable, unclaimed and old.
gc_list ==
    /\ gc.pc = "mark" /\ gc.walk.pending = <<>>
    /\ LET cutoff == now - Grace
           reach  == Range(gc.walk.missing)
           cand   == {o \in store \ (reach \cup gc.leases) : ~written_since(o, cutoff)}
       IN  gc' = IF cand = {} THEN NoGc
                 ELSE [NoGc EXCEPT !.pc = "look", !.frozen = gc.frozen,
                                   !.cutoff = cutoff, !.cand = cand]
    /\ UNCHANGED <<store, mtime, now, roots, txn, xf, kept, crashes, moves>>

\* It reads the roots again, and deletes nothing when they moved.  A dry run
\* goes on to report and deletes nothing either.
gc_look_once ==
    /\ gc.pc = "look"
    /\ gc' \in {NoGc, [gc EXCEPT !.pc = "sweep", !.frozen = {}]}
    /\ UNCHANGED <<store, mtime, now, roots, txn, xf, kept, crashes, moves>>

gc_look ==
    /\ gc.pc = "look"
    /\ \E dry \in BOOLEAN :
         gc' = IF dry \/ roots # gc.frozen THEN NoGc
               ELSE [gc EXCEPT !.pc = "sweep", !.frozen = {}]
    /\ UNCHANGED <<store, mtime, now, roots, txn, xf, kept, crashes, moves>>

\* It dates one object a last time and deletes it.
gc_sweep(o) ==
    /\ gc.pc = "sweep"
    /\ o \in gc.cand
    /\ IF written_since(o, gc.cutoff) THEN UNCHANGED <<store, mtime>>
       ELSE /\ store' = store \ {o}
            /\ mtime' = [mtime EXCEPT ![o] = 0]
    /\ gc' = IF gc.cand = {o} THEN NoGc ELSE [gc EXCEPT !.cand = @ \ {o}]
    /\ xf' = [xf EXCEPT !.sound = @ /\ store' = store]
    /\ UNCHANGED <<now, roots, txn, kept, crashes, moves>>

-----------------------------------------------------------------------------
(* Transfers.                                                              *)

prerequisites(table, have) ==
    {o \in UNION {Range(Deps[d]) : d \in Range(table)} :
        o \notin Range(table) /\ o \in have}

\* create_bundle for a root, without a have-set or with all the receiver holds.
create_bundle(r) ==
    /\ xf.pc = "idle"
    /\ Move
    /\ \E source \in Sources, meta \in BOOLEAN, have \in {{}, store} :
         xf' = [NoXf EXCEPT !.pc = "planning", !.root = r, !.meta = meta, !.source = source,
                            !.claimed = have, !.walk = Walk(<<r>>)]
    /\ UNCHANGED <<store, mtime, now, roots, txn, gc, kept, crashes>>

\* Negotiation with a filter: compute_missing against a Bloom filter over what
\* the receiver holds, which may also claim what it does not hold.
negotiate(r) ==
    /\ xf.pc = "idle"
    /\ store # {}
    /\ Move
    /\ \E source \in Sources, meta \in BOOLEAN, false_positives \in SUBSET (Closure(r) \ store) :
         xf' = [NoXf EXCEPT !.pc = "planning", !.root = r, !.form = "bloom", !.meta = meta,
                            !.source = source, !.claimed = store \cup false_positives,
                            !.walk = Walk(<<r>>)]
    /\ UNCHANGED <<store, mtime, now, roots, txn, gc, kept, crashes>>

\* The sender's walk, one object at a time.  A bundle needs every object.
compute_missing ==
    /\ xf.pc = "planning" /\ xf.walk.pending # <<>>
    /\ xf' = [xf EXCEPT !.walk = Visit(@, [source |-> xf.source, have |-> xf.claimed,
                                          form |-> xf.form, strict |-> xf.form = "exact",
                                          meta |-> xf.meta])]
    /\ UNCHANGED <<store, mtime, now, roots, txn, gc, kept, crashes, moves>>

\* What it found is offered, unless the sender lacks some of it.
offer ==
    /\ xf.pc = "planning" /\ xf.walk.pending = <<>>
    /\ xf' = IF xf.walk.failed \/ xf.walk.absent # {} THEN NoXf
             ELSE [xf EXCEPT !.pc = "offered", !.source = {}, !.walk = Walk(<<>>),
                             !.table = xf.walk.missing, !.uncertain = xf.walk.uncertain,
                             !.pre = IF xf.form = "exact"
                                     THEN prerequisites(xf.walk.missing, xf.claimed) ELSE {}]
    /\ UNCHANGED <<store, mtime, now, roots, txn, gc, kept, crashes, moves>>

\* verify_open: what the bundle's objects name and nobody has.
dangling ==
    (UNION {Range(Deps[o]) : o \in Range(xf.table)}) \ (Range(xf.table) \cup xf.pre)

\* import_bundle refuses a bundle with a gap, and notes the prerequisites that
\* are not there.
import_begin_trusting ==
    /\ xf.pc = "offered"
    /\ xf.form = "exact"
    /\ xf' = IF dangling # {} THEN NoXf
             ELSE [xf EXCEPT !.pc = "importing", !.complete = TRUE,
                             !.sound = Closed(store) /\ xf.root \notin xf.claimed]
    /\ UNCHANGED <<store, mtime, now, roots, txn, gc, kept, crashes, moves>>

import_begin ==
    /\ xf.pc = "offered"
    /\ xf.form = "exact"
    /\ xf' = IF dangling # {} THEN NoXf
             ELSE [xf EXCEPT !.pc = "importing", !.complete = xf.pre \subseteq store,
                             !.sound = Closed(store) /\ xf.root \notin xf.claimed]
    /\ UNCHANGED <<store, mtime, now, roots, txn, gc, kept, crashes, moves>>

\* Those of a list that the store lacks.
Lacking(list) ==
    AtPlaces(list, {i \in DOMAIN list : list[i] \notin store})

\* External: the receiver answers which of the uncertain objects it lacks, and
\* the sender adds them to what it sends.
confirm ==
    /\ xf.pc = "offered"
    /\ xf.form = "bloom"
    /\ xf' = [xf EXCEPT !.pc = "importing", !.complete = TRUE, !.sound = TRUE,
                        !.table = @ \o Lacking(xf.uncertain)]
    /\ UNCHANGED <<store, mtime, now, roots, txn, gc, kept, crashes, moves>>

\* One object of the table is stored, unless the store has it.
import_object ==
    /\ xf.pc = "importing"
    /\ xf.table # <<>>
    /\ put_object(Head(xf.table))
    /\ xf' = [xf EXCEPT !.table = Tail(@)]
    /\ UNCHANGED <<now, roots, txn, gc, kept, crashes, moves>>

\* External: a caller takes up the root the bundle offers when the import says
\* it is complete.
import_publish ==
    /\ xf.pc = "importing"
    /\ xf.table = <<>>
    /\ IF xf.complete /\ ~xf.meta THEN publish(xf.root) ELSE UNCHANGED <<roots, kept>>
    /\ xf' = NoXf
    /\ UNCHANGED <<store, mtime, now, txn, gc, crashes, moves>>

-----------------------------------------------------------------------------
\* External: time passes.
tick ==
    /\ now < MaxTime
    /\ now' = now + 1
    /\ UNCHANGED <<store, mtime, roots, txn, gc, xf, kept, crashes, moves>>

\* External: a process dies.
crash ==
    /\ crashes < MaxCrashes
    /\ crashes' = crashes + 1
    /\ \/ txn.pc # "idle" /\ txn' = NoTxn /\ UNCHANGED <<gc, xf>>
       \/ gc.pc # "idle" /\ gc' = NoGc /\ UNCHANGED <<txn, xf>>
       \/ xf.pc # "idle" /\ xf' = NoXf /\ UNCHANGED <<txn, gc>>
    /\ UNCHANGED <<store, mtime, now, roots, kept, moves>>

Next ==
    \/ \E r \in Roots : drop_root(r) \/ begin(r) \/ create_bundle(r) \/ negotiate(r)
    \/ \E o \in Objects : txn_put(o) \/ gc_sweep(o)
    \/ txn_publish \/ gc_freeze \/ gc_mark \/ gc_list \/ gc_look
    \/ compute_missing \/ offer \/ import_begin \/ confirm \/ import_object \/ import_publish
    \/ tick \/ crash

Spec == Init /\ [][Next]_vars

-----------------------------------------------------------------------------
(* Properties.                                                             *)

\* collect re-reads the roots before it deletes, so that a collection which
\* races a commit loses the race and not the data.  Precisely: the graph of a
\* root published whole stays whole while the root is published, unless a sweep
\* past its second look had an object of it on its list at that moment.  (A
\* root whose graph is completed after it was published, or that comes back
\* during the collection that froze it, moves nothing the second look can see,
\* and is not covered.)
PublishedComplete ==
    \A r \in kept : Closure(r) \subseteq store

\* The grace period keeps a half-finished transaction's work: nothing a writer
\* has stored for the root it is about to publish is deleted, unless it was
\* written longer ago than the grace period or was there already.
TransactionIntact ==
    [][\A o \in store \ store' :
          (/\ txn.pc = "putting"
           /\ o \in Closure(txn.root) \ (txn.todo \cup txn.reused))
          => mtime[o] <= now - Grace]_vars

\* What the receiver lacks of a graph when it holds `have` and everything under
\* it: reached from r without passing through an object it holds.
Lacks(r, have) ==
    {x \in Objects : \A s \in SUBSET Objects :
        /\ {r} \ have \subseteq s
        /\ \A o \in s : Range(Deps[o]) \ have \subseteq s
        => x \in s}

\* compute_missing lists every object once and what the definition says: a list
\* of ids prunes below each hit and nowhere else, a filter prunes nothing and
\* reports its hits as uncertain.
PlanIsReference ==
    LET sent == IF xf.meta THEN Objects \ Payload ELSE Objects
        list == xf.table \o xf.uncertain
    IN  xf.pc = "offered" =>
            /\ Len(list) = Cardinality(Range(list))
            /\ xf.form = "exact" => Range(xf.table) = Lacks(xf.root, xf.claimed) \cap sent
            /\ xf.form = "bloom" => /\ Range(list) = Closure(xf.root) \cap sent
                                    /\ Range(xf.uncertain) = Range(list) \cap xf.claimed

\* An import that reports itself complete leaves the whole graph in the store,
\* also when the have-set the bundle was built for has become stale: provided
\* that the store was closed when the prerequisites were checked, that nothing
\* was deleted since, and that the root itself was not claimed.
ImportCloses ==
    (/\ xf.pc = "importing"
     /\ xf.table = <<>>
     /\ xf.complete
     /\ xf.sound)
    => Closure(xf.root) \ (IF xf.meta /\ xf.form = "bloom" THEN Payload ELSE {})
         \subseteq store
=============================================================================
