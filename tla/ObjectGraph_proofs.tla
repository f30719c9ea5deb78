------------------------- MODULE ObjectGraph_proofs -------------------------
(***************************************************************************)
(* Proofs about the object graph: a collection never deletes an object of  *)
(* a graph that was published whole, a plan lists what the receiver lacks, *)
(* and an import that calls itself complete is.                            *)
(***************************************************************************)
EXTENDS ObjectGraph, Orders_proofs, SequenceTheorems

-----------------------------------------------------------------------------
(* The inductive invariant *)

Walks == [pending : Seq(Objects), visited : SUBSET Objects, missing : Seq(Objects),
          uncertain : Seq(Objects), absent : SUBSET Objects, failed : BOOLEAN]

Txns == [pc : {"idle", "putting"}, root : Roots, todo : SUBSET Objects, reused : SUBSET Objects]
Gcs  == [pc : {"idle", "mark", "look", "sweep"}, frozen : SUBSET Roots, walk : Walks,
         cutoff : Int, leases : SUBSET Objects, cand : SUBSET Objects]
Xfs  == [pc : {"idle", "planning", "offered", "importing"}, root : Roots,
         form : {"exact", "bloom"}, meta : BOOLEAN, source : SUBSET Objects,
         claimed : SUBSET Objects, walk : Walks, table : Seq(Objects),
         uncertain : Seq(Objects), pre : SUBSET Objects,
         complete : BOOLEAN, sound : BOOLEAN]

Types ==
    /\ store \subseteq Objects
    /\ mtime \in [Objects -> Int]
    /\ now \in Int
    /\ roots \subseteq Roots
    /\ txn \in Txns
    /\ gc \in Gcs
    /\ xf \in Xfs
    /\ kept \subseteq roots

\* What a walk has come to or still has before it.
Reached(w) == w.visited \cup Range(w.pending)

\* While it marks, a collection has before it whatever the objects it marked
\* name, and it has marked what it has visited of a graph that is whole.
Marking ==
    gc.pc = "mark" =>
        /\ gc.frozen \subseteq Reached(gc.walk)
        /\ \A x \in Range(gc.walk.missing) : Range(Deps[x]) \subseteq Reached(gc.walk)
        /\ \A r \in kept \cap gc.frozen :
              Closure(r) \cap gc.walk.visited \subseteq Range(gc.walk.missing)

\* Its list spares the graphs of the roots it has seen, and once it has looked
\* again those of all.
Looking ==
    gc.pc = "look" => \A r \in kept \cap gc.frozen : Closure(r) \cap gc.cand = {}

Sweeping ==
    \A r \in kept : Closure(r) \cap Doomed = {}

\* The cutoff is at least a grace period ago.
Aged ==
    gc.pc \in {"look", "sweep"} => gc.cutoff <= now - Grace

GcInv == PublishedComplete /\ Marking /\ Looking /\ Sweeping /\ Aged

\* What a transfer asks for: all kinds, or all but payload.
Sent(x) == ~(xf.meta /\ x \in Payload)

\* While it plans, the sender has before it whatever the objects it listed
\* name, and nothing that the definition does not ask for.
Planning ==
    LET w == xf.walk IN
    xf.pc = "planning" /\ ~w.failed =>
        /\ xf.root \in Reached(w)
        /\ Len(w.missing) = Cardinality(Range(w.missing))
        /\ Len(w.uncertain) = Cardinality(Range(w.uncertain))
        /\ Range(w.missing) \cup Range(w.uncertain) \subseteq {x \in w.visited : Sent(x)}
        /\ Range(w.missing) \cap xf.claimed = {}
        /\ Range(w.uncertain) \subseteq xf.claimed
        /\ xf.form = "exact" => w.uncertain = <<>>
        /\ \A x \in Range(w.missing) \cup Range(w.uncertain) : Range(Deps[x]) \subseteq Reached(w)
        /\ w.absent = {} =>
             \A x \in w.visited : Sent(x) =>
                 \/ x \in Range(w.missing) \cup Range(w.uncertain)
                 \/ xf.form = "exact" /\ x \in xf.claimed
        /\ xf.form = "exact" => Reached(w) \ xf.claimed \subseteq Lacks(xf.root, xf.claimed)
        /\ xf.form = "bloom" => Reached(w) \subseteq Closure(xf.root)

\* What the import has not stored yet is in its table.
Importing ==
    (xf.pc = "importing" /\ xf.complete /\ xf.sound) =>
        Closure(xf.root) \ (IF xf.meta /\ xf.form = "bloom" THEN Payload ELSE {})
          \subseteq store \cup Range(xf.table)

XfInv == Planning /\ PlanIsReference /\ Importing

Inv == Types /\ GcInv /\ XfInv

-----------------------------------------------------------------------------
(* Closures *)

\* The closure of an object is closed, has it, and is the least such set.
LEMMA ClosureLeast ==
  ASSUME NEW o \in Objects
  PROVE  /\ o \in Closure(o) /\ Closure(o) \subseteq Objects
         /\ \A x \in Closure(o) : Range(Deps[x]) \subseteq Closure(o)
         /\ \A s \in SUBSET Objects : o \in s /\ Closed(s) => Closure(o) \subseteq s
<1>1. Closure(o) = {x \in Objects : \A s \in SUBSET Objects : o \in s /\ Closed(s) => x \in s}
  BY DEF Closure, Closures
<1>2. ASSUME NEW x \in Closure(o), NEW d \in Range(Deps[x])
      PROVE  d \in Closure(o)
  <2>1. x \in Objects
    BY <1>1
  <2>2. d \in Objects
    BY <2>1, ObjectAssumption DEF Range, ObjectAssumption
  <2>3. ASSUME NEW s \in SUBSET Objects, o \in s, Closed(s)
        PROVE  d \in s
    <3>1. x \in s
      BY <1>1, <2>3
    <3>2. QED
      BY <2>3, <3>1 DEF Closed
  <2>4. QED
    BY <1>1, <2>2, <2>3
<1>3. QED
  BY <1>1, <1>2

\* So is what a receiver lacks, up to what it holds.
LEMMA LacksLeast ==
  ASSUME NEW r \in Objects, NEW have
  PROVE  /\ {r} \ have \subseteq Lacks(r, have) /\ Lacks(r, have) \subseteq Objects
         /\ \A x \in Lacks(r, have) : Range(Deps[x]) \ have \subseteq Lacks(r, have)
         /\ \A s \in SUBSET Objects :
              {r} \ have \subseteq s /\ (\A o \in s : Range(Deps[o]) \ have \subseteq s)
              => Lacks(r, have) \subseteq s
<1> DEFINE Shut(s) == {r} \ have \subseteq s /\ \A o \in s : Range(Deps[o]) \ have \subseteq s
<1>1. Lacks(r, have) = {x \in Objects : \A s \in SUBSET Objects : Shut(s) => x \in s}
  BY DEF Lacks
<1>2. \A s : Shut(s) <=> {r} \ have \subseteq s /\ \A o \in s : Range(Deps[o]) \ have \subseteq s
  OBVIOUS
<1> HIDE DEF Shut
<1>3. {r} \ have \subseteq Lacks(r, have)
  BY <1>1, <1>2
<1>4. ASSUME NEW x \in Lacks(r, have), NEW d \in Range(Deps[x]) \ have
      PROVE  d \in Lacks(r, have)
  <2>1. x \in Objects
    BY <1>1
  <2>2. d \in Objects
    BY <2>1, ObjectAssumption DEF Range, ObjectAssumption
  <2>3. ASSUME NEW s \in SUBSET Objects, Shut(s)
        PROVE  d \in s
    <3>1. x \in s
      BY <1>1, <2>3
    <3>2. QED
      BY <1>2, <2>3, <3>1
  <2>4. QED
    BY <1>1, <2>2, <2>3
<1>5. Lacks(r, have) \subseteq Objects
  BY <1>1
<1>6. \A s \in SUBSET Objects : Shut(s) => Lacks(r, have) \subseteq s
  BY <1>1
<1>7. QED
  BY <1>2, <1>3, <1>4, <1>5, <1>6

-----------------------------------------------------------------------------
(* Sequences *)

\* What a sequence lists, through Head, Tail and Append.
LEMMA RangeSeq ==
  ASSUME NEW S, NEW s \in Seq(S)
  PROVE  /\ Range(s) \subseteq S
         /\ IsFiniteSet(Range(s))
         /\ s # <<>> => /\ Head(s) \in S /\ Tail(s) \in Seq(S)
                        /\ Range(s) = {Head(s)} \cup Range(Tail(s))
         /\ \A x \in S : /\ Append(s, x) \in Seq(S) /\ Range(Append(s, x)) = Range(s) \cup {x}
                         /\ Len(Append(s, x)) = Len(s) + 1
<1>1. Len(s) \in Nat /\ DOMAIN s = 1..Len(s) /\ s \in [1..Len(s) -> S]
  BY LenProperties
<1>2. Range(s) = {s[i] : i \in 1..Len(s)}
  BY <1>1 DEF Range
<1>3. Range(s) \subseteq S
  BY <1>1, <1>2
<1>4. IsFiniteSet(Range(s))
  <2>1. IsFiniteSet(1..Len(s))
    BY <1>1, FS_Interval
  <2>2. s \in Surjection(1..Len(s), Range(s))
    BY <1>1, <1>2 DEF Surjection
  <2>3. QED
    BY <2>1, <2>2, FS_Surjection
<1>5. ASSUME s # <<>>
      PROVE  /\ Head(s) \in S /\ Tail(s) \in Seq(S)
             /\ Range(s) = {Head(s)} \cup Range(Tail(s))
  <2>1. /\ Head(s) \in S /\ Tail(s) \in Seq(S) /\ Len(Tail(s)) = Len(s) - 1
        /\ \A i \in 1..Len(Tail(s)) : Tail(s)[i] = s[i + 1]
    BY <1>5, HeadTailProperties
  <2>2. Len(s) # 0 /\ Head(s) = s[1]
    BY <1>5, <1>1, EmptySeq
  <2>3. DOMAIN Tail(s) = 1..(Len(s) - 1)
    BY <2>1, LenProperties
  <2>4. Range(Tail(s)) = {s[i + 1] : i \in 1..(Len(s) - 1)}
    BY <2>1, <2>3 DEF Range
  <2>5. ASSUME NEW i \in 1..Len(s)
        PROVE  s[i] = Head(s) \/ s[i] \in Range(Tail(s))
    <3>1. CASE i = 1
      BY <2>2, <3>1
    <3>2. CASE i # 1
      <4>1. i - 1 \in 1..(Len(s) - 1) /\ s[i] = s[(i - 1) + 1]
        BY <1>1, <3>2
      <4>2. QED
        BY <2>4, <4>1
    <3>3. QED
      BY <3>1, <3>2
  <2>6. ASSUME NEW i \in 1..(Len(s) - 1)
        PROVE  s[i + 1] \in Range(s)
    <3>1. i + 1 \in 1..Len(s)
      BY <1>1
    <3>2. QED
      BY <1>2, <3>1
  <2>7. Head(s) \in Range(s)
    BY <1>1, <1>2, <2>2
  <2>8. QED
    BY <1>2, <2>1, <2>4, <2>5, <2>6, <2>7
<1>6. ASSUME NEW x \in S
      PROVE  /\ Append(s, x) \in Seq(S) /\ Range(Append(s, x)) = Range(s) \cup {x}
             /\ Len(Append(s, x)) = Len(s) + 1
  <2>1. /\ Append(s, x) \in Seq(S) /\ Len(Append(s, x)) = Len(s) + 1
        /\ \A i \in 1..Len(s) : Append(s, x)[i] = s[i]
        /\ Append(s, x)[Len(s) + 1] = x
    BY AppendProperties
  <2>2. DOMAIN Append(s, x) = 1..(Len(s) + 1)
    BY <2>1, LenProperties
  <2> DEFINE t == Append(s, x)
  <2>3. Range(t) = {t[i] : i \in 1..(Len(s) + 1)}
    BY <2>2 DEF Range
  <2>4. \A i \in 1..(Len(s) + 1) : i \in 1..Len(s) \/ i = Len(s) + 1
    BY <1>1
  <2>5. Len(s) + 1 \in 1..(Len(s) + 1) /\ \A i \in 1..Len(s) : i \in 1..(Len(s) + 1)
    BY <1>1
  <2> HIDE DEF t
  <2>6. Range(t) \subseteq Range(s) \cup {x}
    BY <1>2, <2>1, <2>3, <2>4 DEF t
  <2>7. Range(s) \cup {x} \subseteq Range(t)
    BY <1>2, <2>1, <2>3, <2>5 DEF t
  <2>8. QED
    BY <2>1, <2>6, <2>7 DEF t
<1>7. QED
  BY <1>3, <1>4, <1>5, <1>6

\* What two sequences list together.
LEMMA RangeConcat ==
  ASSUME NEW S, NEW s \in Seq(S), NEW t \in Seq(S)
  PROVE  /\ s \o t \in Seq(S) /\ Len(s \o t) = Len(s) + Len(t)
         /\ Range(s \o t) = Range(s) \cup Range(t)
<1> DEFINE u == s \o t
<1>1. /\ Len(s) \in Nat /\ DOMAIN s = 1..Len(s)
      /\ Len(t) \in Nat /\ DOMAIN t = 1..Len(t)
  BY LenProperties
<1>2. /\ u \in Seq(S) /\ Len(u) = Len(s) + Len(t)
      /\ \A i \in 1..(Len(s) + Len(t)) : u[i] = IF i <= Len(s) THEN s[i] ELSE t[i - Len(s)]
  BY ConcatProperties
<1>3. DOMAIN u = 1..(Len(s) + Len(t))
  BY <1>2, LenProperties
<1> HIDE DEF u
<1>4. ASSUME NEW i \in 1..(Len(s) + Len(t))
      PROVE  u[i] \in Range(s) \cup Range(t)
  <2>1. CASE i <= Len(s)
    <3>1. i \in DOMAIN s /\ u[i] = s[i]
      BY <1>1, <1>2, <2>1
    <3>2. QED
      BY <3>1 DEF Range
  <2>2. CASE ~(i <= Len(s))
    <3>1. i - Len(s) \in DOMAIN t /\ u[i] = t[i - Len(s)]
      BY <1>1, <1>2, <2>2
    <3>2. QED
      BY <3>1 DEF Range
  <2>3. QED
    BY <2>1, <2>2
<1>5. ASSUME NEW i \in DOMAIN s
      PROVE  s[i] \in Range(u)
  <2>1. i \in DOMAIN u /\ u[i] = s[i]
    BY <1>1, <1>2, <1>3
  <2>2. QED
    BY <2>1 DEF Range
<1>6. ASSUME NEW i \in DOMAIN t
      PROVE  t[i] \in Range(u)
  <2>1. i + Len(s) \in 1..(Len(s) + Len(t)) /\ ~(i + Len(s) <= Len(s)) /\ (i + Len(s)) - Len(s) = i
    BY <1>1
  <2>2. i + Len(s) \in DOMAIN u /\ u[i + Len(s)] = t[i]
    BY <1>2, <1>3, <2>1
  <2>3. QED
    BY <2>2 DEF Range
<1>7. Range(u) = Range(s) \cup Range(t)
  <2>1. Range(u) \subseteq Range(s) \cup Range(t)
    BY <1>3, <1>4 DEF Range
  <2>2. Range(s) \subseteq Range(u)
    BY <1>5 DEF Range
  <2>3. Range(t) \subseteq Range(u)
    BY <1>6 DEF Range
  <2>4. QED
    BY <2>1, <2>2, <2>3
<1>8. QED
  BY <1>2, <1>7 DEF u

\* prune_last undoes the push.
LEMMA PruneLast ==
  ASSUME NEW S, NEW s \in Seq(S), NEW t \in Seq(S)
  PROVE  prune_last(s \o t, Len(s)) = t
<1> DEFINE u == s \o t
           v == SubSeq(u, Len(s) + 1, Len(u))
<1>1. Len(s) \in Nat /\ Len(t) \in Nat
  BY LenProperties
<1>2. /\ u \in Seq(S) /\ Len(u) = Len(s) + Len(t)
      /\ \A i \in 1..(Len(s) + Len(t)) : u[i] = IF i <= Len(s) THEN s[i] ELSE t[i - Len(s)]
  BY ConcatProperties
<1> HIDE DEF u
<1>3. \A i \in (Len(s) + 1)..Len(u) : u[i] \in S
  <2>1. \A i \in 1..Len(u) : u[i] \in S
    BY <1>2, ElementOfSeq
  <2>2. QED
    BY <1>1, <1>2, <2>1
<1>4. /\ v \in Seq(S)
      /\ Len(v) = IF Len(s) + 1 <= Len(u) THEN Len(u) - (Len(s) + 1) + 1 ELSE 0
      /\ \A i \in 1..(Len(u) - (Len(s) + 1) + 1) : v[i] = u[(Len(s) + 1) + i - 1]
  BY <1>1, <1>2, <1>3, SubSeqProperties
<1> HIDE DEF v
<1>5. Len(v) = Len(t)
  BY <1>1, <1>2, <1>4
<1>6. ASSUME NEW i \in 1..Len(t)
      PROVE  v[i] = t[i]
  <2>1. /\ i \in 1..(Len(u) - (Len(s) + 1) + 1)
        /\ (Len(s) + 1) + i - 1 \in 1..(Len(s) + Len(t))
        /\ ~((Len(s) + 1) + i - 1 <= Len(s)) /\ ((Len(s) + 1) + i - 1) - Len(s) = i
    BY <1>1, <1>2
  <2>2. QED
    BY <1>2, <1>4, <2>1
<1>7. v = t
  BY <1>4, <1>5, <1>6, SeqEqual
<1>8. QED
  BY <1>7 DEF prune_last, u, v

\* SetToSeq lists a finite set.
LEMMA SetToSeqLists ==
  ASSUME NEW S, IsFiniteSet(S)
  PROVE  SetToSeq(S) \in Seq(S) /\ Range(SetToSeq(S)) = S
<1> DEFINE n == Cardinality(S)
           f == SetToSeq(S)
<1>1. n \in Nat /\ ExistsBijection(1..n, S)
  BY FS_CardinalityType
<1>2. \E g \in [1..n -> S] : IsInjective(g)
  BY <1>1 DEF ExistsBijection, Bijection, Injection
<1>3. f \in [1..n -> S] /\ IsInjective(f)
  BY <1>2 DEF SetToSeq
<1> HIDE DEF f
<1>4. f \in Injection(1..n, S)
  BY <1>3 DEF Injection
<1>5. Cardinality(1..n) = n
  BY <1>1, FS_Interval
<1>6. f \in Surjection(1..n, S)
  BY <1>4, <1>5, FS_Injection
<1> HIDE DEF n
<1>7. f \in Seq(S)
  BY <1>1, <1>3
<1>8. Range(f) = S
  BY <1>3, <1>6 DEF Range, Surjection
<1>9. QED
  BY <1>7, <1>8 DEF f

-----------------------------------------------------------------------------
(* One visit *)

\* Fresh lists the dependencies that are not seen.
LEMMA FreshLists ==
  ASSUME NEW id \in Objects, NEW seen
  PROVE  Fresh(id, seen) \in Seq(Objects) /\ Range(Fresh(id, seen)) = Range(Deps[id]) \ seen
<1> DEFINE at == {i \in DOMAIN Deps[id] : Deps[id][i] \notin seen}
<1>1. Deps[id] \in Seq(Objects)
  BY ObjectAssumption DEF ObjectAssumption
<1>2. /\ AtPlaces(Deps[id], at) \in Seq(Objects)
      /\ Range(AtPlaces(Deps[id], at)) = {Deps[id][i] : i \in at}
  BY <1>1, AtPlacesLists
<1>3. {Deps[id][i] : i \in at} = Range(Deps[id]) \ seen
  BY DEF Range
<1>4. QED
  BY <1>2, <1>3 DEF Fresh

\* A visit lists the object, or it breaks the walk off.
Takes(s, q) ==
    LET id == Head(s.pending) IN
    /\ id \notin s.visited /\ id \in q.source
    /\ ~(q.meta /\ id \in Payload)
    /\ ~(id \in q.have /\ is_definite(q.form))

Breaks(s, q) ==
    LET id == Head(s.pending) IN
    id \notin s.visited /\ id \notin q.source /\ q.strict

\* What a visit does.  The stack grows by the dependencies of an object that
\* is listed, and by nothing else.
LEMMA VisitFacts ==
  ASSUME NEW s \in Walks, NEW q, s.pending # <<>>
  PROVE  LET id == Head(s.pending)
             t == Visit(s, q)
             definite == id \in q.have /\ is_definite(q.form)
         IN  /\ id \in Objects /\ id \in Reached(s)
             /\ t \in Walks
             /\ t.visited = s.visited \cup {id}
             /\ t.failed = (s.failed \/ Breaks(s, q))
             /\ ~Breaks(s, q) => Reached(t) = Reached(s) \cup (IF Takes(s, q) THEN Range(Deps[id]) ELSE {})
             /\ t.missing = IF Takes(s, q) /\ id \notin q.have THEN Append(s.missing, id) ELSE s.missing
             /\ t.uncertain = IF Takes(s, q) /\ id \in q.have THEN Append(s.uncertain, id) ELSE s.uncertain
             /\ t.absent = s.absent \cup (IF id \notin s.visited /\ id \notin q.source /\ ~q.strict /\ ~definite
                                          THEN {id} ELSE {})
<1> DEFINE id     == Head(s.pending)
           rest   == Tail(s.pending)
           seen   == [s EXCEPT !.pending = Tail(@), !.visited = @ \cup {id}]
           fresh  == Fresh(id, seen.visited)
           pushed == fresh \o seen.pending
           held   == id \in q.have
           t      == Visit(s, q)
<1>1. /\ s.pending \in Seq(Objects) /\ s.visited \subseteq Objects /\ s.missing \in Seq(Objects)
      /\ s.uncertain \in Seq(Objects) /\ s.absent \subseteq Objects /\ s.failed \in BOOLEAN
  BY DEF Walks
<1>2. /\ id \in Objects /\ rest \in Seq(Objects)
      /\ Range(s.pending) = {id} \cup Range(rest)
  BY <1>1, RangeSeq
<1>3. /\ seen \in Walks
      /\ seen.pending = rest /\ seen.visited = s.visited \cup {id} /\ seen.missing = s.missing
      /\ seen.uncertain = s.uncertain /\ seen.absent = s.absent /\ seen.failed = s.failed
  BY <1>1, <1>2 DEF Walks
<1>4. /\ fresh \in Seq(Objects)
      /\ Range(fresh) = Range(Deps[id]) \ (s.visited \cup {id})
  BY <1>2, <1>3, FreshLists
<1>5. pushed \in Seq(Objects) /\ Range(pushed) = Range(fresh) \cup Range(rest)
  <2>1. pushed = fresh \o rest
    BY <1>3
  <2> HIDE DEF pushed, fresh, rest
  <2>2. QED
    BY <1>2, <1>4, <2>1, RangeConcat
<1>6. prune_last(pushed, Len(fresh)) = rest
  BY <1>2, <1>3, <1>4, PruneLast
<1>7. /\ Append(s.missing, id) \in Seq(Objects)
      /\ Append(s.uncertain, id) \in Seq(Objects)
  BY <1>1, <1>2, RangeSeq
<1>8. t = IF id \in s.visited
          THEN [s EXCEPT !.pending = Tail(@)]
          ELSE IF id \notin q.source
          THEN IF q.strict THEN [seen EXCEPT !.pending = <<>>, !.failed = TRUE]
               ELSE IF held /\ is_definite(q.form) THEN seen
               ELSE [seen EXCEPT !.absent = @ \cup {id}]
          ELSE IF q.meta /\ id \in Payload
          THEN seen
          ELSE IF held /\ is_definite(q.form)
          THEN [seen EXCEPT !.pending = prune_last(pushed, Len(fresh))]
          ELSE IF held
          THEN [seen EXCEPT !.pending = pushed, !.uncertain = Append(@, id)]
          ELSE [seen EXCEPT !.pending = pushed, !.missing = Append(@, id)]
  BY DEF Visit
<1> HIDE DEF t, pushed, fresh, seen, rest
<1> DEFINE Holds(pend, more) ==
             /\ t \in Walks
             /\ t.visited = s.visited \cup {id}
             /\ t.pending = pend
             /\ t.failed = (s.failed \/ Breaks(s, q))
             /\ t.missing = IF Takes(s, q) /\ ~held THEN Append(s.missing, id) ELSE s.missing
             /\ t.uncertain = IF Takes(s, q) /\ held THEN Append(s.uncertain, id) ELSE s.uncertain
             /\ t.absent = s.absent \cup more
<1>9. CASE id \in s.visited
  <2>1. t = [s EXCEPT !.pending = rest]
    BY <1>8, <1>9 DEF rest
  <2>2. ~Takes(s, q) /\ ~Breaks(s, q)
    BY <1>9 DEF Takes, Breaks
  <2>3. Holds(rest, {})
    BY <1>1, <1>2, <1>9, <2>1, <2>2 DEF Walks
  <2>4. Reached(t) = Reached(s)
    BY <1>2, <1>9, <2>3 DEF Reached
  <2>5. QED
    BY <1>2, <1>9, <2>2, <2>3, <2>4 DEF Reached, t
<1>10. CASE id \notin s.visited /\ id \notin q.source /\ q.strict
  <2>1. t = [seen EXCEPT !.pending = <<>>, !.failed = TRUE]
    BY <1>8, <1>10
  <2>2. ~Takes(s, q) /\ Breaks(s, q)
    BY <1>10 DEF Takes, Breaks
  <2>3. /\ t.visited = s.visited \cup {id} /\ t.pending = <<>> /\ t.missing = s.missing
        /\ t.uncertain = s.uncertain /\ t.absent = s.absent /\ t.failed = TRUE
        /\ t \in Walks
    <3>1. <<>> \in Seq(Objects) /\ TRUE \in BOOLEAN
      BY EmptySeq
    <3>2. \A e \in Seq(Objects), b \in BOOLEAN :
             LET u == [seen EXCEPT !.pending = e, !.failed = b] IN
             /\ u.visited = s.visited \cup {id} /\ u.pending = e /\ u.missing = s.missing
             /\ u.uncertain = s.uncertain /\ u.absent = s.absent /\ u.failed = b
             /\ u \in Walks
      BY <1>3 DEF Walks
    <3>3. QED
      BY <2>1, <3>1, <3>2
  <2>4. QED
    BY <1>2, <1>10, <2>2, <2>3 DEF Reached, t
<1>11. CASE id \notin s.visited /\ id \notin q.source /\ ~q.strict
  <2> DEFINE more == IF held /\ is_definite(q.form) THEN {} ELSE {id}
  <2>1. t = IF held /\ is_definite(q.form) THEN seen ELSE [seen EXCEPT !.absent = @ \cup {id}]
    BY <1>8, <1>11
  <2>2. ~Takes(s, q) /\ ~Breaks(s, q)
    BY <1>11 DEF Takes, Breaks
  <2>3. Holds(rest, more)
    BY <1>1, <1>2, <1>3, <2>1, <2>2 DEF Walks
  <2>4. Reached(t) = Reached(s)
    BY <1>2, <2>3 DEF Reached
  <2>5. QED
    BY <1>2, <1>11, <2>2, <2>3, <2>4 DEF Reached, t
<1>12. CASE /\ id \notin s.visited /\ id \in q.source
            /\ (q.meta /\ id \in Payload) \/ (held /\ is_definite(q.form))
  <2>1. t = seen \/ t = [seen EXCEPT !.pending = rest]
    BY <1>6, <1>8, <1>12
  <2>2. ~Takes(s, q) /\ ~Breaks(s, q)
    BY <1>12 DEF Takes, Breaks
  <2>3. Holds(rest, {})
    BY <1>1, <1>2, <1>3, <2>1, <2>2 DEF Walks
  <2>4. Reached(t) = Reached(s)
    BY <1>2, <2>3 DEF Reached
  <2>5. QED
    BY <1>2, <1>12, <2>2, <2>3, <2>4 DEF Reached, t
<1>13. CASE /\ id \notin s.visited /\ id \in q.source
            /\ ~(q.meta /\ id \in Payload) /\ ~(held /\ is_definite(q.form))
  <2>1. t = IF held THEN [seen EXCEPT !.pending = pushed, !.uncertain = Append(@, id)]
            ELSE [seen EXCEPT !.pending = pushed, !.missing = Append(@, id)]
    BY <1>8, <1>13
  <2>2. Takes(s, q) /\ ~Breaks(s, q)
    BY <1>13 DEF Takes, Breaks
  <2>3. Holds(pushed, {})
    BY <1>1, <1>2, <1>3, <1>5, <1>7, <2>1, <2>2 DEF Walks
  <2>4. Reached(t) = Reached(s) \cup Range(Deps[id])
    BY <1>2, <1>4, <1>5, <2>3 DEF Reached
  <2>5. QED
    BY <1>2, <1>13, <2>2, <2>3, <2>4 DEF Reached, t
<1>14. QED
  BY <1>9, <1>10, <1>11, <1>12, <1>13


-----------------------------------------------------------------------------
(* Types *)

\* The constants, and the processes at rest.
LEMMA Constants ==
  /\ Roots \subseteq Objects /\ AnyRoot \in Roots /\ IsFiniteSet(Objects)
  /\ \A r \in Roots : r \in Objects /\ r \notin Payload /\ Closure(r) \subseteq Objects
  /\ \A s \in Seq(Objects) : Walk(s) \in Walks
  /\ <<>> \in Seq(Objects) /\ Range(<<>>) = {} /\ Len(<<>>) = 0
  /\ \A o \in Objects : Range(Deps[o]) \subseteq Objects
  /\ \A o \in Payload : Range(Deps[o]) = {}
  /\ \A s \in Sources : s \subseteq Objects
  /\ Grace \in Nat
<1>1. /\ Roots \subseteq Objects /\ AnyRoot \in Roots /\ IsFiniteSet(Objects)
      /\ \A r \in Roots : r \in Objects /\ r \notin Payload
      /\ \A s \in Sources : s \subseteq Objects
      /\ Grace \in Nat
  BY ObjectAssumption DEF ObjectAssumption, AnyRoot
<1>2. \A r \in Roots : Closure(r) \subseteq Objects
  BY <1>1, ClosureLeast
<1>3. <<>> \in Seq(Objects) /\ Len(<<>>) = 0
  BY EmptySeq
<1>4. Range(<<>>) = {}
  BY DEF Range
<1>5. \A s \in Seq(Objects) : Walk(s) \in Walks
  BY <1>3 DEF Walk, Walks
<1>6. \A o \in Objects : Range(Deps[o]) \subseteq Objects
  BY ObjectAssumption, RangeSeq DEF ObjectAssumption
<1>7. \A o \in Payload : Range(Deps[o]) = {}
  BY <1>4, ObjectAssumption DEF ObjectAssumption
<1>8. QED
  BY <1>1, <1>2, <1>3, <1>4, <1>5, <1>6, <1>7

\* The processes at rest have their types.
LEMMA AtRest == NoTxn \in Txns /\ NoGc \in Gcs /\ NoXf \in Xfs
<1>1. NoTxn \in Txns
  BY Constants DEF NoTxn, Txns
<1>2. Walk(<<>>) \in Walks
  BY Constants
<1>3. NoGc \in Gcs
  BY <1>2 DEF NoGc, Gcs
<1>4. NoXf \in Xfs
  BY <1>2, Constants DEF NoXf, Xfs
<1>5. QED
  BY <1>1, <1>3, <1>4

\* A put stores the object and dates it, when it is not there.
LEMMA PutTypes ==
  ASSUME Types, NEW o \in Objects, put_object(o)
  PROVE  /\ store' = store \cup {o} /\ store' \subseteq Objects
         /\ mtime' \in [Objects -> Int]
         /\ \A x \in store : mtime'[x] = mtime[x]
<1>1. CASE o \in store
  BY <1>1 DEF Types, put_object
<1>2. CASE o \notin store
  BY <1>2 DEF Types, put_object
<1>3. QED
  BY <1>1, <1>2

\* A published root is one of Roots, and is kept only if nothing has condemned its graph.
LEMMA PublishTypes ==
  ASSUME Types, NEW r \in Roots, publish(r)
  PROVE  /\ roots' \subseteq Roots /\ roots' = roots \cup {r} /\ kept' \subseteq roots'
         /\ kept' = kept \/ (/\ kept' = kept \cup {r} /\ r \notin roots \cup gc.frozen
                             /\ Closure(r) \subseteq store \ Doomed)
  BY DEF Types, publish

\* A new store has its types.
LEMMA TypesInit == Init => Types
<1> SUFFICES ASSUME Init PROVE Types
  OBVIOUS
<1>1. txn \in Txns /\ gc \in Gcs /\ xf \in Xfs
  BY AtRest DEF Init
<1>2. QED
  BY <1>1 DEF Init, Types

\* The steps of the writer and of the world.
LEMMA TypesWriter ==
  ASSUME Types,
         \/ \E r \in Roots : drop_root(r) \/ begin(r)
         \/ \E o \in Objects : txn_put(o)
         \/ txn_publish \/ tick \/ crash
  PROVE  Types'
<1>1. txn \in Txns /\ gc \in Gcs /\ xf \in Xfs
  BY DEF Types
<1>2. ASSUME NEW r \in Roots, drop_root(r) PROVE Types'
  BY <1>2 DEF Types, drop_root
<1>3. ASSUME NEW r \in Roots, begin(r) PROVE Types'
  <2>1. txn' \in Txns
    BY <1>3, Constants DEF begin, Txns
  <2>2. QED
    BY <1>3, <2>1 DEF Types, begin
<1>4. ASSUME NEW o \in Objects, txn_put(o) PROVE Types'
  <2>1. txn' \in Txns
    BY <1>1, <1>4 DEF txn_put, Txns
  <2>2. store' \subseteq Objects /\ mtime' \in [Objects -> Int]
    BY <1>4, PutTypes DEF txn_put
  <2>3. QED
    BY <1>4, <2>1, <2>2 DEF Types, txn_put
<1>5. ASSUME txn_publish PROVE Types'
  <2>1. txn' \in Txns
    BY <1>5, AtRest DEF txn_publish
  <2>2. roots' \subseteq Roots /\ kept' \subseteq roots'
    BY <1>1, <1>5, PublishTypes DEF txn_publish, Txns
  <2>3. QED
    BY <1>5, <2>1, <2>2 DEF Types, txn_publish
<1>6. ASSUME tick PROVE Types'
  BY <1>6 DEF Types, tick
<1>7. ASSUME crash PROVE Types'
  <2>1. txn' \in Txns /\ gc' \in Gcs /\ xf' \in Xfs
    BY <1>1, <1>7, AtRest DEF crash
  <2>2. QED
    BY <1>7, <2>1 DEF Types, crash
<1>8. QED
  BY <1>2, <1>3, <1>4, <1>5, <1>6, <1>7

\* The walk of a collection sees everything.
MarkOptions == [source |-> store, have |-> {}, form |-> "exact", strict |-> FALSE, meta |-> FALSE]

\* The steps of a collection.
LEMMA TypesCollector ==
  ASSUME Types,
         \/ gc_freeze \/ gc_mark \/ gc_list \/ gc_look
         \/ \E o \in Objects : gc_sweep(o)
  PROVE  Types'
<1>1. txn \in Txns /\ gc \in Gcs /\ xf \in Xfs
  BY DEF Types
<1>2. ASSUME gc_freeze PROVE Types'
  <2>1. PICK leases \in {{}, IF txn.pc = "idle" THEN {} ELSE Closure(txn.root)} :
          gc' = [NoGc EXCEPT !.pc = "mark", !.frozen = roots, !.leases = leases,
                             !.walk = Walk(SetToSeq(roots))]
    BY <1>2 DEF gc_freeze
  <2>2. leases \subseteq Objects
    BY <1>1, Constants DEF Txns
  <2>3. roots \subseteq Roots /\ IsFiniteSet(roots) /\ roots \subseteq Objects
    BY Constants, FS_Subset DEF Types
  <2>4. SetToSeq(roots) \in Seq(Objects)
    BY <2>3, SetToSeqLists, SeqMonotonic
  <2>5. Walk(SetToSeq(roots)) \in Walks
    BY <2>4, Constants
  <2>6. gc' \in Gcs
    BY <2>1, <2>2, <2>3, <2>5, AtRest DEF Gcs
  <2>7. QED
    BY <1>2, <2>6 DEF Types, gc_freeze
<1>3. ASSUME gc_mark PROVE Types'
  <2>1. gc.walk \in Walks /\ gc.walk.pending # <<>> /\ gc' = [gc EXCEPT !.walk = Visit(gc.walk, MarkOptions)]
    BY <1>1, <1>3 DEF gc_mark, Gcs, MarkOptions
  <2>2. Visit(gc.walk, MarkOptions) \in Walks
    BY <2>1, VisitFacts
  <2>3. gc' \in Gcs
    BY <1>1, <2>1, <2>2 DEF Gcs
  <2>4. QED
    BY <1>3, <2>3 DEF Types, gc_mark
<1>4. ASSUME gc_list PROVE Types'
  <2>1. PICK cutoff, cand :
          /\ cutoff = now - Grace /\ cand \subseteq store
          /\ gc' = IF cand = {} THEN NoGc
                   ELSE [NoGc EXCEPT !.pc = "look", !.frozen = gc.frozen,
                                     !.cutoff = cutoff, !.cand = cand]
    BY <1>4 DEF gc_list
  <2>2. cutoff \in Int /\ cand \subseteq Objects
    BY <2>1, Constants DEF Types
  <2>3. gc' \in Gcs
    BY <1>1, <2>1, <2>2, AtRest DEF Gcs
  <2>4. QED
    BY <1>4, <2>3 DEF Types, gc_list
<1>5. ASSUME gc_look PROVE Types'
  <2>1. gc' \in Gcs
    BY <1>1, <1>5, AtRest DEF Gcs, gc_look
  <2>2. QED
    BY <1>5, <2>1 DEF Types, gc_look
<1>6. ASSUME NEW o \in Objects, gc_sweep(o) PROVE Types'
  <2>1. gc' \in Gcs
    BY <1>1, <1>6, AtRest DEF Gcs, gc_sweep
  <2>2. xf' \in Xfs
    BY <1>1, <1>6 DEF Xfs, gc_sweep
  <2>3. store' \subseteq Objects /\ mtime' \in [Objects -> Int]
    BY <1>6 DEF Types, gc_sweep
  <2>4. QED
    BY <1>6, <2>1, <2>2, <2>3 DEF Types, gc_sweep
<1>7. QED
  BY <1>2, <1>3, <1>4, <1>5, <1>6

\* The walk of a sender.
PlanOptions ==
    [source |-> xf.source, have |-> xf.claimed, form |-> xf.form, strict |-> xf.form = "exact",
     meta |-> xf.meta]

\* The steps of a transfer.
LEMMA TypesTransfer ==
  ASSUME Types,
         \/ \E r \in Roots : create_bundle(r) \/ negotiate(r)
         \/ compute_missing \/ offer \/ import_begin \/ confirm \/ import_object \/ import_publish
  PROVE  Types'
<1>1. txn \in Txns /\ gc \in Gcs /\ xf \in Xfs
  BY DEF Types
<1>2. ASSUME NEW r \in Roots
      PROVE  Walk(<<r>>) \in Walks
  <2>1. <<r>> \in Seq(Objects)
    BY Constants
  <2>2. QED
    BY <2>1, Constants
<1>3. ASSUME NEW r \in Roots, create_bundle(r) PROVE Types'
  <2>1. PICK source \in Sources, meta \in BOOLEAN, have \in {{}, store} :
          xf' = [NoXf EXCEPT !.pc = "planning", !.root = r, !.meta = meta, !.source = source,
                             !.claimed = have, !.walk = Walk(<<r>>)]
    BY <1>3 DEF create_bundle
  <2>2. source \subseteq Objects /\ have \subseteq Objects
    BY Constants DEF Types
  <2>3. xf' \in Xfs
    BY <1>2, <2>1, <2>2, AtRest DEF Xfs
  <2>4. QED
    BY <1>3, <2>3 DEF Types, create_bundle
<1>4. ASSUME NEW r \in Roots, negotiate(r) PROVE Types'
  <2>1. PICK source \in Sources, meta \in BOOLEAN, false_positives \in SUBSET (Closure(r) \ store) :
          xf' = [NoXf EXCEPT !.pc = "planning", !.root = r, !.form = "bloom", !.meta = meta,
                             !.source = source, !.claimed = store \cup false_positives,
                             !.walk = Walk(<<r>>)]
    BY <1>4 DEF negotiate
  <2>2. source \subseteq Objects /\ store \cup false_positives \subseteq Objects
    BY Constants DEF Types
  <2>3. xf' \in Xfs
    BY <1>2, <2>1, <2>2, AtRest DEF Xfs
  <2>4. QED
    BY <1>4, <2>3 DEF Types, negotiate
<1>5. ASSUME compute_missing PROVE Types'
  <2>1. xf.walk \in Walks /\ xf.walk.pending # <<>> /\ xf' = [xf EXCEPT !.walk = Visit(xf.walk, PlanOptions)]
    BY <1>1, <1>5 DEF compute_missing, Xfs, PlanOptions
  <2>2. Visit(xf.walk, PlanOptions) \in Walks
    BY <2>1, VisitFacts
  <2>3. xf' \in Xfs
    BY <1>1, <2>1, <2>2 DEF Xfs
  <2>4. QED
    BY <1>5, <2>3 DEF Types, compute_missing
<1>6. ASSUME offer PROVE Types'
  <2>1. xf.walk.missing \in Seq(Objects) /\ xf.walk.uncertain \in Seq(Objects)
    BY <1>1 DEF Xfs, Walks
  <2>2. PICK pre :
          /\ pre \in {{}, prerequisites(xf.walk.missing, xf.claimed)}
          /\ xf' = IF xf.walk.failed \/ xf.walk.absent # {} THEN NoXf
                   ELSE [xf EXCEPT !.pc = "offered", !.source = {}, !.walk = Walk(<<>>),
                                   !.table = xf.walk.missing, !.uncertain = xf.walk.uncertain,
                                   !.pre = pre]
    BY <1>6 DEF offer
  <2>3. pre \subseteq Objects
    BY <1>1, <2>2 DEF prerequisites, Xfs
  <2>4. xf' \in Xfs
    BY <1>1, <2>1, <2>2, <2>3, AtRest, Constants DEF Xfs
  <2>5. QED
    BY <1>6, <2>4 DEF Types, offer
<1>7. ASSUME import_begin PROVE Types'
  <2>1. PICK complete \in BOOLEAN, sound \in BOOLEAN :
          xf' = NoXf \/ xf' = [xf EXCEPT !.pc = "importing", !.complete = complete, !.sound = sound]
    BY <1>7 DEF import_begin
  <2>2. xf' \in Xfs
    BY <1>1, <2>1, AtRest DEF Xfs
  <2>3. QED
    BY <1>7, <2>2 DEF Types, import_begin
<1>8. ASSUME confirm PROVE Types'
  <2>1. xf.table \o Lacking(xf.uncertain) \in Seq(Objects)
    <3>1. xf.table \in Seq(Objects) /\ xf.uncertain \in Seq(Objects)
      BY <1>1 DEF Xfs
    <3>2. Lacking(xf.uncertain) \in Seq(Objects)
      BY <3>1, AtPlacesLists DEF Lacking
    <3>3. QED
      BY <3>1, <3>2, RangeConcat
  <2>2. xf' \in Xfs
    BY <1>1, <1>8, <2>1 DEF Xfs, confirm
  <2>3. QED
    BY <1>8, <2>2 DEF Types, confirm
<1>9. ASSUME import_object PROVE Types'
  <2>1. xf.table \in Seq(Objects) /\ xf.table # <<>>
    BY <1>1, <1>9 DEF Xfs, import_object
  <2>2. Head(xf.table) \in Objects /\ Tail(xf.table) \in Seq(Objects)
    BY <2>1, RangeSeq
  <2>3. xf' \in Xfs
    BY <1>1, <1>9, <2>2 DEF Xfs, import_object
  <2>4. store' \subseteq Objects /\ mtime' \in [Objects -> Int]
    BY <1>9, <2>2, PutTypes DEF import_object
  <2>5. QED
    BY <1>9, <2>3, <2>4 DEF Types, import_object
<1>10. ASSUME import_publish PROVE Types'
  <2>1. xf' \in Xfs
    BY <1>10, AtRest DEF import_publish
  <2>2. roots' \subseteq Roots /\ kept' \subseteq roots'
    <3>1. CASE publish(xf.root)
      BY <1>1, <3>1, PublishTypes DEF Xfs
    <3>2. CASE UNCHANGED <<roots, kept>>
      BY <3>2 DEF Types
    <3>3. QED
      BY <1>10, <3>1, <3>2 DEF import_publish
  <2>3. QED
    BY <1>10, <2>1, <2>2 DEF Types, import_publish
<1>11. QED
  BY <1>3, <1>4, <1>5, <1>6, <1>7, <1>8, <1>9, <1>10


-----------------------------------------------------------------------------
(* Collecting *)

\* What a sweep is about to delete.
LEMMA DoomedIs ==
  ASSUME Types
  PROVE  \A x : x \in Doomed <=>
            /\ x \in gc.cand /\ gc.pc = "sweep" /\ x \in store /\ ~(mtime[x] > gc.cutoff)
  BY DEF Doomed, written_since

\* The same of the next state.
LEMMA DoomedIsNext ==
  Types' => \A x : x \in Doomed' <=>
               /\ x \in gc'.cand /\ gc'.pc = "sweep" /\ x \in store' /\ ~(mtime'[x] > gc'.cutoff)
  BY DEF Doomed, written_since

\* A step that leaves the store and the collection alone, and publishes
\* nothing.
LEMMA GcUntouched ==
  ASSUME Types, GcInv, Types', UNCHANGED <<store, mtime, gc>>, kept' \subseteq kept, now <= now'
  PROVE  GcInv'
<1>1. Doomed' = Doomed
  BY DEF Doomed, written_since
<1>2. Aged'
  <2>1. gc \in Gcs /\ now \in Int /\ now' \in Int /\ Grace \in Int
    BY Constants DEF Types
  <2>2. gc.cutoff \in Int
    BY <2>1 DEF Gcs
  <2>3. QED
    BY <2>1, <2>2 DEF GcInv, Aged
<1>3. QED
  BY <1>1, <1>2 DEF GcInv, PublishedComplete, Marking, Looking, Sweeping

\* One that ends the collection.
LEMMA GcEnds ==
  ASSUME Types, GcInv, Types', gc' = NoGc, UNCHANGED <<store, kept>>
  PROVE  GcInv'
<1>1. gc'.pc = "idle"
  BY DEF NoGc
<1>2. Doomed' = {}
  BY <1>1, DoomedIsNext
<1>3. QED
  BY <1>1, <1>2 DEF GcInv, PublishedComplete, Marking, Looking, Sweeping, Aged

\* An object is stored: it belongs to no graph that is whole, so that a sweep
\* which deletes it again hurts none.
LEMMA GcPut ==
  ASSUME Types, GcInv, Types', NEW o \in Objects, put_object(o), UNCHANGED <<gc, kept, now>>
  PROVE  GcInv'
<1>1. /\ store' = store \cup {o} /\ \A x \in store : mtime'[x] = mtime[x]
  BY PutTypes
<1>2. PublishedComplete'
  BY <1>1 DEF GcInv, PublishedComplete
<1>3. Sweeping'
  <2>1. ASSUME NEW r \in kept, NEW x \in Closure(r)
        PROVE  x \notin Doomed'
    <3>1. x \in store /\ x \notin Doomed
      BY <2>1 DEF GcInv, PublishedComplete, Sweeping
    <3>2. mtime'[x] = mtime[x]
      BY <1>1, <3>1
    <3>3. QED
      BY <3>1, <3>2, DoomedIs, DoomedIsNext
  <2>2. QED
    BY <2>1 DEF Sweeping
<1>4. QED
  BY <1>2, <1>3 DEF GcInv, Marking, Looking, Aged

\* A root is published.
LEMMA GcPublish ==
  ASSUME Types, GcInv, Types', NEW r \in Roots, publish(r), UNCHANGED <<store, mtime, gc, now>>
  PROVE  GcInv'
<1>1. CASE kept' = kept
  <2>1. now <= now'
    BY DEF Types
  <2>2. QED
    BY <1>1, <2>1, GcUntouched
<1>2. CASE /\ kept' = kept \cup {r} /\ r \notin gc.frozen /\ Closure(r) \subseteq store \ Doomed
  <2>1. Doomed' = Doomed
    BY DEF Doomed, written_since
  <2>2. kept' \cap gc.frozen \subseteq kept \cap gc.frozen
    BY <1>2
  <2>3. PublishedComplete'
    BY <1>2 DEF GcInv, PublishedComplete
  <2>4. Sweeping'
    BY <1>2, <2>1 DEF GcInv, Sweeping
  <2>5. QED
    BY <2>2, <2>3, <2>4 DEF GcInv, Marking, Looking, Aged
<1>3. QED
  BY <1>1, <1>2, PublishTypes

\* The collection starts to mark.
LEMMA GcFreezes ==
  ASSUME Types, GcInv, Types', gc_freeze
  PROVE  GcInv'
<1>1. /\ gc'.pc = "mark" /\ gc'.frozen = roots /\ gc'.walk = Walk(SetToSeq(roots))
      /\ UNCHANGED <<store, kept>>
  BY AtRest DEF gc_freeze, Gcs
<1>2. /\ gc'.walk.visited = {} /\ gc'.walk.missing = <<>> /\ gc'.walk.pending = SetToSeq(roots)
  BY <1>1 DEF Walk
<1>3. Range(SetToSeq(roots)) = roots
  BY Constants, FS_Subset, SetToSeqLists DEF Types
<1>4. Doomed' = {}
  BY <1>1, DoomedIsNext
<1>5. Marking'
  BY <1>1, <1>2, <1>3, Constants DEF Marking, Reached
<1>6. QED
  BY <1>1, <1>4, <1>5 DEF GcInv, PublishedComplete, Looking, Sweeping, Aged

\* It visits an object.
LEMMA GcMarks ==
  ASSUME Types, GcInv, Types', gc_mark
  PROVE  GcInv'
<1> DEFINE s == gc.walk
           id == Head(s.pending)
           t == Visit(s, MarkOptions)
<1>1. /\ s \in Walks /\ s.pending # <<>> /\ gc.pc = "mark" /\ gc \in Gcs
      /\ gc' = [gc EXCEPT !.walk = t] /\ UNCHANGED <<store, kept>>
  BY DEF gc_mark, Types, Gcs, MarkOptions
<1>2. /\ gc'.pc = "mark" /\ gc'.frozen = gc.frozen /\ gc'.walk = t
  BY <1>1 DEF Gcs
<1>3. /\ MarkOptions.source = store /\ MarkOptions.have = {} /\ MarkOptions.strict = FALSE
      /\ MarkOptions.meta = FALSE
  BY DEF MarkOptions
<1>4. ~Breaks(s, MarkOptions)
  BY <1>3 DEF Breaks
<1>5. Takes(s, MarkOptions) <=> id \notin s.visited /\ id \in store
  BY <1>3 DEF Takes
<1>6. /\ id \in Objects
      /\ t.visited = s.visited \cup {id}
      /\ Reached(t) = Reached(s) \cup (IF Takes(s, MarkOptions) THEN Range(Deps[id]) ELSE {})
      /\ t.missing = IF Takes(s, MarkOptions) /\ id \notin MarkOptions.have
                     THEN Append(s.missing, id) ELSE s.missing
  BY <1>1, <1>4, VisitFacts
<1>7. Range(t.missing) = Range(s.missing) \cup (IF Takes(s, MarkOptions) THEN {id} ELSE {})
  <2>1. Range(Append(s.missing, id)) = Range(s.missing) \cup {id}
    BY <1>1, <1>6, RangeSeq DEF Walks
  <2>2. QED
    BY <1>3, <1>6, <2>1
<1> HIDE DEF t, s, id
<1>8. /\ gc.frozen \subseteq Reached(s)
      /\ \A x \in Range(s.missing) : Range(Deps[x]) \subseteq Reached(s)
      /\ \A r \in kept \cap gc.frozen : Closure(r) \cap s.visited \subseteq Range(s.missing)
  BY <1>1 DEF GcInv, Marking, s
<1>9. \A r \in kept : Closure(r) \subseteq store
  BY DEF GcInv, PublishedComplete
<1>10. Marking'
  <2>1. gc.frozen \subseteq Reached(t)
    BY <1>6, <1>8
  <2>2. \A x \in Range(t.missing) : Range(Deps[x]) \subseteq Reached(t)
    BY <1>6, <1>7, <1>8
  <2>3. \A r \in kept \cap gc.frozen : Closure(r) \cap t.visited \subseteq Range(t.missing)
    BY <1>5, <1>6, <1>7, <1>8, <1>9
  <2>4. QED
    BY <1>1, <1>2, <2>1, <2>2, <2>3 DEF Marking
<1>11. Doomed' = {}
  BY <1>2, DoomedIsNext
<1>12. QED
  BY <1>1, <1>2, <1>9, <1>10, <1>11 DEF GcInv, PublishedComplete, Looking, Sweeping, Aged

\* It has marked all it can reach, and with it every whole graph it set out
\* from: the list has none of their objects.
LEMMA GcLists ==
  ASSUME Types, GcInv, Types', gc_list
  PROVE  GcInv'
<1> DEFINE w == gc.walk
           cutoff == now - Grace
           cand == {o \in store \ (Range(w.missing) \cup gc.leases) : ~written_since(o, cutoff)}
<1>1. /\ gc.pc = "mark" /\ w.pending = <<>> /\ gc \in Gcs /\ w \in Walks
      /\ UNCHANGED <<store, kept, now>>
      /\ gc' = IF cand = {} THEN NoGc
               ELSE [NoGc EXCEPT !.pc = "look", !.frozen = gc.frozen,
                                 !.cutoff = cutoff, !.cand = cand]
  BY DEF gc_list, Types, Gcs
<1>2. Reached(w) = w.visited
  BY <1>1, Constants DEF Reached
<1>3. ASSUME NEW r \in kept \cap gc.frozen
      PROVE  Closure(r) \subseteq Range(w.missing)
  <2> DEFINE T == Range(w.missing) \cap Closure(r)
  <2>1. r \in Objects
    BY Constants DEF Types
  <2>2. /\ r \in Closure(r) /\ Closure(r) \subseteq Objects
        /\ \A x \in Closure(r) : Range(Deps[x]) \subseteq Closure(r)
    BY <2>1, ClosureLeast
  <2>3. /\ r \in w.visited
        /\ \A x \in Range(w.missing) : Range(Deps[x]) \subseteq w.visited
        /\ Closure(r) \cap w.visited \subseteq Range(w.missing)
    BY <1>1, <1>2, <1>3 DEF GcInv, Marking
  <2>4. r \in T /\ T \in SUBSET Objects /\ Closed(T)
    BY <2>2, <2>3 DEF Closed
  <2>5. Closure(r) \subseteq T
    BY <2>1, <2>4, ClosureLeast
  <2>6. QED
    BY <2>5
<1>4. \A r \in kept \cap gc.frozen : Closure(r) \cap cand = {}
  BY <1>3
<1> HIDE DEF cand
<1>5. CASE cand = {}
  BY <1>1, <1>5, GcEnds
<1>6. CASE cand # {}
  <2>1. gc' = [NoGc EXCEPT !.pc = "look", !.frozen = gc.frozen, !.cutoff = cutoff, !.cand = cand]
    BY <1>1, <1>6
  <2>2. gc'.pc = "look" /\ gc'.frozen = gc.frozen /\ gc'.cutoff = cutoff /\ gc'.cand = cand
    BY <2>1, AtRest DEF Gcs
  <2>3. Looking'
    BY <1>1, <1>4, <2>2 DEF Looking
  <2>4. Aged'
    BY <1>1, <2>2, Constants DEF Aged, Types
  <2>5. Doomed' = {}
    BY <2>2, DoomedIsNext
  <2>6. QED
    BY <1>1, <2>2, <2>3, <2>4, <2>5 DEF GcInv, PublishedComplete, Marking, Sweeping
<1>7. QED
  BY <1>5, <1>6

\* It looks again: the roots are those it marked from, so every graph that is
\* whole was marked.
LEMMA GcLooks ==
  ASSUME Types, GcInv, Types', gc_look
  PROVE  GcInv'
<1>1. /\ gc.pc = "look" /\ gc \in Gcs /\ UNCHANGED <<store, kept, now>>
      /\ gc' = NoGc \/ (roots = gc.frozen /\ gc' = [gc EXCEPT !.pc = "sweep", !.frozen = {}])
  BY DEF gc_look, Types
<1>2. CASE gc' = NoGc
  BY <1>1, <1>2, GcEnds
<1>3. CASE roots = gc.frozen /\ gc' = [gc EXCEPT !.pc = "sweep", !.frozen = {}]
  <2>1. gc'.pc = "sweep" /\ gc'.cand = gc.cand /\ gc'.cutoff = gc.cutoff
    BY <1>1, <1>3 DEF Gcs
  <2>2. \A r \in kept : Closure(r) \cap gc.cand = {}
    BY <1>1, <1>3 DEF Types, GcInv, Looking
  <2>3. Doomed' \subseteq gc.cand
    BY <2>1, DoomedIsNext
  <2>4. Sweeping'
    BY <1>1, <2>2, <2>3 DEF Sweeping
  <2>5. QED
    BY <1>1, <2>1, <2>4 DEF GcInv, PublishedComplete, Marking, Looking, Aged
<1>4. QED
  BY <1>1, <1>2, <1>3

\* It deletes an object, which is of no graph that is whole.
LEMMA GcSweeps ==
  ASSUME Types, GcInv, Types', NEW o \in Objects, gc_sweep(o)
  PROVE  /\ GcInv'
         /\ \A x \in store \ store' : mtime[x] <= now - Grace
<1>1. /\ gc.pc = "sweep" /\ o \in gc.cand /\ gc \in Gcs /\ UNCHANGED <<kept, now>>
      /\ gc' = NoGc \/ gc' = [gc EXCEPT !.cand = @ \ {o}]
  BY DEF gc_sweep, Types
<1>2. /\ store' \subseteq store /\ store \ store' \subseteq Doomed
      /\ \A x \in store' : mtime'[x] = mtime[x]
  <2>1. CASE written_since(o, gc.cutoff)
    BY <2>1 DEF gc_sweep
  <2>2. CASE ~written_since(o, gc.cutoff)
    <3>1. store' = store \ {o} /\ mtime' = [mtime EXCEPT ![o] = 0]
      BY <2>2 DEF gc_sweep
    <3>2. o \in Doomed
      BY <1>1, <2>2 DEF Doomed
    <3>3. QED
      BY <3>1, <3>2 DEF Types
  <2>3. QED
    BY <2>1, <2>2
<1>3. gc'.pc \in {"idle", "sweep"} /\ gc'.cand \subseteq gc.cand
      /\ (gc'.pc = "sweep" => gc'.cutoff = gc.cutoff)
  BY <1>1 DEF NoGc, Gcs
<1>4. Doomed' \subseteq Doomed
  BY <1>1, <1>2, <1>3, DoomedIs, DoomedIsNext
<1>5. PublishedComplete' /\ Sweeping'
  BY <1>1, <1>2, <1>4 DEF GcInv, PublishedComplete, Sweeping
<1>6. Aged' /\ Marking' /\ Looking'
  BY <1>1, <1>3 DEF GcInv, Aged, Marking, Looking
<1>7. ASSUME NEW x \in store \ store'
      PROVE  mtime[x] <= now - Grace
  <2>1. x \in Objects /\ ~(mtime[x] > gc.cutoff)
    BY <1>2, DoomedIs DEF Types
  <2>2. mtime[x] \in Int /\ now \in Int /\ Grace \in Int /\ gc.cutoff \in Int
    BY <1>1, <2>1, Constants DEF Types, Gcs
  <2>3. gc.cutoff <= now - Grace
    BY <1>1 DEF GcInv, Aged
  <2>4. QED
    BY <2>1, <2>2, <2>3
<1>8. QED
  BY <1>5, <1>6, <1>7 DEF GcInv


-----------------------------------------------------------------------------
(* Transfers *)

\* A step that leaves the transfer alone and deletes nothing.
LEMMA XfUntouched ==
  ASSUME Types, XfInv, xf' = xf, store \subseteq store'
  PROVE  XfInv'
  BY DEF XfInv, Planning, PlanIsReference, Importing, Sent

\* One that ends it.
LEMMA XfEnds ==
  ASSUME xf' = NoXf
  PROVE  XfInv'
<1>1. xf'.pc = "idle"
  BY DEF NoXf
<1>2. QED
  BY <1>1 DEF XfInv, Planning, PlanIsReference, Importing

\* A sweep: the import counts on nothing once an object was deleted.
LEMMA XfSwept ==
  ASSUME Types, XfInv, NEW o \in Objects, gc_sweep(o)
  PROVE  XfInv'
<1>1. /\ xf \in Xfs /\ xf' = [xf EXCEPT !.sound = @ /\ store' = store]
  BY DEF Types, gc_sweep
<1>2. /\ xf'.pc = xf.pc /\ xf'.root = xf.root /\ xf'.form = xf.form /\ xf'.meta = xf.meta
      /\ xf'.claimed = xf.claimed /\ xf'.walk = xf.walk /\ xf'.table = xf.table
      /\ xf'.uncertain = xf.uncertain /\ xf'.complete = xf.complete
      /\ xf'.sound = (xf.sound /\ store' = store)
  BY <1>1 DEF Xfs
<1>3. Planning'
  BY <1>2 DEF XfInv, Planning, Sent
<1>4. PlanIsReference'
  BY <1>2 DEF XfInv, PlanIsReference
<1>5. Importing'
  BY <1>2 DEF XfInv, Importing
<1>6. QED
  BY <1>3, <1>4, <1>5 DEF XfInv

\* A plan begins at the root.
LEMMA XfBegins ==
  ASSUME Types', NEW r \in Roots, xf'.pc = "planning", xf'.root = r, xf'.walk = Walk(<<r>>)
  PROVE  XfInv'
<1>1. /\ xf'.walk.visited = {} /\ xf'.walk.pending = <<r>> /\ xf'.walk.missing = <<>>
      /\ xf'.walk.uncertain = <<>>
  BY DEF Walk
<1>2. Reached(xf'.walk) = {r}
  <2>1. Range(<<r>>) = {r}
    BY DEF Range
  <2>2. QED
    BY <1>1, <2>1 DEF Reached
<1>3. Cardinality({}) = 0
  BY FS_EmptySet
<1>4. r \in Closure(r) /\ {r} \ xf'.claimed \subseteq Lacks(r, xf'.claimed)
  BY Constants, ClosureLeast, LacksLeast
<1>5. Planning'
  BY <1>1, <1>2, <1>3, <1>4, Constants DEF Planning
<1>6. QED
  BY <1>5 DEF XfInv, PlanIsReference, Importing

\* The sender visits an object.
LEMMA XfPlans ==
  ASSUME Types, XfInv, Types', compute_missing
  PROVE  XfInv'
<1> DEFINE s == xf.walk
           q == PlanOptions
           id == Head(s.pending)
           t == Visit(s, q)
           listed == Range(s.missing) \cup Range(s.uncertain)
           deps == Range(Deps[id])
<1>1. /\ s \in Walks /\ s.pending # <<>> /\ xf.pc = "planning" /\ xf \in Xfs
      /\ xf' = [xf EXCEPT !.walk = t]
  BY DEF compute_missing, Types, Xfs, PlanOptions
<1>2. /\ xf'.pc = "planning" /\ xf'.walk = t /\ xf'.root = xf.root /\ xf'.form = xf.form
      /\ xf'.meta = xf.meta /\ xf'.claimed = xf.claimed
      /\ xf.root \in Objects /\ xf.form \in {"exact", "bloom"}
  BY <1>1, Constants DEF Xfs
<1>3. /\ q.source = xf.source /\ q.have = xf.claimed /\ q.form = xf.form
      /\ q.strict = (xf.form = "exact") /\ q.meta = xf.meta
  BY DEF PlanOptions
<1>4. /\ id \in Objects /\ id \in Reached(s)
      /\ t.visited = s.visited \cup {id}
      /\ t.failed = (s.failed \/ Breaks(s, q))
      /\ ~Breaks(s, q) => Reached(t) = Reached(s) \cup (IF Takes(s, q) THEN deps ELSE {})
      /\ t.missing = IF Takes(s, q) /\ id \notin q.have THEN Append(s.missing, id) ELSE s.missing
      /\ t.uncertain = IF Takes(s, q) /\ id \in q.have THEN Append(s.uncertain, id) ELSE s.uncertain
      /\ t.absent = s.absent \cup
           (IF id \notin s.visited /\ id \notin q.source /\ ~q.strict
               /\ ~(id \in q.have /\ is_definite(q.form)) THEN {id} ELSE {})
  BY <1>1, VisitFacts
<1>5. /\ s.missing \in Seq(Objects) /\ s.uncertain \in Seq(Objects)
      /\ s.visited \subseteq Objects /\ s.absent \subseteq Objects /\ s.failed \in BOOLEAN
  BY <1>1 DEF Walks
<1>6. /\ IsFiniteSet(Range(s.missing)) /\ IsFiniteSet(Range(s.uncertain))
      /\ Range(Append(s.missing, id)) = Range(s.missing) \cup {id}
      /\ Len(Append(s.missing, id)) = Len(s.missing) + 1
      /\ Range(Append(s.uncertain, id)) = Range(s.uncertain) \cup {id}
      /\ Len(Append(s.uncertain, id)) = Len(s.uncertain) + 1
  BY <1>4, <1>5, RangeSeq
<1>7. Takes(s, q) <=> /\ id \notin s.visited /\ id \in xf.source
                      /\ Sent(id)
                      /\ ~(id \in xf.claimed /\ xf.form = "exact")
  BY <1>3 DEF Takes, Sent, is_definite
<1> HIDE DEF s, q, id, t, deps
<1> SUFFICES ASSUME ~t.failed PROVE XfInv'
  BY <1>2 DEF XfInv, Planning, PlanIsReference, Importing
<1>8. ~s.failed /\ ~Breaks(s, q)
  BY <1>4, <1>5
<1>9. /\ xf.root \in Reached(s)
      /\ Len(s.missing) = Cardinality(Range(s.missing))
      /\ Len(s.uncertain) = Cardinality(Range(s.uncertain))
      /\ listed \subseteq s.visited /\ \A x \in listed : Sent(x)
      /\ Range(s.missing) \cap xf.claimed = {}
      /\ Range(s.uncertain) \subseteq xf.claimed
      /\ xf.form = "exact" => s.uncertain = <<>>
      /\ \A x \in listed : Range(Deps[x]) \subseteq Reached(s)
      /\ s.absent = {} =>
           \A x \in s.visited : Sent(x) =>
               x \in listed \/ (xf.form = "exact" /\ x \in xf.claimed)
      /\ xf.form = "exact" => Reached(s) \ xf.claimed \subseteq Lacks(xf.root, xf.claimed)
      /\ xf.form = "bloom" => Reached(s) \subseteq Closure(xf.root)
  BY <1>1, <1>8 DEF XfInv, Planning, s
<1>10. /\ Range(t.missing) = Range(s.missing) \cup
             (IF Takes(s, q) /\ id \notin xf.claimed THEN {id} ELSE {})
       /\ Range(t.uncertain) = Range(s.uncertain) \cup
             (IF Takes(s, q) /\ id \in xf.claimed THEN {id} ELSE {})
  BY <1>3, <1>4, <1>6
<1>11. /\ Len(t.missing) = Cardinality(Range(t.missing))
       /\ Len(t.uncertain) = Cardinality(Range(t.uncertain))
  <2>1. Takes(s, q) => id \notin listed
    BY <1>7, <1>9
  <2>2. id \notin listed => /\ Cardinality(Range(s.missing) \cup {id}) = Cardinality(Range(s.missing)) + 1
                            /\ Cardinality(Range(s.uncertain) \cup {id}) = Cardinality(Range(s.uncertain)) + 1
    BY <1>6, FS_AddElement
  <2>3. QED
    BY <1>4, <1>6, <1>9, <2>1, <2>2
<1> DEFINE now_listed == Range(t.missing) \cup Range(t.uncertain)
<1>12. now_listed = listed \cup (IF Takes(s, q) THEN {id} ELSE {})
  BY <1>10
<1>13. Reached(t) = Reached(s) \cup (IF Takes(s, q) THEN deps ELSE {})
  BY <1>4, <1>8
<1>14. now_listed \subseteq t.visited /\ \A x \in now_listed : Sent(x)
  BY <1>4, <1>7, <1>9, <1>12
<1>15. Range(t.missing) \cap xf.claimed = {} /\ Range(t.uncertain) \subseteq xf.claimed
  BY <1>9, <1>10
<1>16. xf.form = "exact" => t.uncertain = <<>>
  BY <1>3, <1>4, <1>7, <1>9
<1>17. \A x \in now_listed : Range(Deps[x]) \subseteq Reached(t)
  BY <1>9, <1>12, <1>13 DEF deps
<1>18. t.absent = {} =>
         \A x \in t.visited : Sent(x) =>
             x \in now_listed \/ (xf.form = "exact" /\ x \in xf.claimed)
  <2> SUFFICES ASSUME t.absent = {}, NEW x \in t.visited, Sent(x),
                      ~(xf.form = "exact" /\ x \in xf.claimed)
               PROVE  x \in now_listed
    OBVIOUS
  <2>1. s.absent = {}
    BY <1>4
  <2>2. CASE x \in s.visited
    BY <1>9, <1>12, <2>1, <2>2
  <2>3. CASE x \notin s.visited
    <3>1. x = id
      BY <1>4, <2>3
    <3>2. id \in xf.source
      <4>1. CASE q.strict
        BY <1>3, <1>8, <2>3, <3>1, <4>1 DEF Breaks, id
      <4>2. CASE ~q.strict
        <5>1. ~(id \in q.have /\ is_definite(q.form))
          BY <1>3, <3>1 DEF is_definite
        <5>2. QED
          BY <1>3, <1>4, <2>3, <3>1, <4>2, <5>1
      <4>3. QED
        BY <4>1, <4>2
    <3>3. Takes(s, q)
      BY <1>7, <2>3, <3>1, <3>2
    <3>4. QED
      BY <1>12, <3>1, <3>3
  <2>4. QED
    BY <2>2, <2>3
<1>19. xf.form = "exact" => Reached(t) \ xf.claimed \subseteq Lacks(xf.root, xf.claimed)
  <2> SUFFICES ASSUME xf.form = "exact"
               PROVE  Reached(t) \ xf.claimed \subseteq Lacks(xf.root, xf.claimed)
    OBVIOUS
  <2>1. Takes(s, q) => id \in Lacks(xf.root, xf.claimed)
    BY <1>4, <1>7, <1>9
  <2>2. Takes(s, q) => deps \ xf.claimed \subseteq Lacks(xf.root, xf.claimed)
    BY <1>2, <2>1, LacksLeast DEF deps
  <2>3. QED
    BY <1>9, <1>13, <2>2
<1>20. xf.form = "bloom" => Reached(t) \subseteq Closure(xf.root)
  <2>1. xf.form = "bloom" => deps \subseteq Closure(xf.root)
    BY <1>2, <1>4, <1>9, ClosureLeast DEF deps
  <2>2. QED
    BY <1>9, <1>13, <2>1
<1>21. Planning'
  <2>1. \A x : Sent(x)' <=> Sent(x)
    BY <1>2 DEF Sent
  <2>2. xf.root \in Reached(t)
    BY <1>9, <1>13
  <2>3. now_listed \subseteq {x \in t.visited : Sent(x)'}
    BY <1>14, <2>1
  <2> HIDE DEF listed
  <2>4. QED
    BY <1>2, <1>11, <1>15, <1>16, <1>17, <1>18, <1>19, <1>20, <2>1, <2>2, <2>3 DEF Planning
<1>22. QED
  BY <1>2, <1>21 DEF XfInv, PlanIsReference, Importing


\* The walk is over: what is listed is what the definition asks for.
LEMMA XfOffers ==
  ASSUME Types, XfInv, Types', offer
  PROVE  XfInv'
<1> DEFINE w == xf.walk
           list == w.missing \o w.uncertain
           listed == Range(w.missing) \cup Range(w.uncertain)
<1>1. xf \in Xfs /\ w \in Walks /\ xf.pc = "planning" /\ w.pending = <<>>
  BY DEF offer, Types, Xfs
<1>2. CASE w.failed \/ w.absent # {}
  BY <1>2, XfEnds DEF offer
<1>3. CASE ~(w.failed \/ w.absent # {})
  <2>1. /\ xf'.pc = "offered" /\ xf'.root = xf.root /\ xf'.form = xf.form /\ xf'.meta = xf.meta
        /\ xf'.claimed = xf.claimed /\ xf'.table = w.missing /\ xf'.uncertain = w.uncertain
        /\ xf.root \in Objects /\ xf.form \in {"exact", "bloom"}
    BY <1>1, <1>3, Constants DEF offer, Xfs
  <2>2. /\ w.missing \in Seq(Objects) /\ w.uncertain \in Seq(Objects) /\ w.visited \subseteq Objects
    BY <1>1 DEF Walks
  <2>3. Reached(w) = w.visited
    BY <1>1, Constants DEF Reached
  <2> HIDE DEF w
  <2>4. /\ xf.root \in w.visited
        /\ Len(w.missing) = Cardinality(Range(w.missing))
        /\ Len(w.uncertain) = Cardinality(Range(w.uncertain))
        /\ listed \subseteq w.visited /\ \A x \in listed : Sent(x)
        /\ Range(w.missing) \cap xf.claimed = {}
        /\ Range(w.uncertain) \subseteq xf.claimed
        /\ xf.form = "exact" => w.uncertain = <<>>
        /\ \A x \in listed : Range(Deps[x]) \subseteq w.visited
        /\ \A x \in w.visited : Sent(x) =>
               x \in listed \/ (xf.form = "exact" /\ x \in xf.claimed)
        /\ xf.form = "exact" => w.visited \ xf.claimed \subseteq Lacks(xf.root, xf.claimed)
        /\ xf.form = "bloom" => w.visited \subseteq Closure(xf.root)
    BY <1>1, <1>3, <2>3 DEF XfInv, Planning, w
  <2>5. list \in Seq(Objects) /\ Len(list) = Len(w.missing) + Len(w.uncertain) /\ Range(list) = listed
    BY <2>2, RangeConcat
  <2>6. Len(list) = Cardinality(Range(list))
    <3>1. IsFiniteSet(Range(w.missing)) /\ IsFiniteSet(Range(w.uncertain))
      BY <2>2, RangeSeq
    <3>2. Range(w.missing) \cap Range(w.uncertain) = {}
      BY <2>4
    <3>3. Cardinality(listed) = Cardinality(Range(w.missing)) + Cardinality(Range(w.uncertain)) - 0
      BY <3>1, <3>2, FS_Union, FS_EmptySet
    <3>4. Cardinality(Range(w.missing)) \in Nat /\ Cardinality(Range(w.uncertain)) \in Nat
      BY <3>1, FS_CardinalityType
    <3>5. QED
      BY <2>4, <2>5, <3>3, <3>4
  <2> DEFINE sent == IF xf.meta THEN Objects \ Payload ELSE Objects
  <2>7. \A x \in Objects : Sent(x) <=> x \in sent
    BY DEF Sent
  <2>8. \A x \in w.visited : Sent(x) \/ Range(Deps[x]) = {}
    BY Constants DEF Sent
  <2> HIDE DEF sent, list
  <2>9. xf.form = "exact" => Range(w.missing) = Lacks(xf.root, xf.claimed) \cap sent
    <3> SUFFICES ASSUME xf.form = "exact"
                 PROVE  Range(w.missing) = Lacks(xf.root, xf.claimed) \cap sent
      OBVIOUS
    <3>1. listed = Range(w.missing)
      BY <2>4, Constants
    <3> DEFINE T == w.visited \ xf.claimed
    <3>2. T \in SUBSET Objects /\ {xf.root} \ xf.claimed \subseteq T
      BY <2>2, <2>4
    <3>3. \A x \in T : Range(Deps[x]) \ xf.claimed \subseteq T
      BY <2>4, <2>8
    <3> HIDE DEF T
    <3>4. Lacks(xf.root, xf.claimed) \subseteq T
      BY <2>1, <3>2, <3>3, LacksLeast
    <3> USE DEF T
    <3>5. Lacks(xf.root, xf.claimed) \cap sent \subseteq Range(w.missing)
      BY <2>2, <2>4, <2>7, <3>1, <3>4
    <3>6. Range(w.missing) \subseteq Lacks(xf.root, xf.claimed) \cap sent
      BY <2>2, <2>4, <2>7, <3>1
    <3>7. QED
      BY <3>5, <3>6
  <2>10. xf.form = "bloom" => /\ listed = Closure(xf.root) \cap sent
                              /\ Range(w.uncertain) = listed \cap xf.claimed
    <3> SUFFICES ASSUME xf.form = "bloom"
                 PROVE  /\ listed = Closure(xf.root) \cap sent
                        /\ Range(w.uncertain) = listed \cap xf.claimed
      OBVIOUS
    <3>1. Closed(w.visited)
      BY <2>4, <2>8 DEF Closed
    <3>2. Closure(xf.root) \subseteq w.visited
      BY <2>1, <2>2, <2>4, <3>1, ClosureLeast
    <3>3. listed = Closure(xf.root) \cap sent
      BY <2>2, <2>4, <2>7, <3>2
    <3>4. QED
      BY <2>4, <3>3
  <2>11. PlanIsReference'
    BY <2>1, <2>5, <2>6, <2>9, <2>10 DEF PlanIsReference, list, sent
  <2>12. QED
    BY <2>1, <2>11 DEF XfInv, Planning, Importing
<1>4. QED
  BY <1>2, <1>3

\* A bundle without a gap, whose prerequisites are in a closed store: the
\* table and the store together are closed, and the root is in the table.
LEMMA XfImports ==
  ASSUME Types, XfInv, Types', import_begin
  PROVE  XfInv'
<1>1. xf \in Xfs /\ xf.pc = "offered" /\ xf.form = "exact" /\ store' = store
  BY DEF import_begin, Types
<1>2. CASE dangling # {}
  BY <1>2, XfEnds DEF import_begin
<1>3. CASE dangling = {}
  <2>1. xf' = [xf EXCEPT !.pc = "importing", !.complete = xf.pre \subseteq store,
                         !.sound = Closed(store) /\ xf.root \notin xf.claimed]
    BY <1>3 DEF import_begin
  <2>2. /\ xf'.pc = "importing" /\ xf'.root = xf.root /\ xf'.form = "exact" /\ xf'.table = xf.table
        /\ xf'.complete = (xf.pre \subseteq store)
        /\ xf'.sound = (Closed(store) /\ xf.root \notin xf.claimed)
    BY <1>1, <2>1 DEF Xfs
  <2>3. /\ xf.root \in Objects /\ xf.root \notin Payload /\ xf.table \in Seq(Objects)
    BY <1>1, Constants DEF Xfs
  <2>4. ASSUME xf.pre \subseteq store, Closed(store), xf.root \notin xf.claimed
        PROVE  Closure(xf.root) \subseteq store \cup Range(xf.table)
    <3> DEFINE T == store \cup Range(xf.table)
    <3>1. Range(xf.table) = Lacks(xf.root, xf.claimed)
                              \cap (IF xf.meta THEN Objects \ Payload ELSE Objects)
      BY <1>1 DEF XfInv, PlanIsReference
    <3>2. xf.root \in Range(xf.table)
      BY <2>3, <2>4, <3>1, LacksLeast
    <3>3. \A x \in Range(xf.table) : Range(Deps[x]) \subseteq Range(xf.table) \cup xf.pre
      BY <1>3 DEF dangling
    <3>4. T \in SUBSET Objects
      BY <2>3, RangeSeq DEF Types
    <3>5. Closed(T)
      BY <2>4, <3>3 DEF Closed
    <3>6. QED
      BY <2>3, <3>2, <3>4, <3>5, ClosureLeast
  <2>5. Importing'
    BY <1>1, <2>2, <2>4 DEF Importing
  <2>6. QED
    BY <2>2, <2>5 DEF XfInv, Planning, PlanIsReference
<1>4. QED
  BY <1>2, <1>3

\* With the uncertain objects the receiver lacks, the table has what the store
\* has not.
LEMMA XfConfirms ==
  ASSUME Types, XfInv, Types', confirm
  PROVE  XfInv'
<1> DEFINE more == Lacking(xf.uncertain)
<1>1. xf \in Xfs /\ xf.pc = "offered" /\ xf.form = "bloom" /\ store' = store
  BY DEF confirm, Types
<1>2. /\ xf'.pc = "importing" /\ xf'.root = xf.root /\ xf'.form = "bloom" /\ xf'.meta = xf.meta
      /\ xf'.table = xf.table \o more
  BY <1>1 DEF confirm, Xfs
<1>3. xf.table \in Seq(Objects) /\ xf.uncertain \in Seq(Objects) /\ xf.root \in Objects
  BY <1>1, Constants DEF Xfs
<1>4. more \in Seq(Objects) /\ Range(more) = Range(xf.uncertain) \ store
  <2> DEFINE at == {i \in DOMAIN xf.uncertain : xf.uncertain[i] \notin store}
  <2>1. more \in Seq(Objects) /\ Range(more) = {xf.uncertain[i] : i \in at}
    BY <1>3, AtPlacesLists DEF Lacking
  <2>2. {xf.uncertain[i] : i \in at} = Range(xf.uncertain) \ store
    BY DEF Range
  <2>3. QED
    BY <2>1, <2>2
<1> HIDE DEF more
<1>5. Range(xf'.table) = Range(xf.table) \cup (Range(xf.uncertain) \ store)
  BY <1>2, <1>3, <1>4, RangeConcat
<1>6. Range(xf.table) \cup Range(xf.uncertain) =
        Closure(xf.root) \cap (IF xf.meta THEN Objects \ Payload ELSE Objects)
  <2>1. Range(xf.table \o xf.uncertain) = Range(xf.table) \cup Range(xf.uncertain)
    BY <1>3, RangeConcat
  <2>2. QED
    BY <1>1, <2>1 DEF XfInv, PlanIsReference
<1>7. Closure(xf.root) \subseteq Objects
  BY <1>3, ClosureLeast
<1>8. Importing'
  BY <1>1, <1>2, <1>5, <1>6, <1>7 DEF Importing
<1>9. QED
  BY <1>2, <1>8 DEF XfInv, Planning, PlanIsReference

\* One object goes from the table into the store.
LEMMA XfStores ==
  ASSUME Types, XfInv, Types', import_object
  PROVE  XfInv'
<1>1. xf \in Xfs /\ xf.pc = "importing" /\ xf.table \in Seq(Objects) /\ xf.table # <<>>
  BY DEF import_object, Types, Xfs
<1>2. /\ Head(xf.table) \in Objects /\ Range(xf.table) = {Head(xf.table)} \cup Range(Tail(xf.table))
  BY <1>1, RangeSeq
<1>3. store' = store \cup {Head(xf.table)}
  BY <1>2, PutTypes DEF import_object
<1>4. /\ xf'.pc = xf.pc /\ xf'.root = xf.root /\ xf'.form = xf.form /\ xf'.meta = xf.meta
      /\ xf'.complete = xf.complete /\ xf'.sound = xf.sound /\ xf'.table = Tail(xf.table)
  BY <1>1 DEF import_object, Xfs
<1>5. store \cup Range(xf.table) = store' \cup Range(xf'.table)
  BY <1>2, <1>3, <1>4
<1>6. Importing'
  BY <1>4, <1>5 DEF XfInv, Importing
<1>7. QED
  BY <1>1, <1>4, <1>6 DEF XfInv, Planning, PlanIsReference

-----------------------------------------------------------------------------
(* The theorems *)

\* A new store satisfies the invariant.
LEMMA InvInit == Init => Inv
<1> SUFFICES ASSUME Init PROVE Inv
  OBVIOUS
<1>1. Types
  BY TypesInit
<1>2. gc.pc = "idle" /\ xf.pc = "idle" /\ kept = {}
  BY DEF Init, NoGc, NoXf
<1>3. GcInv
  BY <1>2 DEF GcInv, PublishedComplete, Marking, Looking, Sweeping, Aged
<1>4. XfInv
  BY <1>2 DEF XfInv, Planning, PlanIsReference, Importing
<1>5. QED
  BY <1>1, <1>3, <1>4 DEF Inv

\* An object that is deleted was written a grace period ago or earlier.
Spares == \A o \in store \ store' : mtime[o] <= now - Grace

\* Every step keeps it, and deletes nothing that is young.
LEMMA InvNext ==
  ASSUME Inv, [Next]_vars
  PROVE  Inv' /\ Spares
<1>1. Types /\ GcInv /\ XfInv /\ now \in Int /\ now <= now
  BY DEF Inv, Types
<1>2. CASE UNCHANGED vars
  <2>1. UNCHANGED <<store, mtime, now, roots, txn, gc, xf, kept>>
    BY <1>2 DEF vars
  <2>2. Types'
    BY <1>1, <2>1 DEF Types
  <2>3. GcInv' /\ XfInv'
    BY <1>1, <2>1, <2>2, GcUntouched, XfUntouched
  <2>4. QED
    BY <2>1, <2>2, <2>3 DEF Inv, Spares
<1>3. ASSUME NEW r \in Roots, drop_root(r) \/ begin(r) PROVE Inv' /\ Spares
  <2>1. Types'
    BY <1>1, <1>3, TypesWriter
  <2>2. UNCHANGED <<store, mtime, gc, xf, now>> /\ kept' \subseteq kept
    BY <1>3 DEF drop_root, begin
  <2>3. GcInv' /\ XfInv'
    BY <1>1, <2>1, <2>2, GcUntouched, XfUntouched
  <2>4. QED
    BY <2>1, <2>2, <2>3 DEF Inv, Spares
<1>4. ASSUME NEW o \in Objects, txn_put(o) PROVE Inv' /\ Spares
  <2>1. Types'
    BY <1>1, <1>4, TypesWriter
  <2>2. put_object(o) /\ UNCHANGED <<gc, xf, kept, now>>
    BY <1>4 DEF txn_put
  <2>3. store \subseteq store'
    BY <1>1, <2>2, PutTypes
  <2>4. GcInv' /\ XfInv'
    BY <1>1, <2>1, <2>2, <2>3, GcPut, XfUntouched
  <2>5. QED
    BY <2>1, <2>3, <2>4 DEF Inv, Spares
<1>5. CASE txn_publish
  <2>1. Types'
    BY <1>1, <1>5, TypesWriter
  <2>2. txn.root \in Roots /\ publish(txn.root) /\ UNCHANGED <<store, mtime, gc, xf, now>>
    BY <1>1, <1>5 DEF txn_publish, Types, Txns
  <2>3. GcInv' /\ XfInv'
    BY <1>1, <2>1, <2>2, GcPublish, XfUntouched
  <2>4. QED
    BY <2>1, <2>2, <2>3 DEF Inv, Spares
<1>6. CASE tick
  <2>1. Types'
    BY <1>1, <1>6, TypesWriter
  <2>2. UNCHANGED <<store, mtime, gc, xf, kept>> /\ now <= now'
    BY <1>1, <1>6 DEF tick
  <2>3. GcInv' /\ XfInv'
    BY <1>1, <2>1, <2>2, GcUntouched, XfUntouched
  <2>4. QED
    BY <2>1, <2>2, <2>3 DEF Inv, Spares
<1>7. CASE crash
  <2>1. Types'
    BY <1>1, <1>7, TypesWriter
  <2>2. UNCHANGED <<store, mtime, kept, now>> /\ gc' \in {gc, NoGc} /\ xf' \in {xf, NoXf}
    BY <1>7 DEF crash
  <2>3. GcInv' /\ XfInv'
    BY <1>1, <2>1, <2>2, GcUntouched, GcEnds, XfUntouched, XfEnds
  <2>4. QED
    BY <2>1, <2>2, <2>3 DEF Inv, Spares
<1>8. CASE gc_freeze \/ gc_mark \/ gc_list \/ gc_look
  <2>1. Types'
    BY <1>1, <1>8, TypesCollector
  <2>2. UNCHANGED <<store, xf>>
    BY <1>8 DEF gc_freeze, gc_mark, gc_list, gc_look
  <2>3. GcInv' /\ XfInv'
    BY <1>1, <1>8, <2>1, <2>2, GcFreezes, GcMarks, GcLists, GcLooks, XfUntouched
  <2>4. QED
    BY <2>1, <2>2, <2>3 DEF Inv, Spares
<1>9. ASSUME NEW o \in Objects, gc_sweep(o) PROVE Inv' /\ Spares
  <2>1. Types'
    BY <1>1, <1>9, TypesCollector
  <2>2. GcInv' /\ Spares
    BY <1>1, <1>9, <2>1, GcSweeps DEF Spares
  <2>3. XfInv'
    BY <1>1, <1>9, XfSwept
  <2>4. QED
    BY <2>1, <2>2, <2>3 DEF Inv
<1>10. ASSUME NEW r \in Roots, create_bundle(r) \/ negotiate(r) PROVE Inv' /\ Spares
  <2>1. Types'
    BY <1>1, <1>10, TypesTransfer
  <2>2. UNCHANGED <<store, mtime, gc, kept, now>>
    BY <1>10 DEF create_bundle, negotiate
  <2>3. xf'.pc = "planning" /\ xf'.root = r /\ xf'.walk = Walk(<<r>>)
    BY <1>10, AtRest DEF create_bundle, negotiate, Xfs
  <2>4. GcInv' /\ XfInv'
    BY <1>1, <2>1, <2>2, <2>3, GcUntouched, XfBegins
  <2>5. QED
    BY <2>1, <2>2, <2>4 DEF Inv, Spares
<1>11. CASE compute_missing \/ offer \/ import_begin \/ confirm
  <2>1. Types'
    BY <1>1, <1>11, TypesTransfer
  <2>2. UNCHANGED <<store, mtime, gc, kept, now>>
    BY <1>11 DEF compute_missing, offer, import_begin, confirm
  <2>3. GcInv'
    BY <1>1, <2>1, <2>2, GcUntouched
  <2>4. XfInv'
    BY <1>1, <1>11, <2>1, XfPlans, XfOffers, XfImports, XfConfirms
  <2>5. QED
    BY <2>1, <2>2, <2>3, <2>4 DEF Inv, Spares
<1>12. CASE import_object
  <2>1. Types'
    BY <1>1, <1>12, TypesTransfer
  <2>2. /\ Head(xf.table) \in Objects /\ put_object(Head(xf.table))
        /\ UNCHANGED <<gc, kept, now>>
    BY <1>1, <1>12, RangeSeq DEF import_object, Types, Xfs
  <2>3. GcInv' /\ XfInv'
    BY <1>1, <1>12, <2>1, <2>2, GcPut, XfStores
  <2>4. store \subseteq store'
    BY <1>1, <2>2, PutTypes
  <2>5. QED
    BY <2>1, <2>3, <2>4 DEF Inv, Spares
<1>13. CASE import_publish
  <2>1. Types'
    BY <1>1, <1>13, TypesTransfer
  <2>2. /\ xf.root \in Roots /\ UNCHANGED <<store, mtime, gc, now>> /\ xf' = NoXf
        /\ publish(xf.root) \/ kept' = kept
    BY <1>1, <1>13 DEF import_publish, Types, Xfs
  <2>3. GcInv' /\ XfInv'
    BY <1>1, <2>1, <2>2, GcPublish, GcUntouched, XfEnds
  <2>4. QED
    BY <2>1, <2>2, <2>3 DEF Inv, Spares
<1>14. QED
  BY <1>2, <1>3, <1>4, <1>5, <1>6, <1>7, <1>8, <1>9, <1>10, <1>11, <1>12, <1>13 DEF Next

\* The invariant holds throughout.
LEMMA InvAlways == Spec => []Inv
<1>1. Inv /\ [Next]_vars => Inv'
  BY InvNext
<1>2. QED
  BY <1>1, InvInit, PTL DEF Spec

\* A collection that races a commit loses the race and not the data: the graph
\* of a root published whole stays whole (collect: the roots read before the
\* mark and again before the sweep).
THEOREM PublishedAlwaysComplete == Spec => []PublishedComplete
<1>1. Inv => PublishedComplete
  BY DEF Inv, GcInv
<1>2. QED
  BY <1>1, InvAlways, PTL

\* Nothing a writer has stored for the root it is about to publish is deleted
\* within the grace period (collect's cutoff and written_since).
THEOREM TransactionAlwaysIntact == Spec => TransactionIntact
<1>1. Inv /\ [Next]_vars =>
        [\A o \in store \ store' :
           (/\ txn.pc = "putting"
            /\ o \in Closure(txn.root) \ (txn.todo \cup txn.reused))
           => mtime[o] <= now - Grace]_vars
  BY InvNext DEF Spares
<1>2. QED
  BY <1>1, InvAlways, PTL DEF Spec, TransactionIntact

\* What compute_missing lists, for every graph, source and have-set, is each
\* object once and what the definition asks for.
THEOREM PlanAlwaysReference == Spec => []PlanIsReference
<1>1. Inv => PlanIsReference
  BY DEF Inv, XfInv
<1>2. QED
  BY <1>1, InvAlways, PTL

\* An import that reports itself complete leaves the whole graph in the store
\* (import_bundle's prerequisites, and the confirmation after a filter).
THEOREM ImportAlwaysCloses == Spec => []ImportCloses
<1>1. Inv => ImportCloses
  BY Constants DEF Inv, XfInv, Importing, ImportCloses
<1>2. QED
  BY <1>1, InvAlways, PTL

=============================================================================
