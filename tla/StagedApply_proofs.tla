------------------------ MODULE StagedApply_proofs ------------------------
(***************************************************************************)
(* Proofs about StagedApply, for any names, contents, plans and number of  *)
(* crashes: an interrupted apply can always be finished, and one that      *)
(* completes has produced the new build.                                   *)
(***************************************************************************)
EXTENDS StagedApply, TLAPS

Files(plan) == Entries(plan.new, "file")
Dirs(plan)  == Entries(plan.new, "dir")
Links(plan) == Entries(plan.new, "link")

JournalStates == {"staging", "failed", "verified", "committing", "committed"}
Journals == [state : JournalStates, plan : Plans, inplace : BOOLEAN]

\* The part of the types that the rest needs; a running apply is the one of
\* the journal.
Typed ==
    /\ out \in [Paths -> Nodes]
    /\ staged \in [Paths -> Contents \cup {Missing, Garbage}]
    /\ todo \subseteq Paths
    /\ journal \in Journals \cup {NoJournal}
    /\ pc \in Phases
    /\ pc # "idle" => /\ run \in Runs /\ journal \in Journals
                      /\ journal.plan = run.plan /\ journal.inplace = run.inplace

\* The tree stays one the apply can handle.
Tame == journal \in Journals /\ plain => Replaceable(out, journal.plan)

Done(p)    == out[p] = run.plan.new[p]
Kept(ps)   == \A p \in ps : staged[p] = run.plan.new[p].is

\* What each phase has achieved.
Staging ==
    pc = "stage" =>
        /\ todo \subseteq Files(run.plan) /\ queue \subseteq Files(run.plan)
        /\ Kept(queue)
        /\ plain => \A p \in Files(run.plan) : p \in todo \cup queue \/ Done(p)

MakingDirs ==
    pc = "dirs" =>
        /\ todo \subseteq Dirs(run.plan) /\ queue \subseteq Files(run.plan)
        /\ Kept(queue)
        /\ plain => /\ \A p \in Files(run.plan) : p \in queue \/ Done(p)
                    /\ \A p \in Dirs(run.plan) : p \in todo \/ Done(p)

MovingFiles ==
    pc = "files" =>
        /\ todo \subseteq Files(run.plan)
        /\ Kept(todo)
        /\ plain => /\ \A p \in Files(run.plan) : p \in todo \/ Done(p)
                    /\ \A p \in Dirs(run.plan) : Done(p)

MakingLinks ==
    pc = "links" =>
        /\ todo \subseteq Links(run.plan)
        /\ plain => /\ \A p \in Files(run.plan) \cup Dirs(run.plan) : Done(p)
                    /\ \A p \in Links(run.plan) : p \in todo \/ Done(p)

Ending ==
    pc \in {"deletes", "cleanup", "clear"} /\ plain =>
        \A p \in Files(run.plan) \cup Dirs(run.plan) \cup Links(run.plan) : Done(p)

Gone(p) == out[p].kind \notin {"file", "link"}
Deleting ==
    /\ pc = "deletes" =>
         /\ todo \subseteq Deleted(run.plan)
         /\ plain /\ run.del => \A p \in Deleted(run.plan) : p \in todo \/ Gone(p)
    /\ pc \in {"cleanup", "clear"} /\ plain /\ run.del => \A p \in Deleted(run.plan) : Gone(p)

Phased == Staging /\ MakingDirs /\ MovingFiles /\ MakingLinks /\ Ending /\ Deleting

\* The inductive invariant.
ApplyInv == Typed /\ Tame /\ Phased /\ Recoverable

-----------------------------------------------------------------------------
(* Paths, nodes and plans                                                  *)

\* A path has at most one level above it.
LEMMA PathFacts ==
  ASSUME NEW p \in Paths
  PROVE  /\ Parent(p) \in Paths
         /\ ~Inner(Parent(p))
         /\ ~Inner(p) => Parent(p) = p
BY DEF Paths, Parent, Inner

\* The kinds of nodes.
LEMMA NodeFacts ==
  /\ Absent \in Nodes /\ Absent.kind = "none"
  /\ Dir \in Nodes /\ Dir.kind = "dir"
  /\ \A c \in Contents : File(c) \in Nodes /\ File(c).kind = "file" /\ File(c).is = c
  /\ \A n \in Nodes : /\ n.kind \in {"none", "dir", "file", "link"}
                      /\ n.kind = "none" => n = Absent
                      /\ n.kind = "dir" => n = Dir
                      /\ n.kind = "file" => n.is \in Contents /\ n = File(n.is)
<1>1. Absent \in Nodes /\ Absent.kind = "none" /\ Dir \in Nodes /\ Dir.kind = "dir"
  BY DEF Nodes, Absent, Dir
<1>2. ASSUME NEW c \in Contents
      PROVE  File(c) \in Nodes /\ File(c).kind = "file" /\ File(c).is = c
  BY DEF Nodes, File
<1>3. ASSUME NEW n \in Nodes
      PROVE  \/ n = Absent
             \/ n = Dir
             \/ n.kind = "file" /\ n.is \in Contents /\ n = File(n.is)
             \/ n.kind = "link"
  <2>1. CASE n \in {File(c) : c \in Contents}
    BY <2>1, <1>2
  <2>2. CASE n \in {Link(m) : m \in Top}
    BY <2>2 DEF Link
  <2>3. QED
    BY <2>1, <2>2 DEF Nodes
<1>4. QED
  BY <1>1, <1>2, <1>3

\* What a plan that is applied is.
LEMMA PlanFacts ==
  ASSUME NEW plan \in Plans
  PROVE  /\ plan.new \in [Paths -> Nodes]
         /\ \A p \in Paths : Inner(p) /\ plan.new[p] # Absent =>
                plan.new[p].kind = "file" /\ plan.new[Parent(p)] = Dir
         /\ Files(plan) \subseteq Paths /\ Dirs(plan) \subseteq Paths
         /\ Links(plan) \subseteq Paths /\ Deleted(plan) \subseteq Paths
<1>1. IsTree(plan.new)
  BY ApplyAssumption DEF IsPlan
<1>2. ASSUME NEW p \in Paths, Inner(p), plan.new[p] # Absent
      PROVE  plan.new[p].kind = "file" /\ plan.new[Parent(p)] = Dir
  <2>1. plan.new[p].kind # "none"
    BY <1>1, <1>2, NodeFacts DEF IsTree
  <2>2. QED
    BY <1>1, <1>2, <2>1 DEF IsTree
<1>3. QED
  BY <1>1, <1>2 DEF IsTree, Files, Dirs, Links, Entries, Deleted

\* In a tree the apply can handle, a path of the new build, and a path to be
\* deleted, leads where it says.
LEMMA Straight ==
  ASSUME NEW plan \in Plans, NEW t \in [Paths -> Nodes], Replaceable(t, plan),
         NEW p \in Paths, plan.new[p] # Absent \/ p \in Deleted(plan)
  PROVE  Place(t, p) = p /\ At(t, p) = t[p]
<1>1. SUFFICES ASSUME Inner(p) PROVE t[Parent(p)].kind # "link"
  BY DEF Place, At
<1>2. Parent(p) \in Paths
  BY PathFacts
<1>3. CASE plan.new[p] # Absent
  <2>1. plan.new[Parent(p)].kind = "dir"
    BY <1>1, <1>3, PlanFacts, NodeFacts
  <2>2. QED
    BY <1>2, <2>1 DEF Replaceable
<1>4. CASE p \in Deleted(plan)
  BY <1>1, <1>2, <1>4 DEF Replaceable
<1>5. QED
  BY <1>3, <1>4

\* Where the directories of the new build are there, create_dir_all of a new
\* file's parent changes nothing.
LEMMA ParentIsThere ==
  ASSUME NEW plan \in Plans, NEW t \in [Paths -> Nodes],
         \A d \in Dirs(plan) : t[d] = plan.new[d],
         NEW p \in Paths, plan.new[p] # Absent
  PROVE  WithParent(t, p) = t
<1>1. SUFFICES ASSUME Inner(p) PROVE WithDir(t, Parent(p)) = t
  BY DEF WithParent
<1>2. Parent(p) \in Paths /\ ~Inner(Parent(p))
  BY PathFacts
<1>3. plan.new[Parent(p)] = Dir /\ Dir.kind = "dir" /\ Dir # Absent
  BY <1>1, PlanFacts, NodeFacts
<1>4. t[Parent(p)] = Dir
  BY <1>2, <1>3 DEF Dirs, Entries
<1>5. QED
  BY <1>2, <1>3, <1>4 DEF WithDir, At, Place

\* There, the installed file is the new one exactly when it is that node.
LEMMA MatchIsDone ==
  ASSUME NEW plan \in Plans, NEW t \in [Paths -> Nodes], Replaceable(t, plan),
         NEW p \in Files(plan)
  PROVE  file_matches(t, p, plan.new[p].is) <=> t[p] = plan.new[p]
<1>1. p \in Paths /\ plan.new[p].kind = "file"
  BY PlanFacts DEF Files, Entries
<1>2. plan.new[p] = File(plan.new[p].is) /\ plan.new[p] # Absent
  BY <1>1, PlanFacts, NodeFacts
<1>3. At(t, p) = t[p] /\ t[p].kind # "link"
  BY <1>1, <1>2, Straight DEF Replaceable
<1>4. QED
  BY <1>2, <1>3 DEF file_matches, Follow

\* Changing one node into one that may stand there keeps the tree so.
LEMMA StaysReplaceable ==
  ASSUME NEW plan \in Plans, NEW t \in [Paths -> Nodes], Replaceable(t, plan),
         NEW p \in Paths, NEW n \in Nodes,
         n.kind = "link" => plan.new[p].kind = "link",
         plan.new[p].kind \in {"file", "link"} => n.kind # "dir",
         plan.new[p].kind = "dir" => n.kind \in {"none", "dir"}
  PROVE  Replaceable([t EXCEPT ![p] = n], plan)
BY DEF Replaceable

-----------------------------------------------------------------------------
(* Journals, and what holds while an apply runs                            *)

\* A journal is told from no journal; a new state leaves the rest of it.
LEMMA JournalFacts ==
  ASSUME NEW j \in Journals
  PROVE  /\ j # NoJournal /\ j.plan \in Plans /\ j.inplace \in BOOLEAN
         /\ \A s \in JournalStates :
              LET k == [j EXCEPT !.state = s]
              IN  k \in Journals /\ k.plan = j.plan /\ k.inplace = j.inplace
<1>1. j # NoJournal
  BY DEF Journals, JournalStates, NoJournal
<1>2. QED
  BY <1>1 DEF Journals

\* A running apply is the one of the journal.
LEMMA Running ==
  ASSUME ApplyInv, pc # "idle"
  PROVE  /\ journal \in Journals /\ journal # NoJournal
         /\ run \in Runs /\ run.plan \in Plans
         /\ journal.plan = run.plan /\ journal.inplace = run.inplace
         /\ plain => Replaceable(out, run.plan)
<1>1. journal \in Journals /\ run \in Runs
      /\ journal.plan = run.plan /\ journal.inplace = run.inplace
  BY DEF ApplyInv, Typed
<1>2. QED
  BY <1>1, JournalFacts DEF ApplyInv, Tame, Runs

\* The journal of the same apply, over the same tree and with nothing lost
\* from staging that was right, is still of an apply that can be finished.
LEMMA StaysRecoverable ==
  ASSUME ApplyInv, journal \in Journals, journal' \in Journals,
         journal'.plan = journal.plan, journal'.inplace = journal.inplace,
         out' = out, plain' = plain, sound' = sound,
         \A p \in Files(journal.plan) :
             staged[p] = journal.plan.new[p].is => staged'[p] = staged[p]
  PROVE  Tame' /\ Recoverable'
<1>1. Tame'
  BY DEF ApplyInv, Tame, Replaceable, Deleted
<1>2. journal # NoJournal
  BY JournalFacts
<1>3. SUFFICES ASSUME plain, sound, NEW p \in Files(journal.plan)
               PROVE  \/ file_matches(out, p, journal.plan.new[p].is)
                      \/ staged'[p] = journal.plan.new[p].is
                      \/ Intact(journal, p)'
  BY <1>1 DEF Recoverable, Files
<1>4. \/ file_matches(out, p, journal.plan.new[p].is)
      \/ staged[p] = journal.plan.new[p].is
      \/ Intact(journal, p)
  BY <1>2, <1>3 DEF ApplyInv, Recoverable, Files
<1>5. Intact(journal, p)' <=> Intact(journal, p)
  BY DEF Intact, OldRoot
<1>6. QED
  BY <1>4, <1>5

\* Returning to the caller with the apply still to be finished.
LEMMA Returning ==
  ASSUME ApplyInv, Return, journal' \in Journals, Tame', Recoverable',
         out' = out, staged' \in [Paths -> Contents \cup {Missing, Garbage}]
  PROVE  ApplyInv'
<1>1. pc' = "idle" /\ todo' = {}
  BY DEF Return
<1>2. Typed'
  BY <1>1 DEF ApplyInv, Typed, Phases
<1>3. Phased'
  BY <1>1 DEF Phased, Staging, MakingDirs, MovingFiles, MakingLinks, Ending, Deleting
<1>4. QED
  BY <1>2, <1>3 DEF ApplyInv

-----------------------------------------------------------------------------
(* Every action keeps the invariant                                        *)

\* It holds before the first apply.
LEMMA InitHolds == Init => ApplyInv
<1>1. SUFFICES ASSUME Init PROVE ApplyInv
  OBVIOUS
<1>2. out \in [Paths -> Nodes]
  <2>1. PICK plan \in Plans : out = plan.old
    BY <1>1 DEF Init
  <2>2. QED
    BY <2>1, ApplyAssumption DEF IsPlan, IsTree
<1>3. Typed
  BY <1>1, <1>2 DEF Init, Typed, Phases, NoStaging
<1>4. journal = NoJournal /\ pc = "idle" /\ plain = FALSE
  BY <1>1 DEF Init
<1>5. QED
  BY <1>3, <1>4 DEF ApplyInv, Tame, Recoverable, Phased, Staging, MakingDirs, MovingFiles,
                    MakingLinks, Ending, Deleting

\* apply_dir writes the journal: a new apply is recoverable by what `sound`
\* says, a repeated one because the one before was.
LEMMA ApplyKeeps ==
  ASSUME ApplyInv, NEW r \in Runs, apply_dir(r)
  PROVE  ApplyInv'
<1>1. pc = "idle" /\ pc' = "stage" /\ run' = r /\ out' = out /\ staged' = staged
      /\ todo' = Files(r.plan) /\ queue' = {}
      /\ journal' = [state |-> "staging", plan |-> r.plan, inplace |-> r.inplace]
      /\ (journal # NoJournal => journal.plan = r.plan /\ journal.inplace = r.inplace)
  BY DEF apply_dir, Begin, Files
<1>2. r.plan \in Plans /\ r.inplace \in BOOLEAN
  BY DEF Runs
<1>3. journal' \in Journals /\ journal'.plan = r.plan /\ journal'.inplace = r.inplace
  BY <1>1, <1>2 DEF Journals, JournalStates
<1>4. Typed'
  <2>1. Files(r.plan) \subseteq Paths
    BY <1>2, PlanFacts
  <2>2. QED
    BY <1>1, <1>3, <2>1 DEF ApplyInv, Typed, Phases
<1>5. Phased'
  BY <1>1 DEF Phased, Staging, MakingDirs, MovingFiles, MakingLinks, Ending, Deleting, Kept
<1>6. Tame' /\ Recoverable'
  <2>1. CASE journal = NoJournal
    <3>1. plain' = Replaceable(out, r.plan)
          /\ sound' = \A p \in Files(r.plan) : Intact(r, p)
      BY <2>1 DEF apply_dir, Begin, Files
    <3>2. Tame'
      BY <1>1, <1>3, <3>1 DEF Tame, Replaceable, Deleted
    <3>3. ASSUME NEW p \in Files(r.plan), Intact(r, p)
          PROVE  Intact(journal, p)'
      BY <1>1, <1>3, <3>3 DEF Intact, OldRoot
    <3>4. Recoverable'
      BY <1>3, <3>1, <3>3 DEF Recoverable, Files
    <3>5. QED
      BY <3>2, <3>4
  <2>2. CASE journal # NoJournal
    <3>1. plain' = plain /\ sound' = sound
      BY <2>2 DEF apply_dir, Begin
    <3>2. journal \in Journals
      BY <2>2 DEF ApplyInv, Typed
    <3>3. QED
      BY <1>1, <1>3, <2>2, <3>1, <3>2, StaysRecoverable
  <2>3. QED
    BY <2>1, <2>2
<1>7. QED
  BY <1>4, <1>5, <1>6 DEF ApplyInv

\* A file of the staging loop: skipped, found staged, rebuilt, or failed - and
\* then what is staged in its place was of no use before.
LEMMA StageKeeps ==
  ASSUME ApplyInv, NEW p \in Paths, stage_file(p)
  PROVE  ApplyInv'
<1>1. pc = "stage" /\ p \in todo /\ out' = out /\ plain' = plain /\ sound' = sound
  BY DEF stage_file
<1>2. /\ journal \in Journals /\ journal # NoJournal /\ run \in Runs /\ run.plan \in Plans
      /\ journal.plan = run.plan /\ journal.inplace = run.inplace
      /\ plain => Replaceable(out, run.plan)
  BY <1>1, Running
<1>3. p \in Files(run.plan)
  BY <1>1 DEF ApplyInv, Phased, Staging
<1>4. run.plan.new[p].is \in Contents /\ run.plan.new[p].is # Missing
  BY <1>2, <1>3, PlanFacts, NodeFacts, ApplyAssumption DEF Files, Entries
<1>5. ASSUME Step(p), journal' = journal,
             staged' \in [Paths -> Contents \cup {Missing, Garbage}],
             \A q \in Paths : staged'[q] = staged[q] \/ (q = p /\ staged'[q] = run.plan.new[p].is),
             \/ file_matches(out, p, run.plan.new[p].is) /\ queue' = queue
             \/ queue' = queue \cup {p} /\ staged'[p] = run.plan.new[p].is
      PROVE  ApplyInv'
  <2>1. pc' = "stage" /\ run' = run /\ todo' = todo \ {p}
    BY <1>1, <1>5 DEF Step
  <2>2. Typed'
    BY <1>1, <1>2, <1>5, <2>1 DEF ApplyInv, Typed, Phases
  <2>3. Tame' /\ Recoverable'
    <3>1. \A q \in Files(journal.plan) :
             staged[q] = journal.plan.new[q].is => staged'[q] = staged[q]
      BY <1>2, <1>5, PlanFacts
    <3>2. QED
      BY <1>1, <1>2, <1>5, <3>1, StaysRecoverable
  <2>4. Staging'
    <3>1. /\ todo \subseteq Files(run.plan) /\ queue \subseteq Files(run.plan)
          /\ Kept(queue)
          /\ plain => \A q \in Files(run.plan) : q \in todo \cup queue \/ Done(q)
      BY <1>1 DEF ApplyInv, Phased, Staging
    <3>2. Kept(queue)'
      BY <1>2, <1>3, <1>5, <2>1, <3>1, PlanFacts DEF Kept
    <3>3. ASSUME plain, NEW q \in Files(run.plan)
          PROVE  q \in todo' \cup queue' \/ out[q] = run.plan.new[q]
      <4>1. CASE q = p
        BY <1>2, <1>3, <1>5, <3>3, <4>1, MatchIsDone DEF ApplyInv, Typed
      <4>2. CASE q # p
        BY <1>5, <2>1, <3>1, <3>3, <4>2 DEF Done
      <4>3. QED
        BY <4>1, <4>2
    <3>4. QED
      BY <1>1, <1>3, <1>5, <2>1, <3>1, <3>2, <3>3 DEF Staging, Done
  <2>5. QED
    BY <2>1, <2>2, <2>3, <2>4 DEF ApplyInv, Phased, MakingDirs, MovingFiles, MakingLinks, Ending,
                                  Deleting
<1>6. ASSUME ~file_matches(out, p, run.plan.new[p].is), staged[p] # run.plan.new[p].is,
             ~Intact(run, p), staged' = [staged EXCEPT ![p] = Garbage], Return,
             journal' = journal \/ journal' = [journal EXCEPT !.state = "failed"]
      PROVE  ApplyInv'
  <2>1. journal' \in Journals /\ journal'.plan = journal.plan /\ journal'.inplace = journal.inplace
    BY <1>2, <1>6, JournalFacts DEF JournalStates
  <2>2. /\ staged' \in [Paths -> Contents \cup {Missing, Garbage}]
        /\ \A q \in Files(journal.plan) :
             staged[q] = journal.plan.new[q].is => staged'[q] = staged[q]
    BY <1>2, <1>6, PlanFacts DEF ApplyInv, Typed
  <2>3. Tame' /\ Recoverable'
    BY <1>1, <1>2, <2>1, <2>2, StaysRecoverable
  <2>4. QED
    BY <1>1, <1>6, <2>1, <2>2, <2>3, Returning
<1>7. staged \in [Paths -> Contents \cup {Missing, Garbage}]
  BY DEF ApplyInv, Typed
<1>8. CASE file_matches(out, p, run.plan.new[p].is) /\ Step(p)
           /\ UNCHANGED <<staged, queue, journal>>
  BY <1>5, <1>7, <1>8
<1>9. CASE staged[p] = run.plan.new[p].is /\ queue' = queue \cup {p} /\ Step(p)
           /\ UNCHANGED <<staged, journal>>
  BY <1>5, <1>7, <1>9
<1>10. CASE ~file_matches(out, p, run.plan.new[p].is) /\ staged[p] # run.plan.new[p].is
            /\ Rebuild(p)
  <2>1. CASE /\ staged' = [staged EXCEPT ![p] = run.plan.new[p].is]
             /\ queue' = queue \cup {p} /\ Step(p) /\ UNCHANGED journal
    BY <1>4, <1>5, <1>7, <2>1
  <2>2. CASE ~Intact(run, p) /\ staged' = [staged EXCEPT ![p] = Garbage] /\ Return
             /\ (UNCHANGED journal \/ journal' = [journal EXCEPT !.state = "failed"])
    BY <1>6, <1>10, <2>2
  <2>3. QED
    BY <1>10, <2>1, <2>2 DEF Rebuild
<1>11. QED
  BY <1>8, <1>9, <1>10 DEF stage_file

\* The journal of an apply whose files are all in place or staged.
LEMMA PlacedIsRecoverable ==
  ASSUME journal' \in Journals, out' \in [Paths -> Nodes],
         plain' => Replaceable(out', journal'.plan),
         plain' => \A q \in Files(journal'.plan) :
                       \/ out'[q] = journal'.plan.new[q]
                       \/ staged'[q] = journal'.plan.new[q].is
  PROVE  Tame' /\ Recoverable'
<1>1. Tame'
  BY DEF Tame, Replaceable, Deleted
<1>2. ASSUME plain', NEW q \in Files(journal'.plan)
      PROVE  \/ file_matches(out', q, journal'.plan.new[q].is)
             \/ staged'[q] = journal'.plan.new[q].is
  BY <1>2, MatchIsDone, JournalFacts
<1>3. Recoverable'
  BY <1>2 DEF Recoverable, Files, file_matches, Follow, At, Place
<1>4. QED
  BY <1>1, <1>3

\* From one phase to the next: the journal is of the same apply.
LEMMA PhaseKeeps ==
  ASSUME ApplyInv, NEW from, NEW to, NEW state, NEW entries, Phase(from, to, state, entries),
         from # "idle", to \in Phases, state \in JournalStates, entries \subseteq Paths
  PROVE  Typed' /\ Tame' /\ Recoverable'
<1>1. pc = from /\ pc' = to /\ todo' = entries /\ journal' = [journal EXCEPT !.state = state]
      /\ out' = out /\ staged' = staged /\ run' = run /\ plain' = plain /\ sound' = sound
  BY DEF Phase
<1>2. /\ journal \in Journals /\ run \in Runs
      /\ journal.plan = run.plan /\ journal.inplace = run.inplace
  BY <1>1, Running
<1>3. journal' \in Journals /\ journal'.plan = journal.plan /\ journal'.inplace = journal.inplace
  BY <1>1, <1>2, JournalFacts
<1>4. Typed'
  BY <1>1, <1>2, <1>3 DEF ApplyInv, Typed
<1>5. QED
  BY <1>1, <1>2, <1>3, <1>4, StaysRecoverable

\* The end of a phase: what it has visited is everything there is to visit.
LEMMA PhasesKeep ==
  ASSUME ApplyInv, verified \/ committing \/ files_done \/ links_done \/ committed
  PROVE  ApplyInv'
<1>1. ASSUME pc # "idle"
      PROVE  /\ Files(run.plan) \subseteq Paths /\ Dirs(run.plan) \subseteq Paths
             /\ Links(run.plan) \subseteq Paths /\ Deleted(run.plan) \subseteq Paths
  BY <1>1, Running, PlanFacts
<1>2. Phased
  BY DEF ApplyInv
<1>3. CASE verified
  <2>1. /\ pc = "stage" /\ todo = {} /\ pc' = "dirs" /\ todo' = Dirs(run.plan)
        /\ UNCHANGED <<out, staged, run, queue, plain>>
    BY <1>3 DEF verified, Phase, Dirs
  <2>2. Typed' /\ Tame' /\ Recoverable'
    BY <1>1, <1>3, <2>1, PhaseKeeps DEF verified, Phases, JournalStates, Dirs
  <2>3. MakingDirs'
    BY <1>2, <2>1 DEF Phased, Staging, MakingDirs, Kept, Done
  <2>4. QED
    BY <2>1, <2>2, <2>3 DEF ApplyInv, Phased, Staging, MovingFiles, MakingLinks, Ending, Deleting
<1>4. CASE committing
  <2>1. /\ pc = "dirs" /\ todo = {} /\ pc' = "files" /\ todo' = queue
        /\ UNCHANGED <<out, staged, run, queue, plain>>
    BY <1>4 DEF committing, Phase
  <2>2. queue \subseteq Paths
    BY <1>1, <1>2, <2>1 DEF Phased, MakingDirs
  <2>3. Typed' /\ Tame' /\ Recoverable'
    BY <1>4, <2>1, <2>2, PhaseKeeps DEF committing, Phases, JournalStates
  <2>4. MovingFiles'
    BY <1>2, <2>1 DEF Phased, MakingDirs, MovingFiles, Kept, Done
  <2>5. QED
    BY <2>1, <2>3, <2>4 DEF ApplyInv, Phased, Staging, MakingDirs, MakingLinks, Ending, Deleting
<1>5. CASE files_done
  <2>1. /\ pc = "files" /\ todo = {} /\ pc' = "links" /\ todo' = Links(run.plan)
        /\ UNCHANGED <<out, staged, run, queue, plain>>
    BY <1>5 DEF files_done, Phase, Links
  <2>2. Typed' /\ Tame' /\ Recoverable'
    BY <1>1, <1>5, <2>1, PhaseKeeps DEF files_done, Phases, JournalStates, Links
  <2>3. MakingLinks'
    BY <1>2, <2>1 DEF Phased, MovingFiles, MakingLinks, Done
  <2>4. QED
    BY <2>1, <2>2, <2>3 DEF ApplyInv, Phased, Staging, MakingDirs, MovingFiles, Ending, Deleting
<1>6. CASE links_done
  <2>1. /\ pc = "links" /\ todo = {} /\ pc' = "deletes"
        /\ todo' = IF run.del THEN Deleted(run.plan) ELSE {}
        /\ UNCHANGED <<out, staged, run, queue, plain>>
    BY <1>6 DEF links_done, Phase
  <2>2. todo' \subseteq Paths /\ todo' \subseteq Deleted(run.plan)
        /\ (run.del => todo' = Deleted(run.plan))
    BY <1>1, <2>1
  <2>3. Typed' /\ Tame' /\ Recoverable'
    BY <1>6, <2>1, <2>2, PhaseKeeps DEF links_done, Phase, Phases, JournalStates
  <2>4. Ending' /\ Deleting'
    BY <1>2, <2>1, <2>2 DEF Phased, MakingLinks, Ending, Deleting, Done, Deleted
  <2>5. QED
    BY <2>1, <2>3, <2>4 DEF ApplyInv, Phased, Staging, MakingDirs, MovingFiles, MakingLinks
<1>7. CASE committed
  <2>1. /\ pc = "deletes" /\ todo = {} /\ pc' = "cleanup" /\ todo' = {}
        /\ UNCHANGED <<out, staged, run, queue, plain>>
    BY <1>7 DEF committed, Phase
  <2>2. Typed' /\ Tame' /\ Recoverable'
    BY <1>7, <2>1, PhaseKeeps DEF committed, Phases, JournalStates
  <2>3. Ending' /\ Deleting'
    BY <1>2, <2>1 DEF Phased, Ending, Deleting, Done, Gone, Deleted
  <2>4. QED
    BY <2>1, <2>2, <2>3 DEF ApplyInv, Phased, Staging, MakingDirs, MovingFiles, MakingLinks
<1>8. QED
  BY <1>3, <1>4, <1>5, <1>6, <1>7

\* A step of the commit that something is in the way of.
LEMMA CommitFails ==
  ASSUME ApplyInv, pc # "idle", Return,
         UNCHANGED <<out, staged, journal, plain, sound>>
  PROVE  ApplyInv'
<1>1. journal \in Journals /\ staged \in [Paths -> Contents \cup {Missing, Garbage}]
  BY Running DEF ApplyInv, Typed
<1>2. Tame' /\ Recoverable'
  BY <1>1, StaysRecoverable
<1>3. QED
  BY <1>1, <1>2, Returning

\* A step of the commit that fits.
LEMMA CommitFits ==
  ASSUME ApplyInv, pc # "idle", UNCHANGED <<journal, pc, run, plain>>, todo' \subseteq todo,
         out' \in [Paths -> Nodes], staged' \in [Paths -> Contents \cup {Missing, Garbage}],
         plain => Replaceable(out', run.plan),
         plain => \A q \in Files(run.plan) :
                      out'[q] = run.plan.new[q] \/ staged'[q] = run.plan.new[q].is
  PROVE  Typed' /\ Tame' /\ Recoverable'
<1>1. /\ journal \in Journals /\ run \in Runs
      /\ journal.plan = run.plan /\ journal.inplace = run.inplace
  BY Running
<1>2. Typed'
  BY <1>1 DEF ApplyInv, Typed
<1>3. QED
  BY <1>1, <1>2, PlacedIsRecoverable

\* A directory of the new build.
LEMMA DirKeeps ==
  ASSUME ApplyInv, NEW p \in Paths, make_dir(p)
  PROVE  ApplyInv'
<1>1. pc = "dirs" /\ p \in todo /\ UNCHANGED <<staged, journal, plain, sound>>
  BY DEF make_dir, Commit
<1>2. /\ run.plan \in Plans /\ (plain => Replaceable(out, run.plan))
      /\ out \in [Paths -> Nodes] /\ staged \in [Paths -> Contents \cup {Missing, Garbage}]
  BY <1>1, Running DEF ApplyInv, Typed
<1>3. /\ todo \subseteq Dirs(run.plan) /\ queue \subseteq Files(run.plan)
      /\ Kept(queue)
      /\ plain => /\ \A q \in Files(run.plan) : q \in queue \/ Done(q)
                  /\ \A q \in Dirs(run.plan) : q \in todo \/ Done(q)
  BY <1>1 DEF ApplyInv, Phased, MakingDirs
<1>4. CASE out' = WithDir(out, p) /\ Step(p) /\ UNCHANGED queue
  <2>1. UNCHANGED <<pc, run>> /\ todo' = todo \ {p}
    BY <1>4 DEF Step
  <2>2. out' \in [Paths -> Nodes]
    BY <1>2, <1>4, NodeFacts DEF WithDir, Put
  <2>3. ASSUME plain
        PROVE  out' = [out EXCEPT ![p] = Dir] /\ run.plan.new[p] = Dir
    <3>1. run.plan.new[p] = Dir /\ run.plan.new[p].kind = "dir" /\ run.plan.new[p] # Absent
      BY <1>1, <1>2, <1>3, PlanFacts, NodeFacts DEF Dirs, Entries
    <3>2. Place(out, p) = p /\ At(out, p) = out[p]
      BY <1>2, <2>3, <3>1, Straight
    <3>3. out[p] = Absent \/ out[p] = Dir
      BY <1>2, <2>3, <3>1, NodeFacts DEF Replaceable
    <3>4. QED
      BY <1>2, <1>4, <3>1, <3>2, <3>3 DEF WithDir, Put
  <2>4. plain => Replaceable(out', run.plan)
    BY <1>2, <2>3, StaysReplaceable, NodeFacts
  <2>5. ASSUME plain, NEW q \in Paths, Done(q) \/ q = p
        PROVE  out'[q] = run.plan.new[q]
    BY <1>2, <2>3, <2>5 DEF Done
  <2>6. plain => \A q \in Files(run.plan) :
                     out'[q] = run.plan.new[q] \/ staged'[q] = run.plan.new[q].is
    BY <1>1, <1>2, <1>3, <2>5, PlanFacts DEF Kept
  <2>7. Typed' /\ Tame' /\ Recoverable'
    BY <1>1, <1>2, <2>1, <2>2, <2>4, <2>6, CommitFits
  <2>8. MakingDirs'
    BY <1>1, <1>2, <1>3, <1>4, <2>1, <2>5, PlanFacts DEF MakingDirs, Kept, Done
  <2>9. QED
    BY <1>1, <2>1, <2>7, <2>8 DEF ApplyInv, Phased, Staging, MovingFiles, MakingLinks, Ending,
                                  Deleting
<1>5. CASE UNCHANGED out /\ Return
  BY <1>1, <1>5, CommitFails
<1>6. QED
  BY <1>4, <1>5 DEF make_dir, Commit

\* A file moves into place: it overwrites what others may be built from, but
\* those are staged or in place by now.
LEMMA MoveKeeps ==
  ASSUME ApplyInv, NEW p \in Paths, move_file(p)
  PROVE  ApplyInv'
<1> DEFINE t    == WithParent(out, p)
           fits == Reachable(out, p) /\ At(t, p).kind # "dir"
<1>1. pc = "files" /\ p \in todo /\ UNCHANGED <<journal, plain, sound>>
  BY DEF move_file, Commit
<1>2. /\ run.plan \in Plans /\ (plain => Replaceable(out, run.plan))
      /\ out \in [Paths -> Nodes] /\ staged \in [Paths -> Contents \cup {Missing, Garbage}]
  BY <1>1, Running DEF ApplyInv, Typed
<1>3. /\ todo \subseteq Files(run.plan)
      /\ Kept(todo)
      /\ plain => /\ \A q \in Files(run.plan) : q \in todo \/ Done(q)
                  /\ \A q \in Dirs(run.plan) : Done(q)
  BY <1>1 DEF ApplyInv, Phased, MovingFiles
<1>4. /\ staged[p] = run.plan.new[p].is /\ staged[p] \in Contents
      /\ run.plan.new[p] = File(staged[p]) /\ run.plan.new[p].kind = "file"
      /\ run.plan.new[p] # Absent
  BY <1>1, <1>2, <1>3, PlanFacts, NodeFacts DEF Kept, Files, Entries
<1>5. CASE fits /\ out' = Put(t, p, File(staged[p])) /\ Step(p) /\ UNCHANGED queue
           /\ staged' = [staged EXCEPT ![p] = Missing]
  <2>1. UNCHANGED <<pc, run>> /\ todo' = todo \ {p}
    BY <1>5 DEF Step
  <2>2. out' \in [Paths -> Nodes]
    <3>1. t \in [Paths -> Nodes]
      BY <1>2, NodeFacts DEF WithParent, WithDir, Put
    <3>2. QED
      BY <1>4, <1>5, <3>1, NodeFacts DEF Put
  <2>3. ASSUME plain
        PROVE  out' = [out EXCEPT ![p] = run.plan.new[p]]
    <3>1. t = out
      BY <1>2, <1>3, <1>4, <2>3, ParentIsThere DEF Done
    <3>2. Place(out, p) = p
      BY <1>2, <1>4, <2>3, Straight
    <3>3. QED
      BY <1>4, <1>5, <3>1, <3>2 DEF Put
  <2>4. plain => Replaceable(out', run.plan)
    <3>1. run.plan.new[p] \in Nodes
      BY <1>2, PlanFacts
    <3>2. run.plan.new[p].kind = "file"
      BY <1>4
    <3>3. plain => Replaceable([out EXCEPT ![p] = run.plan.new[p]], run.plan)
      BY <1>2, <3>1, <3>2, StaysReplaceable
    <3>4. QED
      BY <2>3, <3>3
  <2>5. ASSUME plain, NEW q \in Paths, Done(q) \/ q = p
        PROVE  out'[q] = run.plan.new[q]
    BY <1>2, <2>3, <2>5 DEF Done
  <2>6. Kept(todo)'
    BY <1>2, <1>3, <1>5, <2>1, PlanFacts DEF Kept
  <2>7. staged' \in [Paths -> Contents \cup {Missing, Garbage}]
    BY <1>2, <1>5
  <2>8. plain => \A q \in Files(run.plan) : q \in todo' \/ out'[q] = run.plan.new[q]
    BY <1>2, <1>3, <2>1, <2>5, PlanFacts
  <2>9. Typed' /\ Tame' /\ Recoverable'
    BY <1>1, <2>1, <2>2, <2>4, <2>6, <2>7, <2>8, CommitFits DEF Kept
  <2>10. MovingFiles'
    BY <1>1, <1>2, <1>3, <2>1, <2>5, <2>6, <2>8, PlanFacts DEF MovingFiles, Done
  <2>11. QED
    BY <1>1, <2>1, <2>9, <2>10 DEF ApplyInv, Phased, Staging, MakingDirs, MakingLinks, Ending,
                                   Deleting
<1>6. CASE ~fits /\ UNCHANGED out /\ Return /\ staged' = staged
  BY <1>1, <1>6, CommitFails
<1>7. QED
  BY <1>5, <1>6 DEF move_file, Commit

\* The steps that put links: what they touch is a link of the new build.
LEMMA LinkFacts ==
  ASSUME ApplyInv, pc = "links", NEW p \in todo
  PROVE  /\ p \in Paths /\ run.plan \in Plans
         /\ run.plan.new[p] \in Nodes /\ run.plan.new[p].kind = "link"
         /\ out \in [Paths -> Nodes] /\ staged \in [Paths -> Contents \cup {Missing, Garbage}]
         /\ todo \subseteq Links(run.plan)
         /\ plain => /\ Replaceable(out, run.plan) /\ Place(out, p) = p
                     /\ \A q \in Files(run.plan) \cup Dirs(run.plan) : Done(q) /\ q # p
                     /\ \A q \in Links(run.plan) : q \in todo \/ Done(q)
<1>1. /\ todo \subseteq Links(run.plan)
      /\ plain => /\ \A q \in Files(run.plan) \cup Dirs(run.plan) : Done(q)
                  /\ \A q \in Links(run.plan) : q \in todo \/ Done(q)
  BY DEF ApplyInv, Phased, MakingLinks
<1>2. /\ run.plan \in Plans /\ (plain => Replaceable(out, run.plan))
      /\ out \in [Paths -> Nodes] /\ staged \in [Paths -> Contents \cup {Missing, Garbage}]
  BY Running DEF ApplyInv, Typed
<1>3. p \in Paths /\ run.plan.new[p] \in Nodes /\ run.plan.new[p].kind = "link"
  BY <1>1, <1>2, PlanFacts DEF Links, Entries
<1>4. run.plan.new[p] # Absent
  BY <1>3, NodeFacts
<1>5. ASSUME plain PROVE Place(out, p) = p
  BY <1>2, <1>3, <1>4, <1>5, Straight
<1>6. p \notin Files(run.plan) \cup Dirs(run.plan)
  BY <1>3 DEF Files, Dirs, Entries
<1>7. QED
  BY <1>1, <1>2, <1>3, <1>5, <1>6

\* What stands where a link goes is removed.
LEMMA UnlinkKeeps ==
  ASSUME ApplyInv, NEW p \in Paths, unlink(p)
  PROVE  ApplyInv'
<1>1. pc = "links" /\ p \in todo /\ out' = Put(out, p, Absent)
      /\ UNCHANGED <<staged, journal, pc, run, todo, plain>>
  BY DEF unlink
<1>2. /\ run.plan \in Plans
      /\ out \in [Paths -> Nodes] /\ staged \in [Paths -> Contents \cup {Missing, Garbage}]
      /\ todo \subseteq Links(run.plan) /\ run.plan.new[p].kind = "link"
      /\ plain => /\ Replaceable(out, run.plan) /\ Place(out, p) = p
                  /\ \A q \in Files(run.plan) \cup Dirs(run.plan) : Done(q) /\ q # p
                  /\ \A q \in Links(run.plan) : q \in todo \/ Done(q)
  BY <1>1, LinkFacts
<1>3. out' \in [Paths -> Nodes] /\ (plain => out' = [out EXCEPT ![p] = Absent])
  BY <1>1, <1>2, NodeFacts DEF Put
<1>4. plain => Replaceable(out', run.plan)
  BY <1>2, <1>3, StaysReplaceable, NodeFacts
<1>5. ASSUME plain, NEW q \in Paths, q # p, Done(q)
      PROVE  out'[q] = run.plan.new[q]
  BY <1>2, <1>3, <1>5 DEF Done
<1>6. plain => \A q \in Files(run.plan) \cup Dirs(run.plan) : out'[q] = run.plan.new[q]
  BY <1>2, <1>5, PlanFacts
<1>7. Typed' /\ Tame' /\ Recoverable'
  BY <1>1, <1>2, <1>3, <1>4, <1>6, CommitFits
<1>8. MakingLinks'
  BY <1>1, <1>2, <1>5, <1>6, PlanFacts DEF MakingLinks, Done
<1>9. QED
  BY <1>1, <1>7, <1>8 DEF ApplyInv, Phased, Staging, MakingDirs, MovingFiles, Ending, Deleting

\* A link of the new build.
LEMMA LinkKeeps ==
  ASSUME ApplyInv, NEW p \in Paths, make_link(p)
  PROVE  ApplyInv'
<1>1. pc = "links" /\ p \in todo /\ UNCHANGED <<staged, journal, plain, sound>>
  BY DEF make_link, Commit
<1>2. /\ run.plan \in Plans
      /\ out \in [Paths -> Nodes] /\ staged \in [Paths -> Contents \cup {Missing, Garbage}]
      /\ todo \subseteq Links(run.plan)
      /\ run.plan.new[p] \in Nodes /\ run.plan.new[p].kind = "link"
      /\ plain => /\ Replaceable(out, run.plan) /\ Place(out, p) = p
                  /\ \A q \in Files(run.plan) \cup Dirs(run.plan) : Done(q) /\ q # p
                  /\ \A q \in Links(run.plan) : q \in todo \/ Done(q)
  BY <1>1, LinkFacts
<1>3. CASE out' = Put(out, p, run.plan.new[p]) /\ Step(p)
  <2>1. UNCHANGED <<pc, run>> /\ todo' = todo \ {p}
    BY <1>3 DEF Step
  <2>2. out' \in [Paths -> Nodes] /\ (plain => out' = [out EXCEPT ![p] = run.plan.new[p]])
    BY <1>2, <1>3 DEF Put
  <2>3. plain => Replaceable(out', run.plan)
    BY <1>2, <2>2, StaysReplaceable
  <2>4. ASSUME plain, NEW q \in Paths, q = p \/ Done(q)
        PROVE  out'[q] = run.plan.new[q]
    BY <1>2, <2>2, <2>4 DEF Done
  <2>5. plain => \A q \in Files(run.plan) \cup Dirs(run.plan) : out'[q] = run.plan.new[q]
    BY <1>2, <2>4, PlanFacts
  <2>6. Typed' /\ Tame' /\ Recoverable'
    BY <1>1, <1>2, <2>1, <2>2, <2>3, <2>5, CommitFits
  <2>7. MakingLinks'
    BY <1>1, <1>2, <2>1, <2>4, <2>5, PlanFacts DEF MakingLinks, Done
  <2>8. QED
    BY <1>1, <2>1, <2>6, <2>7 DEF ApplyInv, Phased, Staging, MakingDirs, MovingFiles, Ending,
                                  Deleting
<1>4. CASE UNCHANGED out /\ Return
  BY <1>1, <1>4, CommitFails
<1>5. QED
  BY <1>3, <1>4 DEF make_link, Commit

\* A managed deletion touches nothing of the new build.
LEMMA DeleteKeeps ==
  ASSUME ApplyInv, NEW p \in Paths, delete(p)
  PROVE  ApplyInv'
<1>1. /\ pc = "deletes" /\ p \in todo /\ UNCHANGED <<staged, journal, plain, sound, pc, run>>
      /\ out' = Removed(out, p) /\ todo' = todo \ {p}
  BY DEF delete, Commit, Step
<1>2. /\ run.plan \in Plans /\ (plain => Replaceable(out, run.plan))
      /\ out \in [Paths -> Nodes] /\ staged \in [Paths -> Contents \cup {Missing, Garbage}]
  BY <1>1, Running DEF ApplyInv, Typed
<1>3. /\ todo \subseteq Deleted(run.plan)
      /\ plain => \A q \in Files(run.plan) \cup Dirs(run.plan) \cup Links(run.plan) : Done(q)
      /\ plain /\ run.del => \A q \in Deleted(run.plan) : q \in todo \/ Gone(q)
  BY <1>1 DEF ApplyInv, Phased, Ending, Deleting
<1>4. p \in Deleted(run.plan) /\ run.plan.new[p] = Absent /\ run.plan.new[p].kind = "none"
  BY <1>1, <1>3, NodeFacts DEF Deleted
<1>5. out' = out \/ out' = Put(out, p, Absent)
  BY <1>1 DEF Removed
<1>6. out' \in [Paths -> Nodes]
  BY <1>2, <1>5, NodeFacts DEF Put
<1>7. ASSUME plain
      PROVE  (out' = out /\ Gone(p)) \/ out' = [out EXCEPT ![p] = Absent]
  <2>1. Place(out, p) = p /\ At(out, p) = out[p]
    BY <1>2, <1>4, <1>7, Straight
  <2>2. out[p].kind # "link" /\ Follow(out, p) = out[p]
    BY <1>2, <1>4, <1>7, <2>1 DEF Replaceable, Follow
  <2>3. CASE out' = out
    <3>1. out[p] = Dir \/ out[p] = Absent \/ out' = [out EXCEPT ![p] = Absent]
      BY <1>1, <2>1, <2>2 DEF Removed, Put
    <3>2. QED
      BY <2>3, <3>1, NodeFacts DEF Gone
  <2>4. CASE out' = Put(out, p, Absent)
    BY <2>1, <2>4 DEF Put
  <2>5. QED
    BY <1>5, <2>3, <2>4
<1>8. plain => Replaceable(out', run.plan)
  BY <1>2, <1>4, <1>7, StaysReplaceable, NodeFacts
<1>9. ASSUME plain, NEW q \in Files(run.plan) \cup Dirs(run.plan) \cup Links(run.plan)
      PROVE  out'[q] = run.plan.new[q]
  <2>1. q \in Paths /\ q # p
    BY <1>2, <1>4, PlanFacts DEF Files, Dirs, Links, Entries
  <2>2. QED
    BY <1>2, <1>3, <1>7, <1>9, <2>1 DEF Done
<1>10. ASSUME plain, NEW q \in Paths, Gone(q) \/ q = p
       PROVE  out'[q].kind \notin {"file", "link"}
  BY <1>2, <1>7, <1>10, NodeFacts DEF Gone
<1>11. Typed' /\ Tame' /\ Recoverable'
  BY <1>1, <1>2, <1>6, <1>8, <1>9, CommitFits
<1>12. Ending'
  BY <1>1, <1>9 DEF Ending, Done
<1>13. Deleting'
  <2>1. todo' \subseteq Deleted(run.plan)
    BY <1>1, <1>3
  <2>2. ASSUME plain, run.del, NEW q \in Deleted(run.plan)
        PROVE  q \in todo' \/ out'[q].kind \notin {"file", "link"}
    BY <1>1, <1>2, <1>3, <1>10, <2>2, PlanFacts
  <2>3. QED
    BY <1>1, <2>1, <2>2 DEF Deleting, Gone, Deleted
<1>14. QED
  BY <1>1, <1>11, <1>12, <1>13 DEF ApplyInv, Phased, Staging, MakingDirs, MovingFiles, MakingLinks

\* The staging directory goes when everything is in place; the journal last.
LEMMA CleanupKeeps ==
  ASSUME ApplyInv, remove_staging \/ clear_journal \/ abandon
  PROVE  ApplyInv'
<1>1. NoStaging \in [Paths -> Contents \cup {Missing, Garbage}]
  BY DEF NoStaging
<1>2. CASE remove_staging
  <2>1. pc = "cleanup" /\ pc' = "clear" /\ staged' = NoStaging
        /\ UNCHANGED <<out, journal, run, todo, plain>>
    BY <1>2 DEF remove_staging
  <2>2. /\ journal \in Journals /\ run \in Runs /\ out \in [Paths -> Nodes]
        /\ journal.plan = run.plan /\ journal.inplace = run.inplace
        /\ plain => Replaceable(out, run.plan)
    BY <2>1, Running DEF ApplyInv, Typed
  <2>3. Ending /\ Deleting
    BY DEF ApplyInv, Phased
  <2>4. Ending' /\ Deleting'
    BY <2>1, <2>3 DEF Ending, Deleting, Done, Gone, Deleted
  <2>5. plain => \A q \in Files(run.plan) : out[q] = run.plan.new[q]
    BY <2>1, <2>3 DEF Ending, Done
  <2>6. Tame' /\ Recoverable'
    BY <2>1, <2>2, <2>5, PlacedIsRecoverable
  <2>7. Typed'
    BY <1>1, <2>1, <2>2 DEF ApplyInv, Typed, Phases
  <2>8. QED
    BY <2>1, <2>4, <2>6, <2>7 DEF ApplyInv, Phased, Staging, MakingDirs, MovingFiles, MakingLinks
<1>3. CASE clear_journal \/ abandon
  <2>1. /\ pc' = "idle" /\ journal' = NoJournal /\ out' = out /\ plain' = FALSE
        /\ todo' \subseteq Paths /\ staged' \in [Paths -> Contents \cup {Missing, Garbage}]
    BY <1>1, <1>3 DEF clear_journal, abandon, Return, ApplyInv, Typed
  <2>2. QED
    BY <2>1 DEF ApplyInv, Typed, Phases, Tame, Recoverable, Phased, Staging, MakingDirs,
                MovingFiles, MakingLinks, Ending, Deleting
<1>4. QED
  BY <1>2, <1>3

\* A crash, and one in the middle of a staged file, which was of no use before.
LEMMA DyingKeeps ==
  ASSUME ApplyInv, dies \/ \E p \in Paths : dies_staging(p)
  PROVE  ApplyInv'
<1>1. CASE dies
  BY <1>1, CommitFails DEF dies, Dies
<1>2. ASSUME NEW p \in Paths, dies_staging(p) PROVE ApplyInv'
  <2>1. /\ pc = "stage" /\ Return /\ staged' = [staged EXCEPT ![p] = Garbage]
        /\ staged[p] # run.plan.new[p].is /\ UNCHANGED <<out, journal, plain, sound>>
    BY <1>2 DEF dies_staging, Dies
  <2>2. journal \in Journals /\ run.plan \in Plans /\ journal.plan = run.plan
    BY <2>1, Running
  <2>3. /\ staged' \in [Paths -> Contents \cup {Missing, Garbage}]
        /\ \A q \in Files(journal.plan) :
             staged[q] = journal.plan.new[q].is => staged'[q] = staged[q]
    BY <2>1, <2>2, PlanFacts DEF ApplyInv, Typed
  <2>4. Tame' /\ Recoverable'
    BY <2>1, <2>2, <2>3, StaysRecoverable
  <2>5. QED
    BY <2>1, <2>2, <2>3, <2>4, Returning
<1>3. QED
  BY <1>1, <1>2

\* Nothing happens.
LEMMA StutterKeeps == ApplyInv /\ UNCHANGED vars => ApplyInv'
<1>1. SUFFICES ASSUME ApplyInv, UNCHANGED vars PROVE ApplyInv'
  OBVIOUS
<1>2. QED
  BY <1>1 DEF vars, ApplyInv, Typed, Tame, Recoverable, Phased, Staging, MakingDirs, MovingFiles,
              MakingLinks, Ending, Deleting, Kept, Done, Gone, Deleted, Replaceable, Intact, OldRoot

\* Every step keeps the invariant.
LEMMA NextKeeps == ApplyInv /\ [Next]_vars => ApplyInv'
<1>1. SUFFICES ASSUME ApplyInv, Next PROVE ApplyInv'
  BY StutterKeeps
<1>2. CASE \E r \in Runs : apply_dir(r)
  BY <1>1, <1>2, ApplyKeeps
<1>3. CASE Working
  BY <1>1, <1>3, StageKeeps, DirKeeps, MoveKeeps, UnlinkKeeps, LinkKeeps, DeleteKeeps, PhasesKeep,
     CleanupKeeps DEF Working
<1>4. CASE dies \/ \E p \in Paths : dies_staging(p)
  BY <1>1, <1>4, DyingKeeps
<1>5. CASE abandon
  BY <1>1, <1>5, CleanupKeeps
<1>6. QED
  BY <1>1, <1>2, <1>3, <1>4, <1>5 DEF Next

\* The invariant holds in every state of apply_dir.
LEMMA InvAlways == Spec => []ApplyInv
BY InitHolds, NextKeeps, PTL DEF Spec

-----------------------------------------------------------------------------
(* The output is always a tree                                             *)

\* A path that leads through a link is still a path, of as many levels.
LEMMA PlaceFacts ==
  ASSUME NEW t \in [Paths -> Nodes], NEW p \in Paths
  PROVE  /\ Place(t, p) \in Paths
         /\ Inner(Place(t, p)) <=> Inner(p)
<1>1. CASE Inner(p) /\ t[Parent(p)].kind = "link"
  <2>1. Parent(p) \in Paths
    BY PathFacts
  <2>2. t[Parent(p)] \in {Link(n) : n \in Top}
    BY <1>1, <2>1 DEF Nodes, Absent, Dir, File
  <2>3. t[Parent(p)].to \in Top
    BY <2>2 DEF Link
  <2>4. p[2] \in Leaf
    BY <1>1 DEF Paths, Inner
  <2>5. QED
    BY <1>1, <2>3, <2>4 DEF Place, Paths, Inner
<1>2. QED
  BY <1>1 DEF Place

\* Changing one node of a tree.
LEMMA TreeWith ==
  ASSUME NEW t, IsTree(t), NEW p \in Paths, NEW n \in Nodes,
         Inner(p) => n.kind \in (IF t[Parent(p)] = Dir THEN {"none", "file"} ELSE {"none"}),
         ~Inner(p) => n = Dir \/ Empty(t, p)
  PROVE  IsTree([t EXCEPT ![p] = n])
<1> DEFINE u == [t EXCEPT ![p] = n]
<1>1. t \in [Paths -> Nodes] /\ u \in [Paths -> Nodes]
  BY DEF IsTree
<1>2. ASSUME NEW q \in Paths, Inner(q)
      PROVE  u[q].kind \in (IF u[Parent(q)] = Dir THEN {"none", "file"} ELSE {"none"})
  <2>1. Parent(q) \in Paths /\ ~Inner(Parent(q))
    BY PathFacts
  <2>2. t[q].kind \in (IF t[Parent(q)] = Dir THEN {"none", "file"} ELSE {"none"})
    BY <1>2 DEF IsTree
  <2>3. CASE q = p
    <3>1. Parent(q) # p
      BY <1>2, <2>1, <2>3
    <3>2. QED
      BY <1>1, <1>2, <2>1, <2>3, <3>1
  <2>4. CASE q # p /\ Parent(q) # p
    BY <1>1, <2>1, <2>2, <2>4
  <2>5. CASE q # p /\ Parent(q) = p
    <3>1. u[q] = t[q] /\ u[Parent(q)] = n
      BY <1>1, <2>5
    <3>2. n = Dir \/ t[q] = Absent
      BY <1>2, <2>1, <2>5 DEF Empty
    <3>3. QED
      BY <2>2, <3>1, <3>2, NodeFacts
  <2>6. QED
    BY <2>3, <2>4, <2>5
<1>3. QED
  BY <1>1, <1>2 DEF IsTree

\* There is nothing under what is not a directory.
LEMMA EmptyUnder ==
  ASSUME NEW t, IsTree(t), NEW p \in Paths, t[p] # Dir
  PROVE  Empty(t, p)
<1>1. SUFFICES ASSUME NEW q \in Paths, Inner(q), Parent(q) = p PROVE t[q] = Absent
  BY DEF Empty
<1>2. t[q].kind = "none" /\ t[q] \in Nodes
  BY <1>1 DEF IsTree
<1>3. QED
  BY <1>2, NodeFacts

\* The commit keeps the output a tree, whatever it met there: what
\* create_dir_all, rename, symlink and the deletions do is enough.
LEMMA TreeKept ==
  ASSUME ApplyInv, IsTree(out), Next
  PROVE  IsTree(out')
<1>1. out \in [Paths -> Nodes] /\ Phased
  BY DEF ApplyInv, Typed
<1>2. ASSUME NEW p \in Paths, ~Inner(p)
      PROVE  Place(out, p) = p /\ At(out, p) = out[p]
  BY <1>2 DEF Place, At
<1>3. ASSUME NEW p \in Paths, ~Inner(p)
      PROVE  IsTree(WithDir(out, p))
  BY <1>1, <1>2, <1>3, TreeWith, NodeFacts DEF WithDir, Put
<1>4. ASSUME NEW p \in Paths, make_dir(p) PROVE IsTree(out')
  <2>1. run.plan \in Plans /\ p \in Dirs(run.plan)
    BY <1>1, <1>4, Running DEF make_dir, Phased, MakingDirs
  <2>2. ~Inner(p)
    BY <2>1, PlanFacts, NodeFacts DEF Dirs, Entries
  <2>3. QED
    BY <1>3, <1>4, <2>2 DEF make_dir, Commit
<1>5. ASSUME NEW p \in Paths, move_file(p) PROVE IsTree(out')
  <2> DEFINE t == WithParent(out, p)
  <2>1. SUFFICES ASSUME Reachable(out, p), At(t, p).kind # "dir", out' = Put(t, p, File(staged[p]))
                 PROVE  IsTree(out')
    BY <1>5 DEF move_file, Commit
  <2>2. Parent(p) \in Paths /\ ~Inner(Parent(p))
    BY PathFacts
  <2>3. IsTree(t) /\ t \in [Paths -> Nodes]
    BY <1>3, <2>2 DEF WithParent, IsTree
  <2>4. File(staged[p]) \in Nodes /\ File(staged[p]).kind = "file"
    <3>1. run.plan \in Plans /\ p \in Files(run.plan) /\ staged[p] = run.plan.new[p].is
      BY <1>1, <1>5, Running DEF move_file, Phased, MovingFiles, Kept
    <3>2. staged[p] \in Contents
      BY <3>1, PlanFacts, NodeFacts DEF Files, Entries
    <3>3. QED
      BY <3>2, NodeFacts
  <2>5. CASE ~Inner(p)
    <3>1. Place(t, p) = p /\ t[p] # Dir
      BY <2>1, <2>5, NodeFacts DEF Place, At
    <3>2. QED
      BY <2>1, <2>3, <2>4, <2>5, <3>1, EmptyUnder, TreeWith DEF Put
  <2>6. CASE Inner(p)
    <3>1. Place(t, p) \in Paths /\ Inner(Place(t, p))
      BY <2>3, <2>6, PlaceFacts
    <3>2. t[Parent(Place(t, p))] = Dir
      <4>1. t[Parent(p)] = Dir \/ Follow(t, Parent(p)) = Dir
        <5>1. At(out, Parent(p)) = out[Parent(p)] /\ Place(out, Parent(p)) = Parent(p)
          BY <1>2, <2>2
        <5>2. CASE out[Parent(p)] = Absent
          BY <1>1, <2>2, <2>6, <5>1, <5>2 DEF WithParent, WithDir, Put
        <5>3. CASE out[Parent(p)] # Absent
          BY <2>1, <2>6, <5>1, <5>3 DEF WithParent, WithDir, Reachable, CanBeDir
        <5>4. QED
          BY <5>2, <5>3
      <4>2. CASE t[Parent(p)].kind = "link"
        <5>1. At(t, Parent(p)) = t[Parent(p)]
          BY <2>2 DEF At, Place
        <5>2. t[<<t[Parent(p)].to>>] = Dir
          BY <4>1, <4>2, <5>1, NodeFacts DEF Follow
        <5>3. Parent(Place(t, p)) = <<t[Parent(p)].to>>
          BY <2>6, <4>2 DEF Place, Parent
        <5>4. QED
          BY <5>2, <5>3
      <4>3. CASE t[Parent(p)].kind # "link"
        BY <2>2, <4>1, <4>3 DEF Place, Follow, At
      <4>4. QED
        BY <4>2, <4>3
    <3>3. QED
      BY <2>1, <2>3, <2>4, <3>1, <3>2, TreeWith DEF Put
  <2>7. QED
    BY <2>5, <2>6
<1>6. ASSUME NEW p \in Paths, unlink(p) \/ make_link(p) PROVE IsTree(out')
  <2>1. run.plan.new[p].kind = "link" /\ run.plan \in Plans /\ run.plan.new[p] \in Nodes
    BY <1>6, LinkFacts DEF unlink, make_link
  <2>2. ~Inner(p)
    BY <2>1, PlanFacts, NodeFacts
  <2>3. \/ out' = out
        \/ out[p] # Dir /\ out' = Put(out, p, Absent)
        \/ out[p] # Dir /\ out' = Put(out, p, run.plan.new[p])
    BY <1>2, <1>6, <2>2, NodeFacts DEF unlink, make_link, Commit
  <2>4. QED
    BY <1>2, <2>1, <2>2, <2>3, EmptyUnder, TreeWith, NodeFacts DEF Put
<1>7. ASSUME NEW p \in Paths, delete(p) PROVE IsTree(out')
  <2>1. SUFFICES ASSUME out' = Put(out, p, Absent),
                        Follow(out, p) # Dir \/ (At(out, p) = Dir /\ Empty(out, p))
                 PROVE  IsTree(out')
    BY <1>7 DEF delete, Commit, Removed
  <2>2. CASE Inner(p)
    BY <1>1, <2>1, <2>2, PlaceFacts, TreeWith, NodeFacts DEF Put
  <2>3. CASE ~Inner(p)
    <3>1. Place(out, p) = p /\ At(out, p) = out[p]
      BY <1>2, <2>3
    <3>2. out[p] # Dir \/ Empty(out, p)
      BY <2>1, <3>1, NodeFacts DEF Follow
    <3>3. QED
      BY <2>1, <2>3, <3>1, <3>2, EmptyUnder, TreeWith, NodeFacts DEF Put
  <2>4. QED
    BY <2>2, <2>3
<1>8. ASSUME NEW p \in Paths, stage_file(p) \/ dies_staging(p) PROVE IsTree(out')
  BY <1>8 DEF stage_file, dies_staging
<1>9. CASE \/ verified \/ committing \/ files_done \/ links_done \/ committed
           \/ remove_staging \/ clear_journal \/ dies \/ abandon
  BY <1>9 DEF verified, committing, files_done, links_done, committed, Phase, remove_staging,
              clear_journal, dies, abandon
<1>10. CASE \E r \in Runs : apply_dir(r)
  BY <1>10 DEF apply_dir, Begin
<1>11. QED
  BY <1>4, <1>5, <1>6, <1>7, <1>8, <1>9, <1>10 DEF Next, Working

\* The rest of the types.
Bounded ==
    /\ queue \subseteq Paths
    /\ pc = "idle" <=> run = NoRun
    /\ plain \in BOOLEAN /\ sound \in BOOLEAN
    /\ crashes \in 0 .. MaxCrashes

\* Every step keeps them; what is queued for the commit was staged.
LEMMA BoundedKept ==
  ASSUME ApplyInv, Bounded, Next
  PROVE  Bounded'
<1>1. \A r \in Runs : r # NoRun
  BY DEF Runs, NoRun
<1>2. ApplyInv'
  BY NextKeeps
<1>3. (pc = "idle" <=> run = NoRun) /\ todo \subseteq Paths
      /\ queue \subseteq Paths /\ plain \in BOOLEAN /\ sound \in BOOLEAN
      /\ crashes \in 0 .. MaxCrashes /\ MaxCrashes \in Nat
  BY ApplyAssumption DEF Bounded, ApplyInv, Typed
<1>4. CASE \E r \in Runs : apply_dir(r)
  <2>1. PICK r \in Runs : apply_dir(r)
    BY <1>4
  <2>2. pc' = "stage" /\ run' = r /\ queue' = {} /\ crashes' = crashes
    BY <2>1 DEF apply_dir, Begin
  <2>3. plain' = plain \/ plain' = Replaceable(out, r.plan)
    BY <2>1 DEF apply_dir, Begin
  <2>4. sound' = sound \/ sound' = \A p \in Entries(r.plan.new, "file") : Intact(r, p)
    BY <2>1 DEF apply_dir, Begin
  <2>5. plain' \in BOOLEAN /\ sound' \in BOOLEAN
    BY <1>3, <2>3, <2>4 DEF Replaceable
  <2>6. QED
    BY <1>1, <1>3, <2>2, <2>5 DEF Bounded
<1>5. ASSUME Return, plain' \in BOOLEAN, sound' \in BOOLEAN, crashes' \in 0 .. MaxCrashes
      PROVE  Bounded'
  BY <1>5 DEF Return, Bounded
<1>6. ASSUME pc # "idle", pc' # "idle", run' = run, queue' \subseteq Paths,
             UNCHANGED <<plain, sound, crashes>>
      PROVE  Bounded'
  BY <1>3, <1>6 DEF Bounded
<1>7. ASSUME NEW p \in Paths, stage_file(p) PROVE Bounded'
  <2>1. pc = "stage" /\ p \in Paths /\ UNCHANGED <<plain, sound, crashes>>
        /\ \/ Return
           \/ Step(p) /\ (queue' = queue \/ queue' = queue \cup {p})
    BY <1>7 DEF stage_file, Rebuild
  <2>2. QED
    BY <1>3, <1>5, <1>6, <2>1 DEF Step
<1>8. ASSUME NEW p \in Paths,
             make_dir(p) \/ move_file(p) \/ unlink(p) \/ make_link(p) \/ delete(p)
      PROVE  Bounded'
  <2>1. pc # "idle" /\ UNCHANGED <<plain, sound, crashes>>
        /\ \/ Return
           \/ UNCHANGED <<pc, run, queue>>
    BY <1>8 DEF make_dir, move_file, unlink, make_link, delete, Commit, Step
  <2>2. QED
    BY <1>3, <1>5, <1>6, <2>1
<1>9. CASE verified \/ committing \/ files_done \/ links_done \/ committed \/ remove_staging
  <2>1. pc # "idle" /\ pc' # "idle" /\ UNCHANGED <<run, queue, plain, sound, crashes>>
    BY <1>9 DEF verified, committing, files_done, links_done, committed, Phase, remove_staging
  <2>2. QED
    BY <1>3, <1>6, <2>1
<1>10. CASE clear_journal
  BY <1>3, <1>5, <1>10 DEF clear_journal
<1>11. CASE dies \/ \E p \in Paths : dies_staging(p)
  <2>1. Return /\ UNCHANGED <<plain, sound>> /\ crashes < MaxCrashes /\ crashes' = crashes + 1
    BY <1>11 DEF dies, dies_staging, Dies
  <2>2. QED
    BY <1>3, <1>5, <2>1
<1>12. CASE abandon
  BY <1>3, <1>12 DEF abandon, Bounded
<1>13. QED
  BY <1>4, <1>7, <1>8, <1>9, <1>10, <1>11, <1>12 DEF Next, Working

-----------------------------------------------------------------------------
(* The theorems                                                            *)

\* The values of the variables; above all, apply_dir leaves a tree behind at
\* every step, also where links and directories of the user are in its way.
THEOREM AlwaysTyped == Spec => []TypeOK
<1> DEFINE Inv == ApplyInv /\ IsTree(out) /\ Bounded
<1>1. Init => Inv
  <2>1. SUFFICES ASSUME Init PROVE IsTree(out) /\ Bounded
    BY InitHolds
  <2>2. PICK plan \in Plans : out = plan.old
    BY <2>1 DEF Init
  <2>3. IsTree(out)
    BY <2>2, ApplyAssumption DEF IsPlan
  <2>4. crashes \in 0 .. MaxCrashes
    BY <2>1, ApplyAssumption DEF Init
  <2>5. Bounded
    BY <2>1, <2>4 DEF Init, Bounded
  <2>6. QED
    BY <2>3, <2>5
<1>2. Inv /\ [Next]_vars => Inv'
  <2>1. CASE Next
    <3>1. Inv => IsTree(out')
      BY <2>1, TreeKept
    <3>2. IsTree(out') => IsTree(out)'
      BY DEF IsTree
    <3>3. QED
      BY <2>1, <3>1, <3>2, NextKeeps, BoundedKept
  <2>2. CASE UNCHANGED vars
    BY <2>2, StutterKeeps DEF vars, IsTree, Bounded
  <2>3. QED
    BY <2>1, <2>2
<1>3. Inv => TypeOK
  <2>1. ASSUME ApplyInv, IsTree(out), Bounded
        PROVE  TypeOK
    <3>1. journal = NoJournal \/ (journal.plan \in Plans /\ journal.inplace \in BOOLEAN)
      BY <2>1, JournalFacts DEF ApplyInv, Typed
    <3>2. run = NoRun \/ run \in Runs
      BY <2>1 DEF ApplyInv, Typed, Bounded
    <3>3. QED
      BY <2>1, <3>1, <3>2 DEF TypeOK, ApplyInv, Typed, Bounded
  <2>2. QED
    BY <2>1
<1>4. QED
  BY <1>1, <1>2, <1>3, PTL DEF Spec

\* Whatever the plans, and however often apply_dir is cut short: while its
\* journal is there, every file of the new build is in place, staged, or can
\* still be rebuilt.
THEOREM AlwaysRecoverable == Spec => []Recoverable
<1>1. ApplyInv => Recoverable
  BY DEF ApplyInv
<1>2. QED
  BY <1>1, InvAlways, PTL

\* When apply_dir reports success, the output is the new build; with
\* delete_removed no removed file or link is left.
THEOREM AlwaysNew == Spec => []CompletedIsNew
<1>1. ASSUME ApplyInv, pc = "clear", plain
      PROVE  /\ \A p \in Paths : run.plan.new[p] # Absent => out[p] = run.plan.new[p]
             /\ run.del => \A p \in Deleted(run.plan) : out[p].kind \notin {"file", "link"}
  <2>1. run.plan \in Plans
    BY <1>1, Running
  <2>2. ASSUME NEW p \in Paths, run.plan.new[p] # Absent
        PROVE  p \in Files(run.plan) \cup Dirs(run.plan) \cup Links(run.plan)
    <3>1. run.plan.new[p].kind \in {"file", "dir", "link"}
      BY <2>1, <2>2, PlanFacts, NodeFacts
    <3>2. QED
      BY <3>1 DEF Files, Dirs, Links, Entries
  <2>3. QED
    BY <1>1, <2>2 DEF ApplyInv, Phased, Ending, Deleting, Done, Gone
<1>2. ApplyInv => CompletedIsNew
  BY <1>1 DEF CompletedIsNew
<1>3. QED
  BY <1>2, InvAlways, PTL

\* While an apply runs, a file that neither the old nor the new build has is
\* left as it is, whatever the plan removes or replaces around it.
THEOREM UnmanagedAlwaysSurvives == Spec => UnmanagedSurvives
<1>1. ASSUME ApplyInv, Next, pc # "idle", plain, NEW p \in Entries(out, "file"),
             run.plan.old[p] = Absent, run.plan.new[p] = Absent
      PROVE  out'[p] = out[p]
  <2>1. /\ run.plan \in Plans /\ Replaceable(out, run.plan) /\ out \in [Paths -> Nodes]
        /\ p \in Paths /\ p \notin Deleted(run.plan) /\ Phased
    BY <1>1, Running DEF ApplyInv, Typed, Entries, Deleted
  <2>2. ASSUME NEW q \in Paths, NEW n,
               run.plan.new[q] # Absent \/ q \in Deleted(run.plan)
        PROVE  Put(out, q, n)[p] = out[p]
    <3>1. Place(out, q) = q /\ q # p
      BY <1>1, <2>1, <2>2, Straight
    <3>2. QED
      BY <2>1, <3>1 DEF Put
  <2>3. ASSUME NEW q \in Paths, make_dir(q) PROVE out'[p] = out[p]
    <3>1. q \in Dirs(run.plan)
      BY <2>1, <2>3 DEF make_dir, Phased, MakingDirs
    <3>2. run.plan.new[q] # Absent
      BY <3>1, NodeFacts DEF Dirs, Entries
    <3>3. out' = out \/ out' = Put(out, q, Dir)
      BY <2>3 DEF make_dir, Commit, WithDir
    <3>4. QED
      BY <2>2, <3>2, <3>3
  <2>4. ASSUME NEW q \in Paths, move_file(q) PROVE out'[p] = out[p]
    <3>1. /\ q \in Files(run.plan) /\ \A d \in Dirs(run.plan) : out[d] = run.plan.new[d]
      BY <1>1, <2>1, <2>4 DEF move_file, Phased, MovingFiles, Done
    <3>2. run.plan.new[q] # Absent
      BY <3>1, NodeFacts DEF Files, Entries
    <3>3. WithParent(out, q) = out
      BY <2>1, <3>1, <3>2, ParentIsThere
    <3>4. out' = out \/ out' = Put(out, q, File(staged[q]))
      BY <2>4, <3>3 DEF move_file, Commit
    <3>5. QED
      BY <2>2, <3>2, <3>4
  <2>5. ASSUME NEW q \in Paths, unlink(q) \/ make_link(q) PROVE out'[p] = out[p]
    <3>1. q \in Links(run.plan)
      BY <2>1, <2>5 DEF unlink, make_link, Phased, MakingLinks
    <3>2. run.plan.new[q] # Absent
      BY <3>1, NodeFacts DEF Links, Entries
    <3>3. out' = out \/ out' = Put(out, q, Absent) \/ out' = Put(out, q, run.plan.new[q])
      BY <2>5 DEF unlink, make_link, Commit
    <3>4. QED
      BY <2>2, <3>2, <3>3
  <2>6. ASSUME NEW q \in Paths, delete(q) PROVE out'[p] = out[p]
    <3>1. q \in Deleted(run.plan)
      BY <2>1, <2>6 DEF delete, Phased, Deleting
    <3>2. out' = out \/ out' = Put(out, q, Absent)
      BY <2>6 DEF delete, Commit, Removed
    <3>3. QED
      BY <2>2, <3>1, <3>2
  <2>7. ASSUME NEW q \in Paths, stage_file(q) \/ dies_staging(q) PROVE out' = out
    BY <2>7 DEF stage_file, dies_staging
  <2>8. CASE \/ verified \/ committing \/ files_done \/ links_done \/ committed
             \/ remove_staging \/ clear_journal \/ dies \/ abandon
    BY <2>8 DEF verified, committing, files_done, links_done, committed, Phase, remove_staging,
                clear_journal, dies, abandon
  <2>9. CASE \E r \in Runs : apply_dir(r)
    BY <1>1, <2>9 DEF apply_dir
  <2>10. QED
    BY <1>1, <2>3, <2>4, <2>5, <2>6, <2>7, <2>8, <2>9 DEF Next, Working
<1>2. ASSUME ApplyInv, [Next]_vars
      PROVE  [pc # "idle" /\ plain =>
                \A p \in Entries(out, "file") :
                   run.plan.old[p] = Absent /\ run.plan.new[p] = Absent => out'[p] = out[p]]_vars
  BY <1>1, <1>2
<1>3. QED
  BY <1>2, InvAlways, PTL DEF Spec, UnmanagedSurvives
=============================================================================
