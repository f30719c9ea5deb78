---------------------------- MODULE StagedApply ----------------------------
(***************************************************************************)
(* Applying a directory plan (cavs-plan/src/apply.rs, apply_dir): changed  *)
(* files are rebuilt from the old install into `.cavs-staging`, verified,  *)
(* and moved into place one by one under a journal; re-running the apply   *)
(* finishes one that was cut short.  The output may be the old install     *)
(* itself (in place), so that a commit overwrites what it was built from.  *)
(*                                                                         *)
(* What is abstracted.  A file's bytes are one value.  A new file is built *)
(* from one old file (and bytes of the plan), or from the plan alone; it   *)
(* comes out right exactly when that old file is what the plan was diffed  *)
(* against.  Permission bits are left out.  Trees have two levels, and     *)
(* links stand at the top and lead to the top.                             *)
(***************************************************************************)
EXTENDS Naturals, Sequences, FiniteSets

CONSTANTS
    Top,             \* names in the root of a tree
    Leaf,            \* names in a directory
    Contents,        \* contents of a file
    Plans,           \* the plans applied
    Checks,          \* the values of --check-old
    MaxCrashes       \* bound: how often the process dies

Paths == {<<n>> : n \in Top} \cup {<<n, l>> : n \in Top, l \in Leaf}
Parent(p) == <<p[1]>>

Absent  == [kind |-> "none"]
Dir     == [kind |-> "dir"]
File(c) == [kind |-> "file", is |-> c]
Link(n) == [kind |-> "link", to |-> n]
Nodes   == {Absent, Dir} \cup {File(c) : c \in Contents} \cup {Link(n) : n \in Top}

Inner(p) == Len(p) = 2

\* Only directories have something under them.
IsTree(t) ==
    /\ t \in [Paths -> Nodes]
    /\ \A p \in Paths : Inner(p) =>
         t[p].kind \in (IF t[Parent(p)] = Dir THEN {"none", "file"} ELSE {"none"})

Entries(t, kind) == {p \in Paths : t[p].kind = kind}

Inline == <<>>       \* the place of bytes that come with the plan

\* A plan: the old entries, the new ones, and where new files are built from.
IsPlan(plan) ==
    /\ IsTree(plan.old) /\ IsTree(plan.new)
    /\ plan.src \in [Entries(plan.new, "file") -> Entries(plan.old, "file") \cup {Inline}]

\* What is left in staging for an entry.
Missing == "missing"
Garbage == "garbage"

ASSUME ApplyAssumption ==
    /\ \A plan \in Plans : IsPlan(plan)
    /\ Checks \subseteq BOOLEAN
    /\ MaxCrashes \in Nat
    /\ Contents \cap {Missing, Garbage} = {}

VARIABLES
    \* the disk
    out,             \* the tree under out_root
    staged,          \* .cavs-staging
    journal,         \* .cavs-journal.json
    \* the running apply
    pc,              \* its phase
    run,             \* its plan and options
    todo,            \* the entries the phase has yet to visit
    queue,           \* the files that will be moved into place
    \* history, read by properties only
    plain,           \* the apply of the journal met a tree it can handle
    sound,           \* ... and an old install the plan was diffed against
    crashes          \* how often the process died

vars == <<out, staged, journal, pc, run, todo, queue, plain, sound, crashes>>

NoStaging == [p \in Paths |-> Missing]
NoJournal == [state |-> "none"]
NoRun     == [plan |-> "none"]

-----------------------------------------------------------------------------
(* The file system, as far as apply_dir uses it.                           *)

\* A path under a link leads into what the link leads to.
Place(t, p) ==
    IF Inner(p) /\ t[Parent(p)].kind = "link" THEN <<t[Parent(p)].to, p[2]>> ELSE p

At(t, p)     == t[Place(t, p)]                        \* symlink_metadata
Follow(t, p) == IF At(t, p).kind = "link" THEN t[<<At(t, p).to>>] ELSE At(t, p)

Put(t, p, node) == [t EXCEPT ![Place(t, p)] = node]

\* create_dir_all
CanBeDir(t, p) == Follow(t, p) = Dir \/ At(t, p) = Absent
WithDir(t, p)  == IF At(t, p) = Absent THEN Put(t, p, Dir) ELSE t

\* create_dir_all of the parent
Reachable(t, p)  == Inner(p) => CanBeDir(t, Parent(p))
WithParent(t, p) == IF Inner(p) THEN WithDir(t, Parent(p)) ELSE t

Empty(t, p) == \A q \in Paths : Inner(q) /\ Parent(q) = p => t[q] = Absent

\* Mutant: a directory goes although it has something in it.
Removed_with_contents(t, p) ==
    IF At(t, p) = Absent THEN t ELSE Put(t, p, Absent)

\* One managed deletion: a directory goes only when it is empty, anything
\* else goes; a link to a directory is taken for one and stays.
Removed(t, p) ==
    CASE Follow(t, p) = Dir /\ ~(At(t, p) = Dir /\ Empty(t, p)) -> t
      [] Follow(t, p) # Dir /\ At(t, p) = Absent -> t
      [] OTHER -> Put(t, p, Absent)

-----------------------------------------------------------------------------
(* Plans                                                                   *)

\* Mutant: whatever the new build does not have is removed.
Deleted_mirroring(plan) == {p \in Paths : out[p] # Absent /\ plan.new[p] = Absent}

\* build: every old entry missing from the new tree.
Deleted(plan) == {p \in Paths : plan.old[p] # Absent /\ plan.new[p] = Absent}

OldRoot(r) == IF r.inplace THEN out ELSE r.plan.old

\* verify_old_source
OldMatches(r) == \A p \in Entries(r.plan.old, "file") : Follow(OldRoot(r), p) = r.plan.old[p]

\* write_entry reads what the plan was diffed against.
Intact(r, p) ==
    \/ r.plan.src[p] = Inline
    \/ Follow(OldRoot(r), r.plan.src[p]) = r.plan.old[r.plan.src[p]]

\* Mutant: a file that is there is taken for the new one.
file_matches_by_name(t, p, c) == Follow(t, p).kind = "file"

file_matches(t, p, c) == Follow(t, p) = File(c)

\* The trees for which an apply does what it says: no node stands where the
\* plan has one of a kind that cannot replace it, and no path the plan deletes
\* leads through a link of the new build, to a file of the new build.
Replaceable(t, plan) ==
    \A p \in Paths :
        /\ Inner(p) /\ p \in Deleted(plan) => plan.new[Parent(p)].kind # "link"
        /\ t[p].kind = "link" => plan.new[p].kind = "link"
        /\ plan.new[p].kind \in {"file", "link"} => t[p].kind # "dir"
        /\ plan.new[p].kind = "dir" => t[p].kind \in {"none", "dir"}

-----------------------------------------------------------------------------
(* apply_dir                                                               *)

\* Begin: the old source is checked if asked for, a journal of another plan
\* is respected, and the journal is written.  A refusal changes nothing.  An
\* apply that is run again is given the same old_root, as --resume does.
Begin(r) ==
    /\ journal' = [state |-> "staging", plan |-> r.plan, inplace |-> r.inplace]
    /\ pc' = "stage" /\ run' = r
    /\ todo' = Entries(r.plan.new, "file") /\ queue' = {}
    /\ plain' = IF journal = NoJournal THEN Replaceable(out, r.plan) ELSE plain
    /\ sound' = IF journal = NoJournal
                THEN \A p \in Entries(r.plan.new, "file") : Intact(r, p) ELSE sound
    /\ UNCHANGED <<out, staged, crashes>>

\* Mutant: an apply that finds any journal refuses to run.
apply_dir_refusing(r) ==
    /\ pc = "idle"
    /\ journal = NoJournal
    /\ r.check => OldMatches(r)
    /\ Begin(r)

apply_dir(r) ==
    /\ pc = "idle"
    /\ journal # NoJournal => journal.plan = r.plan /\ journal.inplace = r.inplace
    /\ r.check => OldMatches(r)
    /\ Begin(r)

\* Back to the caller with an error, the journal as it stands.
Return == pc' = "idle" /\ run' = NoRun /\ todo' = {} /\ queue' = {}

Step(p) == todo' = todo \ {p} /\ UNCHANGED <<pc, run>>

Rebuild(p) ==
    \/ /\ Intact(run, p)
       /\ staged' = [staged EXCEPT ![p] = run.plan.new[p].is]
       /\ queue' = queue \cup {p}
       /\ Step(p)
       /\ UNCHANGED journal
    \/ /\ ~Intact(run, p)               \* missing, too short, or other bytes
       /\ staged' = [staged EXCEPT ![p] = Garbage]
       /\ \/ UNCHANGED journal
          \/ journal' = [journal EXCEPT !.state = "failed"]
       /\ Return

\* Mutant: what an earlier run staged is not looked at.
stage_file_afresh(p) ==
    /\ pc = "stage" /\ p \in todo
    /\ \/ /\ file_matches(out, p, run.plan.new[p].is)
          /\ Step(p)
          /\ UNCHANGED <<staged, queue, journal>>
       \/ /\ ~file_matches(out, p, run.plan.new[p].is)
          /\ Rebuild(p)
    /\ UNCHANGED <<out, plain, sound, crashes>>

\* One file: already installed, already staged, or rebuilt and verified.
stage_file(p) ==
    LET c == run.plan.new[p].is
    IN  /\ pc = "stage" /\ p \in todo
        /\ \/ /\ file_matches(out, p, c)
              /\ Step(p)
              /\ UNCHANGED <<staged, queue, journal>>
           \/ /\ ~file_matches(out, p, c) /\ staged[p] = c
              /\ queue' = queue \cup {p}
              /\ Step(p)
              /\ UNCHANGED <<staged, journal>>
           \/ /\ ~file_matches(out, p, c) /\ staged[p] # c
              /\ Rebuild(p)
        /\ UNCHANGED <<out, plain, sound, crashes>>

\* From one phase to the next, with its journal state and its entries.
Phase(from, to, state, entries) ==
    /\ pc = from /\ todo = {}
    /\ pc' = to
    /\ todo' = entries
    /\ journal' = [journal EXCEPT !.state = state]
    /\ UNCHANGED <<out, staged, run, queue, plain, sound, crashes>>

verified      == Phase("stage", "dirs", "verified", Entries(run.plan.new, "dir"))
committing    == Phase("dirs", "files", "committing", queue)
files_done    == Phase("files", "links", "committing", Entries(run.plan.new, "link"))
links_done    == Phase("links", "deletes", "committing",
                       IF run.del THEN Deleted(run.plan) ELSE {})
committed     == Phase("deletes", "cleanup", "committed", {})

\* A step of the commit: it changes the tree, or something is in the way.
Commit(p, fits, tree) ==
    /\ \/ fits /\ out' = tree /\ Step(p) /\ UNCHANGED queue
       \/ ~fits /\ UNCHANGED out /\ Return
    /\ UNCHANGED <<journal, plain, sound, crashes>>

make_dir(p) ==
    /\ pc = "dirs" /\ p \in todo
    /\ Commit(p, CanBeDir(out, p), WithDir(out, p))
    /\ UNCHANGED staged

\* rename(staged, final)
move_file(p) ==
    LET t    == WithParent(out, p)
        fits == Reachable(out, p) /\ At(t, p).kind # "dir"
    IN  /\ pc = "files" /\ p \in todo
        /\ Commit(p, fits, Put(t, p, File(staged[p])))
        /\ staged' = IF fits THEN [staged EXCEPT ![p] = Missing] ELSE staged

\* create_symlink: what is there is removed first.
unlink(p) ==
    /\ pc = "links" /\ p \in todo
    /\ At(out, p) # Absent /\ At(out, p).kind # "dir"
    /\ out' = Put(out, p, Absent)
    /\ UNCHANGED <<staged, journal, pc, run, todo, queue, plain, sound, crashes>>

make_link(p) ==
    /\ pc = "links" /\ p \in todo
    /\ At(out, p).kind \in {"none", "dir"}
    /\ Commit(p, At(out, p) = Absent, Put(out, p, run.plan.new[p]))
    /\ UNCHANGED staged

\* The old entries are sorted: a directory comes before what is in it.
delete(p) ==
    /\ pc = "deletes" /\ p \in todo
    /\ Inner(p) => Parent(p) \notin todo
    /\ Commit(p, TRUE, Removed(out, p))
    /\ UNCHANGED staged

remove_staging ==
    /\ pc = "cleanup"
    /\ staged' = NoStaging
    /\ pc' = "clear"
    /\ UNCHANGED <<out, journal, run, todo, queue, plain, sound, crashes>>

clear_journal ==
    /\ pc = "clear"
    /\ journal' = NoJournal
    /\ Return
    /\ plain' = FALSE /\ sound' = FALSE
    /\ UNCHANGED <<out, staged, crashes>>

-----------------------------------------------------------------------------
(* Around it.                                                              *)

Dies == crashes < MaxCrashes /\ crashes' = crashes + 1 /\ Return

dies == /\ pc # "idle" /\ Dies
        /\ UNCHANGED <<out, staged, journal, plain, sound>>

\* It dies while it writes a staged file.
dies_staging(p) ==
    /\ pc = "stage" /\ p \in todo
    /\ ~file_matches(out, p, run.plan.new[p].is) /\ staged[p] # run.plan.new[p].is
    /\ staged' = [staged EXCEPT ![p] = Garbage]
    /\ Dies
    /\ UNCHANGED <<out, journal, plain, sound>>

\* "delete the journal and staging dir", as the refusal suggests.
abandon ==
    /\ pc = "idle" /\ journal # NoJournal
    /\ journal' = NoJournal /\ staged' = NoStaging
    /\ plain' = FALSE /\ sound' = FALSE
    /\ UNCHANGED <<out, pc, run, todo, queue, crashes>>

Runs == [plan : Plans, inplace : BOOLEAN, del : BOOLEAN, check : Checks]

Init ==
    /\ out \in {plan.old : plan \in Plans}
    /\ staged = NoStaging /\ journal = NoJournal
    /\ pc = "idle" /\ run = NoRun /\ todo = {} /\ queue = {}
    /\ plain = FALSE /\ sound = FALSE /\ crashes = 0

\* The apply of the journal is run again.
rerun == journal # NoJournal /\ \E r \in Runs : apply_dir(r)

Working ==
    \/ \E p \in Paths : \/ stage_file(p) \/ make_dir(p) \/ move_file(p)
                        \/ unlink(p) \/ make_link(p) \/ delete(p)
    \/ verified \/ committing \/ files_done \/ links_done \/ committed
    \/ remove_staging \/ clear_journal

Next ==
    \/ \E r \in Runs : apply_dir(r)
    \/ Working
    \/ dies \/ \E p \in Paths : dies_staging(p)
    \/ abandon

\* A process that runs goes on, and an apply that was cut short is run again.
Fairness == WF_vars(Working) /\ WF_vars(rerun)

Spec == Init /\ [][Next]_vars /\ Fairness

-----------------------------------------------------------------------------
(* Properties *)

Phases == {"idle", "stage", "dirs", "files", "links", "deletes", "cleanup", "clear"}

\* The values the variables take; the output is always a tree.
TypeOK ==
    /\ IsTree(out)
    /\ staged \in [Paths -> Contents \cup {Missing, Garbage}]
    /\ journal = NoJournal \/ (journal.plan \in Plans /\ journal.inplace \in BOOLEAN)
    /\ pc \in Phases /\ (run = NoRun \/ run \in Runs) /\ (pc = "idle" <=> run = NoRun)
    /\ todo \subseteq Paths /\ queue \subseteq Paths
    /\ plain \in BOOLEAN /\ sound \in BOOLEAN /\ crashes \in 0..MaxCrashes

\* While a journal is there, the apply it belongs to can be finished: each
\* file of the new build is in place, or staged, or the old file it is built
\* from is untouched - although in place the commit overwrites those files,
\* and whatever point the run, or the run before it, was cut short at.
Recoverable ==
    journal # NoJournal /\ plain /\ sound =>
        \A p \in Entries(journal.plan.new, "file") :
            \/ file_matches(out, p, journal.plan.new[p].is)
            \/ staged[p] = journal.plan.new[p].is
            \/ Intact(journal, p)

\* An apply that reports success "turn[ed] an old install into the new build",
\* also after crashes, and with delete_removed no removed file is left.
CompletedIsNew ==
    pc = "clear" /\ plain =>
        /\ \A p \in Paths : run.plan.new[p] # Absent => out[p] = run.plan.new[p]
        /\ run.del => \A p \in Deleted(run.plan) : out[p].kind \notin {"file", "link"}

\* "user modifications to *unmanaged* files survive": a file that is neither
\* in the old nor in the new build is never touched, by managed deletions
\* least of all.
UnmanagedSurvives ==
    [][pc # "idle" /\ plain =>
         \A p \in Entries(out, "file") :
             run.plan.old[p] = Absent /\ run.plan.new[p] = Absent => out'[p] = out[p]]_vars

\* "an interrupted apply is finished (or safely restarted) by re-running":
\* if it is run again after every crash, it completes, or somebody deletes
\* its journal.
Finishes == (journal # NoJournal /\ plain /\ sound) ~> (journal = NoJournal)
=============================================================================
