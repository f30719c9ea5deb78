--------------------------- MODULE MCStagedApply ---------------------------
(* Instances of StagedApply for TLC. *)
EXTENDS StagedApply, TLC

CONSTANTS a, b, x, c1, c2

MCTop      == {a, b}
MCLeaf     == {x}
MCContents == {c1, c2}

\* A tree, from what it has under a, a/x, b and b/x.
Tree(na, nax, nb, nbx) ==
    [p \in Paths |-> CASE p = <<a>> -> na [] p = <<a, x>> -> nax
                        [] p = <<b>> -> nb [] p = <<b, x>> -> nbx]

\* Files that trade places, a file that becomes a directory and back, a
\* directory that becomes a link to another, a link to a file, a lone file.
Builds == {Tree(File(c1), Absent, File(c2), Absent),
           Tree(File(c2), Absent, File(c1), Absent),
           Tree(Dir, File(c2), File(c1), Absent),
           Tree(Dir, File(c1), Absent, Absent),
           Tree(Link(b), Absent, Dir, File(c1)),
           Tree(Link(b), Absent, File(c2), Absent),
           Tree(Absent, Absent, File(c1), Absent)}

\* Every new file is built from an old one.
MCPlans ==
    UNION {[old : {o}, new : {n}, src : [Entries(n, "file") -> Entries(o, "file")]] :
             o \in Builds, n \in Builds}
Unchecked == {FALSE}
Checked   == {TRUE}
=============================================================================
